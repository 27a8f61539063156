--------------------------------- MODULE Catalog ---------------------------------
(***************************************************************************)
(* The rules of a catalog (core/src/catalog/validate.rs) and the expansion *)
(* of its path templates (expand.rs), over the deny-list.                  *)
(*                                                                         *)
(* A path template is a sequence of words: a drive, a variable, "." or    *)
(* "..", or a name.  A key is a sequence of words from its hive down; a    *)
(* driver the pieces of its file name between separators.  An optional     *)
(* value is <<>> or <<x>>, and a text is blank or not where only that      *)
(* matters.                                                                *)
(***************************************************************************)
EXTENDS DenyList, SequencesExt

CONSTANTS
  Candidates,       \* what each KNOWN_VARIABLES expands to when validating
  UnknownVariables, \* words with a % that are none of them
  DriveLetters,     \* "C:" and the like
  Wildcards,        \* words with * or ?
  Trailing,         \* words ending in a dot or a space, and what opens if written so
  AliasNames,       \* words of the form NAME~N
  KebabIds,         \* ids in kebab case
  SysNames,         \* driver file names ending in .sys
  Sha256,           \* texts of 64 hex digits
  ProductCodes      \* MSI product codes in braces

SupportedSchemaVersion == 1

------------------------------------------------------------------------------
(* Templates *)

(* expand_with: every path a template denotes for the values of a machine;  *)
(* a variable without a value denotes none.                                 *)
ExpandWith(template, values) ==
  FoldLeft(LAMBDA paths, word :
             IF word \in DOMAIN Candidates THEN {p \o v : p \in paths, v \in values[word]}
             ELSE {Append(p, word) : p \in paths},
           {<<>>}, template)

Expands(template) == ToSet(template) \cap UnknownVariables = {}
ExpandForValidation(template) == ExpandWith(template, Candidates)

(* canonicalise_syntactic of an expansion: a drive and then names, ".."     *)
(* never above the root, and a colon nowhere else.                          *)
Resolved(words) ==
  FoldLeft(LAMBDA done, word :
             CASE word = "."  -> done
               [] word = ".." -> IF done # <<>> /\ done[1] # <<>>
                                   THEN <<Front(done[1])>> ELSE <<>>
               [] word \in DriveLetters \/ done = <<>> -> <<>>
               [] word \in DOMAIN Trailing -> <<Append(done[1], Trailing[word])>>
               [] OTHER -> <<Append(done[1], word)>>,
           <<<<>>>>, words)

Canonicalises(path) ==
  path # <<>> /\ path[1] \in DriveLetters /\ Resolved(Tail(path)) # <<>>

CanonicalPath(path) ==
  [kind |-> "DriveRooted", components |-> Resolved(Tail(path))[1],
   shortName |-> ToSet(path) \cap AliasNames # {}, resolvedViaHandle |-> FALSE]

------------------------------------------------------------------------------
(* validate *)

IsPathEntry(entry, isSave) ==
  /\ (entry.class = "save") = isSave
  /\ \A word \in Range(entry.path) :
       word \notin Wildcards \cup {".", ".."} \cup DOMAIN Trailing
  /\ Expands(entry.path)
  /\ \A path \in ExpandForValidation(entry.path) : Canonicalises(path)

IsKey(key) == key # <<>> /\ key[1] \in Hives

IsRegistryEntry(entry) == IsKey(entry.key) /\ entry.class # "save"

IsUninstall(uninstall) ==
  CASE uninstall.kind = "exe"  -> uninstall.command \notin {<<>>, <<"">>}
    [] uninstall.kind = "msi"  -> uninstall.command # <<>> /\ uninstall.command[1] \in ProductCodes
    [] uninstall.kind = "none" -> uninstall.command = <<>>

IsAnticheat(ac) ==
  /\ ac.id \in KebabIds
  /\ ac.display # ""
  /\ ac.kind = "kernel" => ac.drivers # {}
  /\ ac.risk = "critical" => ac.kind # "usermode"
  /\ \A driver \in ac.drivers : Len(driver) = 1 /\ driver[1] \in SysNames
  /\ ac.file_hashes \subseteq Sha256
  /\ "" \notin ac.services
  /\ \A entry \in ac.paths : IsPathEntry(entry, FALSE)
  /\ \A entry \in ac.registry : IsRegistryEntry(entry)
  /\ ac.official_uninstall # <<>> => IsUninstall(ac.official_uninstall[1])

IsGame(game) ==
  /\ game.id \in KebabIds
  /\ \A entry \in game.install_hints \cup game.residue : IsPathEntry(entry, FALSE)
  /\ \A entry \in game.saves : IsPathEntry(entry, TRUE)
  /\ \A entry \in game.registry : IsRegistryEntry(entry)

IsLauncher(launcher) ==
  /\ launcher.id \in KebabIds
  /\ launcher.uninstall # <<>> /\ launcher.uninstall[1].kind \in {"protocol", "msi", "exe"}
       => launcher.uninstall[1].command # <<>>
  /\ launcher.detect_registry # <<>> => IsKey(launcher.detect_registry[1])

Validates(catalog) ==
  /\ catalog.schema_version = SupportedSchemaVersion
  /\ catalog.catalog_version # "" /\ catalog.minimum_app_version # ""
  /\ \A ac \in Range(catalog.anticheat) : IsAnticheat(ac)
  /\ \A game \in Range(catalog.game) : IsGame(game)
  /\ \A launcher \in Range(catalog.launcher) : IsLauncher(launcher)

------------------------------------------------------------------------------
(* check_refs: no id twice, and every id that is referred to is there.      *)

IdsOf(list) == [i \in DOMAIN list |-> list[i].id]

ChecksRefs(catalog) ==
  LET ids == IdsOf(catalog.anticheat) \o IdsOf(catalog.game) \o IdsOf(catalog.launcher)
  IN  /\ IsInjective(ids)
      /\ \A game \in Range(catalog.game) :
           /\ game.anticheat \subseteq Range(IdsOf(catalog.anticheat))
           /\ game.platforms \subseteq Range(IdsOf(catalog.launcher))

------------------------------------------------------------------------------
(* check_denylist *)

(* Slip: the carve-outs of every entry are everybody's.                     *)
ExceptionsFor_AnyEntry(catalog, ac) ==
  NewExceptions(UNION {other.drivers : other \in Range(catalog.anticheat)},
                UNION {other.services : other \in Range(catalog.anticheat)})

(* exceptions_for: of one entry, for its own footprint.                     *)
ExceptionsFor(catalog, ac) == NewExceptions(ac.drivers, ac.services)

AllowsPaths(entries, exceptions) ==
  \A entry \in entries :
    /\ Expands(entry.path)
    /\ \A path \in ExpandForValidation(entry.path) :
         /\ Canonicalises(path)
         /\ EvaluatePath(CanonicalPath(path), exceptions, CatalogLoad) = "Ok"

AllowsKeys(entries, exceptions) ==
  \A entry \in entries :
    IsKey(entry.key) /\ EvaluateRegistryKey(entry.key[1], Tail(entry.key), exceptions) = "Ok"

IsInboxDriver(driver) == Len(driver) = 1 /\ driver[1] \in InboxDrivers

(* A game earns no carve-out.                                               *)
ChecksDenylist(catalog) ==
  /\ \A ac \in Range(catalog.anticheat) :
       /\ ~\E driver \in ac.drivers : IsInboxDriver(driver)
       /\ ac.services \cap InboxServices = {}
       /\ AllowsPaths(ac.paths, ExceptionsFor(catalog, ac))
       /\ AllowsKeys(ac.registry, ExceptionsFor(catalog, ac))
  /\ \A game \in Range(catalog.game) :
       /\ AllowsPaths(game.install_hints \cup game.residue \cup game.saves, NoExceptions)
       /\ AllowsKeys(game.registry, NoExceptions)

------------------------------------------------------------------------------
(* audit_shared: two distinct titles and an observation stand behind a      *)
(* claim that nobody else uses an entry.  Blank ones do not count.          *)
AuditsShared(catalog, requireEvidence) ==
  \A ac \in Range(catalog.anticheat) :
    \/ ac.shared
    \/ ac.shared_evidence = <<>> /\ ~requireEvidence
    \/ /\ ac.shared_evidence # <<>>
       /\ LET evidence == ac.shared_evidence[1]
          IN  /\ \E one, two \in evidence.titles_observed \ {""} : one # two
              /\ evidence.observation_ids \ {""} # {}

(* The four checks the tool signs by and the program loads by.              *)
IsSound(catalog) ==
  Validates(catalog) /\ ChecksRefs(catalog) /\ ChecksDenylist(catalog) /\ AuditsShared(catalog, TRUE)
==================================================================================
