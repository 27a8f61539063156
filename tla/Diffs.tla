--------------------------------- MODULE Diffs ---------------------------------
(***************************************************************************)
(* Comparing two snapshots (tools/observe/src/diff.rs) and what several    *)
(* diffs have in common (intersect.rs).                                    *)
(*                                                                         *)
(* A change is what an item is indexed by, its record before and its record*)
(* after.  What else the code stores with a change, its kind, the fields   *)
(* that differ, the flags and the signer of the later record, follows from *)
(* the two records and is an operator here.                                *)
(***************************************************************************)
EXTENDS Snapshots, FiniteSetsExt

CONSTANTS
  VolatileServices \* the names NoiseFilter::standard ignores

ChangeKind == {"added", "removed", "modified"}

KindOf(change) ==
  IF change.before = None THEN "added" ELSE IF change.after = None THEN "removed" ELSE "modified"

(* The record that describes the item now, or did last.                     *)
Later(change) == IF change.after # None THEN change.after[1] ELSE change.before[1]

Added(changes) == {c \in changes : KindOf(c) = "added"}

(* One side's records by what they are indexed by; of records with the same *)
(* index one is kept.  indexOf says what each is indexed by.                *)
IndexBy(indexOf) ==
  [key \in Range(indexOf) |-> CHOOSE r \in DOMAIN indexOf : indexOf[r] = key]

(* What only one side has, and every item both have as if it had changed.   *)
ChangesBetween(was, now) ==
  {[identity |-> i, before |-> Some(was[i]), after |-> None] : i \in DOMAIN was \ DOMAIN now}
  \cup {[identity |-> i, before |-> None, after |-> Some(now[i])] : i \in DOMAIN now \ DOMAIN was}
  \cup {[identity |-> i, before |-> Some(was[i]), after |-> Some(now[i])] :
          i \in DOMAIN was \cap DOMAIN now}

------------------------------------------------------------------------------
(* Refiltered: what this build's policy removed, counted.                   *)

NoneRefiltered ==
  [registry_records |-> 0, registry_values |-> 0, access_denied |-> 0, emptied_keys |-> 0,
   files |-> 0, emptied_directories |-> 0]

Absorb(r, s) == [count \in DOMAIN r |-> r[count] + s[count]]

------------------------------------------------------------------------------
(* The noise filter                                                         *)

StandardFilter   == [ignored |-> VolatileServices, normalise |-> TRUE]
PermissiveFilter == [ignored |-> {}, normalise |-> FALSE]

(* canonical_name: a per-user instance is known by its template.            *)
CanonicalName(filter, name) ==
  IF /\ filter.normalise
     /\ Len(name) >= 2 /\ Last(name) \in HexSuffixes /\ Front(name) # <<"">>
    THEN Front(name)
    ELSE name

RuleFor(filter, change) == Folded(change.identity) \in filter.ignored

------------------------------------------------------------------------------
(* Services                                                                 *)

WithoutInstanceSuffix(display, name) ==
  IF Len(name) >= 2 /\ Len(display) >= 2 /\ Last(display) = Last(name) THEN Front(display)
  ELSE display

ServiceDiffers(old, new) ==
  LET Display(r) == IF old.name = new.name THEN r.display_name
                    ELSE WithoutInstanceSuffix(r.display_name, r.name)
  IN  \/ Display(old) # Display(new)
      \/ \E field \in DOMAIN old \ {"name", "display_name"} : old[field] # new[field]

(* Names under which either side has more than one service.                 *)
Crowded(filter, before, after) ==
  LET Instances(side, name) == {r \in side : CanonicalName(filter, r.name) = name}
  IN  {name \in {CanonicalName(filter, r.name) : r \in before \cup after} :
         \E side \in {before, after} : Cardinality(Instances(side, name)) > 1}

(* Slip: instances are collapsed however many there are.                    *)
CompareServices_Collapsing(filter, before, after) ==
  LET Index(side) == IndexBy([r \in side |-> CanonicalName(filter, r.name)])
  IN  {c \in ChangesBetween(Index(before), Index(after)) :
         KindOf(c) = "modified" => ServiceDiffers(c.before[1], c.after[1])}

CompareServices(filter, before, after) ==
  LET crowded == Crowded(filter, before, after)
      Key(r) == LET canonical == CanonicalName(filter, r.name)
                IN  IF canonical \in crowded THEN r.name ELSE canonical
      Index(side) == IndexBy([r \in side |-> Key(r)])
  IN  {c \in ChangesBetween(Index(before), Index(after)) :
         KindOf(c) = "modified" => ServiceDiffers(c.before[1], c.after[1])}

------------------------------------------------------------------------------
(* Files                                                                    *)

(* file_field_changes: the timestamp counts only beside something else, so  *)
(* file_rule_for has nothing left to set aside.                             *)
FileFields(old, new) ==
  LET differing == {f \in {"size", "sha256", "signer"} : old[f] # new[f]}
  IN  IF differing # {} /\ old.modified_utc # new.modified_utc
        THEN differing \cup {"modified_utc"} ELSE differing

FileRuleFor(filter, change) ==
  /\ filter.normalise
  /\ KindOf(change) = "modified"
  /\ FileFields(change.before[1], change.after[1]) = {"modified_utc"}

CompareFiles(policy, before, after) ==
  LET Index(side) == IndexBy([r \in {f \in side : ~IsExcludedPath(policy, f.path)} |->
                               Folded(r.path)])
  IN  {c \in ChangesBetween(Index(before), Index(after)) :
         KindOf(c) = "modified" => FileFields(c.before[1], c.after[1]) # {}}

(* How many changes, kept ones only, carry each signer.                     *)
SignerCounts(files) ==
  LET signed == {c \in files : Later(c).signer # None}
  IN  [s \in {Later(c).signer[1] : c \in signed} |->
        Cardinality({c \in signed : Later(c).signer[1] = s})]

------------------------------------------------------------------------------
(* The registry                                                             *)

RegistryIdentity(record) == [key |-> Folded(record.key), view |-> record.view]

(* What a diff compares of a value, where the key has it.                   *)
Comparable(record, name) ==
  {[kind |-> v.kind, data |-> v.data, oversized |-> v.oversized] :
    v \in {w \in record.values : w.name = name}}

ValueDifferences(old, new) ==
  {name \in {v.name : v \in old.values \cup new.values} :
     Comparable(old, name) # Comparable(new, name)}

(* modification: the values that differ and nothing else, if any does.      *)
RegistryModification(change) ==
  LET differing == ValueDifferences(change.before[1], change.after[1])
      Only(side) == Some([side[1] EXCEPT !.values = {v \in @ : v.name \in differing}])
  IN  IF differing = {} THEN {}
      ELSE {[change EXCEPT !.before = Only(@), !.after = Only(@)]}

(* admitted_index, with what it counts.                                     *)
AdmittedRecords(policy, records) ==
  {Admit(policy, r).record[1] : r \in {s \in records : Admit(policy, s).record # None}}
AdmittedCounts(policy, records) ==
  [NoneRefiltered EXCEPT
     !.registry_records = Cardinality({r \in records : Admit(policy, r).record = None}),
     !.registry_values  = Cardinality(UNION {{r} \X Admit(policy, r).refused : r \in records})]

(* Format 1 had both records of a modification whole.                       *)
CompareRegistry(policy, format, before, after) ==
  LET Index(side) == IndexBy([r \in AdmittedRecords(policy, side) |-> RegistryIdentity(r)])
      changes  == ChangesBetween(Index(before), Index(after))
      common   == {c \in changes : KindOf(c) = "modified"}
      modified == UNION {IF format = 1 /\ RegistryModification(c) # {} THEN {c}
                         ELSE RegistryModification(c) : c \in common}
  IN  (changes \ common) \cup modified

------------------------------------------------------------------------------
(* What became empty, topmost only: listed after and not before, and unknown*)
(* unless both snapshots recorded it.                                       *)

EmptiedDirectories(policy, coverage, before, after) ==
  LET known == /\ Covers(coverage, "filesystem")
               /\ before.file_empty_directories # None /\ after.file_empty_directories # None
      fresh == after.file_empty_directories[1] \ before.file_empty_directories[1]
      kept  == {d \in fresh : ~IsExcludedPath(policy, d)}
  IN  IF known THEN [list |-> Some(kept), dropped |-> Cardinality(fresh \ kept)]
      ELSE [list |-> None, dropped |-> 0]

EmptiedKeys(policy, coverage, before, after) ==
  LET known == /\ Covers(coverage, "registry")
               /\ before.registry_empty_keys # None /\ after.registry_empty_keys # None
      fresh == after.registry_empty_keys[1] \ before.registry_empty_keys[1]
      kept  == {k \in fresh : ~IsExcludedKey(policy, k.key)}
  IN  IF known THEN [list |-> Some(kept), dropped |-> Cardinality(fresh \ kept)]
      ELSE [list |-> None, dropped |-> 0]

(* Unknown when either snapshot does not say when the machine started.      *)
RebootedBetween(before, after) ==
  IF before.boot_session = None \/ after.boot_session = None THEN None
  ELSE LET apart == before.boot_session[1] - after.boot_session[1]
       IN  Some(apart > BootTolerance \/ -apart > BootTolerance)

WithoutExcludedDenials(policy, coverage) ==
  [coverage EXCEPT !.access_denied = {d \in @ : ~ExcludesDenied(policy, d)}]

ExcludedDenials(policy, coverage) ==
  Cardinality({d \in coverage.access_denied : ExcludesDenied(policy, d)})

Libraries(snapshot) ==
  IF snapshot.filesystem_policy = None THEN {} ELSE snapshot.filesystem_policy[1].libraries

------------------------------------------------------------------------------
(* compare                                                                  *)

SnapshotFormats == 1..2
SnapshotFormat == 2
DiffFormat == 2

ComparisonFails(before, after) ==
  IF ~{before.format_version, after.format_version} \subseteq SnapshotFormats
    THEN "UnsupportedFormat"
  ELSE IF before.format_version # after.format_version THEN "MixedFormats"
  ELSE "no"

(* build is the one that compares: what it refuses to carry, and the format *)
(* it writes.                                                               *)
Compare(build, filter, before, after) ==
  LET policy   == build.policy
      both     == CoverageOfBoth(before.coverage, after.coverage)
      In(domain, changes) == IF Covers(both, domain) THEN changes ELSE {}
      services == In("services", CompareServices(filter, before.services, after.services))
      files    == In("filesystem", CompareFiles(policy, before.files, after.files))
      registry == In("registry", CompareRegistry(policy, build.diff_format,
                                                 before.registry, after.registry))
      records  == IF Covers(both, "registry")
                    THEN Absorb(AdmittedCounts(policy, before.registry),
                                AdmittedCounts(policy, after.registry))
                    ELSE NoneRefiltered
      excluded == IF Covers(both, "filesystem")
                    THEN Cardinality({f \in before.files : IsExcludedPath(policy, f.path)})
                         + Cardinality({f \in after.files : IsExcludedPath(policy, f.path)})
                    ELSE 0
      directories == EmptiedDirectories(policy, both, before, after)
      formerly_directories == EmptiedDirectories(policy, both, after, before)
      keys     == EmptiedKeys(policy, both, before, after)
      formerly_keys == EmptiedKeys(policy, both, after, before)
  IN  [format_version             |-> build.diff_format,
       snapshot_format_version    |-> before.format_version,
       before_taken_utc           |-> before.taken_utc,
       after_taken_utc            |-> after.taken_utc,
       rebooted_between           |-> RebootedBetween(before, after),
       emptied_directories        |-> directories.list,
       formerly_empty_directories |-> formerly_directories.list,
       emptied_keys               |-> keys.list,
       formerly_empty_keys        |-> formerly_keys.list,
       coverage                   |-> WithoutExcludedDenials(policy, both),
       services                   |-> {c \in services : ~RuleFor(filter, c)},
       suppressed                 |-> {c \in services : RuleFor(filter, c)},
       files                      |-> {c \in files : ~FileRuleFor(filter, c)},
       suppressed_files           |-> {c \in files : FileRuleFor(filter, c)},
       registry                   |-> registry,
       filesystem_policy_changed  |-> before.filesystem_policy # after.filesystem_policy,
       registry_policy_changed    |-> before.registry_policy # after.registry_policy,
       libraries                  |-> Libraries(before) \cap Libraries(after),
       refiltered |-> [records EXCEPT
         !.access_denied       = ExcludedDenials(policy, both),
         !.files               = excluded,
         !.emptied_keys        = keys.dropped + formerly_keys.dropped,
         !.emptied_directories = directories.dropped + formerly_directories.dropped],
       intersection_of            |-> None]

------------------------------------------------------------------------------
(* reversed: what the diff removed, added, and what it calls emptied, empty *)
(* before.  Its doc comment has the emptied lists become None; the code and *)
(* its tests exchange them.                                                 *)

Backwards(changes) ==
  {[identity |-> c.identity, before |-> c.after, after |-> c.before] : c \in changes}

(* Slip: what was emptied stays what was emptied.                           *)
Reversed_EmptiesStay(diff) ==
  [diff EXCEPT !.before_taken_utc = diff.after_taken_utc,
               !.after_taken_utc  = diff.before_taken_utc,
               !.services         = Backwards(@),
               !.suppressed       = Backwards(@),
               !.files            = Backwards(@),
               !.suppressed_files = Backwards(@),
               !.registry         = Backwards(@)]

Reversed(diff) ==
  [diff EXCEPT !.before_taken_utc           = diff.after_taken_utc,
               !.after_taken_utc            = diff.before_taken_utc,
               !.emptied_directories        = diff.formerly_empty_directories,
               !.formerly_empty_directories = diff.emptied_directories,
               !.emptied_keys               = diff.formerly_empty_keys,
               !.formerly_empty_keys        = diff.emptied_keys,
               !.services                   = Backwards(@),
               !.suppressed                 = Backwards(@),
               !.files                      = Backwards(@),
               !.suppressed_files           = Backwards(@),
               !.registry                   = Backwards(@)]

------------------------------------------------------------------------------
(* refilter: this build's policy over a diff that already exists.           *)

(* A record on one side of a change, which may not have one.                *)
AdmitSide(policy, side) == IF side = None THEN None ELSE Admit(policy, side[1]).record

Sides(change) == {s \in {change.before, change.after} : s # None}

Untouched(policy, change) ==
  \A side \in Sides(change) : AdmitSide(policy, side) = side

(* A change as the policy leaves it, if it leaves a change.                 *)
Rebuilt(policy, change) ==
  LET rebuilt == [change EXCEPT !.before = AdmitSide(policy, @), !.after = AdmitSide(policy, @)]
  IN  IF Sides(rebuilt) = {} THEN {}
      ELSE IF KindOf(rebuilt) = "modified" THEN RegistryModification(rebuilt)
      ELSE {rebuilt}

Refilter(policy, diff) ==
  LET upgrading == diff.format_version # DiffFormat
      Drop(list, Excluded(_)) ==
        IF list = None THEN [list |-> None, dropped |-> 0]
        ELSE LET kept == {x \in list[1] : ~Excluded(x)}
             IN  [list |-> Some(kept), dropped |-> Cardinality(list[1] \ kept)]
      ExcludedRef(k) == IsExcludedKey(policy, k.key)
      ExcludedDir(d) == IsExcludedPath(policy, d)
      ExcludedFile(c) == IsExcludedPath(policy, Later(c).path)
      emptied_keys  == Drop(diff.emptied_keys, ExcludedRef)
      formerly_keys == Drop(diff.formerly_empty_keys, ExcludedRef)
      emptied_dirs  == Drop(diff.emptied_directories, ExcludedDir)
      formerly_dirs == Drop(diff.formerly_empty_directories, ExcludedDir)
      dropped_files == {c \in diff.files \cup diff.suppressed_files : ExcludedFile(c)}
      again == {c \in diff.registry : upgrading \/ ~Untouched(policy, c)}
      sides == UNION {{<<c, "before">> : c \in {d \in again : d.before # None}},
                      {<<c, "after">>  : c \in {d \in again : d.after # None}}}
      report ==
        [registry_records    |-> Cardinality({s \in sides :
                                   AdmitSide(policy, s[1][s[2]]) = None}),
         registry_values     |-> Cardinality(UNION {{s} \X Admit(policy, s[1][s[2]][1]).refused :
                                   s \in sides}),
         access_denied       |-> ExcludedDenials(policy, diff.coverage),
         emptied_keys        |-> emptied_keys.dropped + formerly_keys.dropped,
         files               |-> MapThenSumSet(LAMBDA c : Cardinality(Sides(c)), dropped_files),
         emptied_directories |-> emptied_dirs.dropped + formerly_dirs.dropped]
  IN  [diff EXCEPT
         !.format_version             = DiffFormat,
         !.coverage                   = WithoutExcludedDenials(policy, @),
         !.emptied_keys               = emptied_keys.list,
         !.formerly_empty_keys        = formerly_keys.list,
         !.emptied_directories        = emptied_dirs.list,
         !.formerly_empty_directories = formerly_dirs.list,
         !.files                      = {c \in @ : ~ExcludedFile(c)},
         !.suppressed_files           = {c \in @ : ~ExcludedFile(c)},
         !.registry                   = (@ \ again) \cup UNION {Rebuilt(policy, c) : c \in again},
         !.refiltered                 = Absorb(@, report)]

------------------------------------------------------------------------------
(* intersect                                                                *)

IntersectionFails(footprints) ==
  LET given == DOMAIN footprints
  IN  IF Len(footprints) < 2 THEN "TooFew"
      ELSE IF \E i \in given : footprints[i].intersection_of # None THEN "Nested"
      ELSE IF \E i, j \in given :
                /\ i # j
                /\ footprints[i].before_taken_utc = footprints[j].before_taken_utc
                /\ footprints[i].after_taken_utc = footprints[j].after_taken_utc
        THEN "Repeated"
      ELSE IF \E i \in given :
                footprints[i].snapshot_format_version # footprints[1].snapshot_format_version
        THEN "MixedFormats"
      ELSE "no"

(* What a change is matched by: a service's name folded, as a path and a    *)
(* key are already.                                                         *)
MatchedBy(domain, change) ==
  IF domain = "services" THEN Folded(change.identity) ELSE change.identity

(* Slip: a change is shared only where every footprint kept it.             *)
Shared_KeptOnly(domain, sides) ==
  [kept |-> {c \in sides[1].kept : \A n \in DOMAIN sides :
               \E d \in sides[n].kept : MatchedBy(domain, d) = MatchedBy(domain, c)},
   suppressed |-> {}]

(* The changes every footprint holds, kept or set aside: the first          *)
(* footprint that kept one tells it.                                        *)
Shared(domain, sides) ==
  LET Identities(changes) == {MatchedBy(domain, c) : c \in changes}
      everywhere == {i \in Identities(sides[1].kept \cup sides[1].suppressed) :
                       \A n \in DOMAIN sides :
                         i \in Identities(sides[n].kept \cup sides[n].suppressed)}
      Keepers(i) == {n \in DOMAIN sides : i \in Identities(sides[n].kept)}
      kept       == {i \in everywhere : Keepers(i) # {}}
  IN  [kept |-> {CHOOSE c \in sides[Min(Keepers(i))].kept : MatchedBy(domain, c) = i : i \in kept},
       suppressed |-> {c \in sides[1].suppressed : MatchedBy(domain, c) \in everywhere \ kept}]

(* A directory is listed by its path, a key with the view it was seen in.   *)
ListedBy(domain, item) == IF domain = "registry" THEN RegistryIdentity(item) ELSE Folded(item)

SharedList(domain, lists) ==
  IF \E n \in DOMAIN lists : lists[n] = None THEN None
  ELSE Some({x \in lists[1][1] : \A n \in DOMAIN lists :
               \E y \in lists[n][1] : ListedBy(domain, y) = ListedBy(domain, x)})

RebootedInAny(footprints) ==
  LET answers == {footprints[n].rebooted_between : n \in DOMAIN footprints}
  IN  IF Some(TRUE) \in answers THEN Some(TRUE)
      ELSE IF answers = {Some(FALSE)} THEN Some(FALSE)
      ELSE None

(* Each footprint is refiltered first, in the order given; the empty        *)
(* sequence makes TLC keep the list it has made.                            *)
AllRefiltered(policy, given) ==
  <<>> \o [n \in DOMAIN given |-> Refilter(policy, given[n])]

(* CoverageOfBoth over them all.                                            *)
CoverageOfAll(coverages) ==
  [captured      |-> {d \in coverages[1].captured :
                       \A n \in DOMAIN coverages : d \in coverages[n].captured},
   access_denied |-> UNION {coverages[n].access_denied : n \in DOMAIN coverages}]

SharedBy(footprints) ==
  LET Each(field) == [n \in DOMAIN footprints |-> footprints[n][field]]
      Or(field)   == \E n \in DOMAIN footprints : footprints[n][field]
      Both(kept, suppressed) ==
        [n \in DOMAIN footprints |->
          [kept |-> footprints[n][kept],
           suppressed |-> IF suppressed = "" THEN {} ELSE footprints[n][suppressed]]]
      services == Shared("services", Both("services", "suppressed"))
      files    == Shared("filesystem", Both("files", "suppressed_files"))
      registry == Shared("registry", Both("registry", ""))
      Size(f)  == Cardinality(f.services) + Cardinality(f.suppressed) + Cardinality(f.files)
                  + Cardinality(f.suppressed_files) + Cardinality(f.registry)
      Times(field) == {footprints[n][field] : n \in DOMAIN footprints}
  IN  [format_version             |-> DiffFormat,
       snapshot_format_version    |-> footprints[1].snapshot_format_version,
       before_taken_utc           |-> Min(Times("before_taken_utc")),
       after_taken_utc            |-> Max(Times("after_taken_utc")),
       rebooted_between           |-> RebootedInAny(footprints),
       emptied_directories        |-> SharedList("filesystem", Each("emptied_directories")),
       formerly_empty_directories |-> SharedList("filesystem", Each("formerly_empty_directories")),
       emptied_keys               |-> SharedList("registry", Each("emptied_keys")),
       formerly_empty_keys        |-> SharedList("registry", Each("formerly_empty_keys")),
       coverage                   |-> CoverageOfAll(Each("coverage")),
       services                   |-> services.kept,
       suppressed                 |-> services.suppressed,
       files                      |-> files.kept,
       suppressed_files           |-> files.suppressed,
       registry                   |-> registry.kept,
       filesystem_policy_changed  |-> Or("filesystem_policy_changed"),
       registry_policy_changed    |-> Or("registry_policy_changed"),
       libraries                  |-> {l \in footprints[1].libraries :
                                        \A n \in DOMAIN footprints : l \in footprints[n].libraries},
       refiltered                 |-> FoldLeft(Absorb, NoneRefiltered, Each("refiltered")),
       intersection_of            |-> Some([n \in DOMAIN footprints |->
                                        [before_taken_utc |-> footprints[n].before_taken_utc,
                                         after_taken_utc  |-> footprints[n].after_taken_utc,
                                         changes          |-> Size(footprints[n])]])]

Intersect(policy, given) == SharedBy(AllRefiltered(policy, given))
================================================================================
