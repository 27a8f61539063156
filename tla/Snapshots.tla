------------------------------- MODULE Snapshots -------------------------------
(***************************************************************************)
(* What a snapshot of the machine holds (tools/observe/src/model.rs), what *)
(* it may not hold (policy.rs) and what each collector reads (collect/).   *)
(*                                                                         *)
(* A path or a key is a sequence of names from its drive or hive down, a   *)
(* service name the sequence of its pieces between underscores; lists are  *)
(* sets.  Fold(n) is a name without its case.  An optional value is <<>>   *)
(* or <<x>>.                                                               *)
(***************************************************************************)
EXTENDS Integers, FiniteSets, SequencesExt

CONSTANTS
  Fold(_),          \* a name, its case set aside
  HexSuffixes,      \* pieces of at least four characters, all of them hex digits
  HashedFiles,      \* file names with one of HASHED_EXTENSIONS
  PropertyLists,    \* data that begins with prop:
  RegistryRoots,    \* ROOTS
  DefaultRoots,     \* default_roots
  MaxHashBytes,     \* MAX_HASH_BYTES
  BootTolerance     \* SAME_BOOT_TOLERANCE_MS

None == <<>>
Some(x) == <<x>>

Folded(path) == [i \in DOMAIN path |-> Fold(path[i])]
Parent(path) == SubSeq(path, 1, Len(path) - 1)
FileName(path) == path[Len(path)]

(* path is root or lies below it, case aside.                              *)
IsWithin(path, root) == IsPrefix(Folded(root), Folded(path))

------------------------------------------------------------------------------
(* Domains and coverage *)

Domain == {"services", "registry", "filesystem", "scheduled_tasks", "firewall",
           "event_sources", "environment"}

(* Something refused: a service, a path, a key in one view, or one value of *)
(* a key.  What an item does not have is empty.                             *)
Denied(domain, item, value, view) ==
  [domain |-> domain, item |-> item, value |-> value, view |-> view]
DeniedPath(path) == Denied("filesystem", path, None, "")
DeniedKey(key, view) == Denied("registry", key, None, view)

Covers(coverage, domain) == domain \in coverage.captured

(* intersect; not_captured is every other domain, here and in a snapshot.   *)
CoverageOfBoth(c, d) ==
  [captured      |-> c.captured \cap d.captured,
   access_denied |-> c.access_denied \cup d.access_denied]

------------------------------------------------------------------------------
(* What a build refuses.  A policy is the fragments no walk descends into   *)
(* and the words no value may carry.                                        *)

(* fragment, whole names in a row, occurs in path from its first name on.   *)
HasFragment(path, fragment, first) ==
  \E i \in first..(Len(path) - Len(fragment) + 1) :
    SubSeq(path, i, i + Len(fragment) - 1) = fragment

(* The separator a fragment begins with stands in front of a hive's name,   *)
(* not of a drive's.                                                        *)
IsExcludedKey(policy, key) ==
  \E fragment \in policy.keys : HasFragment(Folded(key), fragment, 1)
IsExcludedPath(policy, path) ==
  \E fragment \in policy.directories : HasFragment(Folded(path), fragment, 2)

IsHardwareIdentity(policy, name, data) ==
  \/ Fold(name) \in policy.hardware
  \/ data \notin PropertyLists /\ Fold(data) \in policy.hardware

IsPersonalIdentityValue(policy, name) == Fold(name) \in policy.personal

Refusal(policy, name, data) ==
  IF IsHardwareIdentity(policy, name, data) THEN "HardwareIdentity"
  ELSE IF IsPersonalIdentityValue(policy, name) THEN "PersonalIdentity"
  ELSE "none"

Allowed(policy, value) == Refusal(policy, value.name, value.data) = "none"

(* Slip: refused values stay when the key itself may be read.               *)
Admit_KeysOnly(policy, record) ==
  [record  |-> IF IsExcludedKey(policy, record.key) THEN None ELSE Some(record),
   refused |-> {}]

(* A record as the policy would have captured it, and the values that went. *)
Admit(policy, record) ==
  LET allowed == {v \in record.values : Allowed(policy, v)}
      refused == record.values \ allowed
      dropped == [record |-> None, refused |-> {}]
  IN  IF IsExcludedKey(policy, record.key) THEN dropped
      ELSE IF refused = {} THEN [record |-> Some(record), refused |-> {}]
      ELSE IF allowed = {} THEN dropped
      ELSE [record |-> Some([record EXCEPT !.values = allowed]), refused |-> refused]

(* drop_excluded_denials: an item's name can itself be the identity.        *)
ExcludesDenied(policy, denied) ==
  CASE denied.domain = "registry"   -> IsExcludedKey(policy, denied.item)
    [] denied.domain = "filesystem" -> IsExcludedPath(policy, denied.item)
    [] OTHER                        -> FALSE

------------------------------------------------------------------------------
(* Services, as the service control manager tells them: first every name    *)
(* with its display name, then the configuration of each.                   *)

DriverTypes == {"kernel_driver", "file_system_driver", "recognizer_driver"}

IsDriver(record) == record.service_type \in DriverTypes
IsBootStart(record) == record.start_type = "boot"

(* enumerate                                                                *)
EnumerateServices(services) ==
  {[name |-> s.record.name, display_name |-> s.record.display_name] : s \in services}

(* configuration: the record, under the display name the enumeration gave.  *)
Configuration(entry, services) ==
  {IF entry.display_name = <<>> THEN s.record
   ELSE [s.record EXCEPT !.display_name = entry.display_name] :
     s \in {t \in services : t.readable /\ t.record.name = entry.name}}

(* Slip: a service whose configuration cannot be read is passed over.       *)
ReadServices_Silent(entries, services) ==
  [services      |-> {s.record : s \in {t \in services : t.readable}},
   access_denied |-> {}]

(* services: the configuration is read once the names are known, and a      *)
(* service that is gone or closed by then is named as unread.               *)
ReadServices(entries, services) ==
  [services      |-> UNION {Configuration(e, services) : e \in entries},
   access_denied |-> {Denied("services", e.name, None, "") :
                       e \in {x \in entries : Configuration(x, services) = {}}}]

------------------------------------------------------------------------------
(* Trees: what holds nothing at all, reported once, at its top.             *)

HoldsBelow(holding, path) == \E h \in holding : IsPrefix(path, h)

(* Slip: a directory that could not be looked into does not count as        *)
(* holding something for those above it.                                    *)
TopmostEmpty_SelfOnly(read, holding) ==
  {p \in read \ holding : Parent(p) \notin read \/ Parent(p) \in holding}

(* file_empty_roots and topmost_empty                                       *)
TopmostEmpty(read, holding) ==
  {p \in read : /\ ~HoldsBelow(holding, p)
                /\ Parent(p) \notin read \/ HoldsBelow(holding, Parent(p))}

------------------------------------------------------------------------------
(* The filesystem.  A node is [path, kind, fault, size, modified, sha256,   *)
(* signer]; its fault is what an attempt to read it runs into:              *)
(*   "unlisted" its parent cannot list it, "metadata" it cannot be examined,*)
(*   "closed" a directory cannot be listed or a file cannot be opened.      *)

NodesAt(nodes, path) == {n \in nodes : n.path = path}
HasDirectory(nodes, path) == \E n \in NodesAt(nodes, path) : n.kind = "directory"

(* walk_roots: the default roots and the game libraries outside all of them.*)
WalkRoots(defaults, libraries) ==
  defaults \cup {games \in libraries : ~\E root \in defaults : IsWithin(games, root)}

(* libraries_to_walk: a library a manifest names and the machine does not   *)
(* have is a gap, not nothing.                                              *)
LibrariesToWalk(nodes, libraries) ==
  LET present == {games \in libraries : HasDirectory(nodes, games)}
  IN  [present |-> present, gaps |-> {DeniedPath(games) : games \in libraries \ present}]

(* The listing of the directories the walk reaches, before any file is      *)
(* opened: the files to record, what was refused and what is empty.         *)
ListFiles(policy, nodes, roots) ==
  LET Lists(n) == n.kind = "directory" /\ n.fault = "none"
      IsRoot(n) == n.path \in roots
      Enters(n) ==
        \/ IsRoot(n)
        \/ n.fault \notin {"unlisted", "metadata"} /\ ~IsExcludedPath(policy, n.path)
      Between(root, n) ==
        {m \in nodes : IsPrefix(root, m.path) /\ IsStrictPrefix(m.path, n.path)}
      reached == {n \in nodes : \E root \in roots :
                    /\ IsPrefix(root, n.path)
                    /\ \A m \in Between(root, n) : Enters(m) /\ Lists(m)}
      seen    == {n \in reached : n.fault # "unlisted" \/ IsRoot(n)}
      entered == {n \in seen : Enters(n)}
      listed  == {n \in entered : Lists(n)}
      closed  == {n \in entered : n.kind = "directory"} \ listed
      refused == {n \in seen \ entered : ~IsExcludedPath(policy, n.path)}
      links   == {n \in entered : n.kind = "link"}
      files   == {n \in entered : n.kind = "file"}
      holding == {Parent(n.path) : n \in files \cup links \cup (seen \ entered)}
                 \cup {n.path : n \in closed}
  IN  [files         |-> {[path |-> n.path, size |-> n.size, modified_utc |-> n.modified] :
                           n \in files},
       access_denied |-> {DeniedPath(n.path) : n \in closed \cup refused \cup links},
       empty         |-> TopmostEmpty({n.path : n \in listed}, holding)]

(* record: the content and the signer are read later than the size.         *)
RecordFile(nodes, file) ==
  LET there  == {n \in NodesAt(nodes, file.path) : n.kind = "file" /\ n.fault = "none"}
      wanted == Fold(FileName(file.path)) \in HashedFiles
      hashed == wanted /\ file.size <= MaxHashBytes /\ there # {}
      node   == CHOOSE n \in there : TRUE
  IN  [path         |-> file.path,
       size         |-> file.size,
       modified_utc |-> file.modified_utc,
       sha256       |-> IF hashed THEN Some(node.sha256) ELSE None,
       signer       |-> IF hashed THEN node.signer ELSE None,
       not_hashed   |-> wanted /\ ~hashed]

------------------------------------------------------------------------------
(* The registry.  A key is [key, views, opens, lists, values]: the views it *)
(* is seen in, whether it can be opened, whether its subkeys can be listed, *)
(* and its values in the order they are enumerated.  A value is [name, kind,*)
(* data, size, reads]; reads is what the enumeration gets of it.            *)

View == {"32", "64"}

(* is_wow64_alias                                                           *)
IsWow64Alias(key, view) ==
  view = "64" /\ Folded(key) = Folded(<<"HKLM", "SOFTWARE", "WOW6432NODE">>)

(* read_values: up to the first value that ends the enumeration; one too    *)
(* large is kept by name, kind and size, unless asking again fails.         *)
ReadValues(policy, values) ==
  LET stops == \E i \in DOMAIN values : values[i].reads = "stops"
      until == IF stops THEN CHOOSE i \in DOMAIN values :
                               /\ values[i].reads = "stops"
                               /\ \A j \in 1..(i - 1) : values[j].reads # "stops"
               ELSE Len(values) + 1
      got   == {values[i] : i \in 1..(until - 1)}
      kept  == {[name |-> v.name, kind |-> v.kind,
                 data |-> IF v.reads = "whole" THEN v.data ELSE "",
                 oversized |-> IF v.reads = "whole" THEN None ELSE Some(v.size)] :
                 v \in {w \in got : w.reads \in {"whole", "oversized"}}}
      values_kept == {v \in kept : Allowed(policy, v)}
  IN  [values |-> values_kept, refused |-> {v.name : v \in kept \ values_kept}, stopped |-> stops]

(* walk: one root in one view.                                              *)
WalkRegistry(policy, keys, root, view) ==
  LET visible == {k \in keys : view \in k.views}
      Enters(k) == ~IsExcludedKey(policy, k.key) /\ ~IsWow64Alias(k.key, view)
      Between(k) ==
        {m \in visible : IsPrefix(root, m.key) /\ IsStrictPrefix(m.key, k.key)}
      reached == {k \in visible : /\ IsPrefix(root, k.key)
                                  /\ \A m \in Between(k) : Enters(m) /\ m.opens /\ m.lists}
      entered == {k \in reached : Enters(k)}
      read    == {k \in entered : k.opens}
      got     == [k \in read |-> ReadValues(policy, k.values)]
      missing == IF root \in {k.key : k \in visible} THEN {} ELSE {root}
      closed  == {k.key : k \in entered \ read} \cup missing
      partial == {k \in read : got[k].stopped \/ ~k.lists}
      full    == {k \in read : got[k].values # {} \/ got[k].refused # {}}
      holding == {k.key : k \in partial \cup full}
                 \cup {Parent(key) : key \in closed \cup {k.key : k \in reached \ entered}}
  IN  IF IsExcludedKey(policy, root) THEN [records |-> {}, access_denied |-> {}, empty |-> {}]
      ELSE
      [records |-> {[key |-> k.key, view |-> view, values |-> got[k].values] :
                     k \in {j \in read : got[j].values # {}}},
       access_denied |->
         {DeniedKey(key, view) : key \in closed \cup {k.key : k \in partial}}
         \cup UNION {{Denied("registry", k.key, Some(name), view) : name \in got[k].refused} :
                     k \in read},
       empty |-> {[key |-> key, view |-> view] :
                   key \in TopmostEmpty({k.key : k \in read}, holding)}]

(* registry: every root in both views.                                      *)
CaptureRegistry(policy, keys) ==
  LET walks == {WalkRegistry(policy, keys, root, view) : root \in RegistryRoots, view \in View}
  IN  [records       |-> UNION {w.records : w \in walks},
       access_denied |-> UNION {w.access_denied : w \in walks},
       empty         |-> UNION {w.empty : w \in walks}]

------------------------------------------------------------------------------
(* from_uptime: the boot instant is the wall clock less the uptime, never   *)
(* below zero.                                                              *)
BootInstant(now, uptime) == IF uptime <= now THEN now - uptime ELSE 0
================================================================================
