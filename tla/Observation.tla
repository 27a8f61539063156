------------------------------ MODULE Observation ------------------------------
(***************************************************************************)
(* An observation cycle (tools/observe/src/collect/mod.rs and main.rs):    *)
(* snapshots of a machine that goes on changing while each is taken, and   *)
(* the commands that read them afterwards.                                 *)
(*                                                                         *)
(* A snapshot reads the machine's services twice, its files twice and its  *)
(* registry once, in that order, and what it read may be gone by the next  *)
(* step.  seen keeps what each step found; no action reads it.             *)
(***************************************************************************)
EXTENDS Suggest

CONSTANTS
  Machines,      \* what the machine may be: [services, nodes, keys]
  FirstMachine,  \* the one the cycle begins with
  LibraryFolders,\* game libraries the launchers' manifests name
  Builds,        \* builds of the harness, oldest first: what each captures,
                 \* refuses and writes
  CurrentBuild,  \* the one in the repository
  DiffRuns,      \* the diffs taken of a cycle, in this order: two snapshots, a filter,
                 \* a build
  Suggestions,   \* the drafts asked for: [footprint, residue, signer, only, removed]
  CycleLength,   \* snapshots in a cycle
  MaxDiffs,      \* diffs taken of a cycle
  MaxChanges,    \* changes of the machine in a cycle
  WalkMinutes    \* how long a walk of the filesystem takes

VARIABLES
  machine,   \* services, nodes, keys
  started,   \* when the machine was started
  now,       \* the wall clock
  changes,   \* changes of the machine so far
  phase,     \* the step of the running snapshot, or "idle"
  capture,   \* the snapshot being taken
  snapshots, \* the snapshots written
  seen,      \* for each of them, what its steps found the machine to be
  diffs,     \* the diffs written: [run, by, diff], by the build that wrote it last
  common,    \* what intersect made of them, if it ran
  draft      \* the draft suggested last, and of what, if any

(* The fields of a service's record that anything here tells apart.         *)
ServiceFields ==
  {"name", "display_name", "service_type", "start_type", "binary_path", "description"}

(* A machine holds finitely many services, nodes and keys, and a diff is of *)
(* two snapshots of the cycle, in a format a build writes.                  *)
ASSUME ObservationAssumption ==
  /\ {CycleLength, MaxDiffs, MaxChanges, WalkMinutes, BootTolerance} \subseteq Nat
  /\ FirstMachine \in Machines /\ IsFiniteSet(RegistryRoots)
  /\ \A m \in Machines :
       /\ IsFiniteSet(m.services) /\ IsFiniteSet(m.nodes) /\ IsFiniteSet(m.keys)
       /\ \A s \in m.services : DOMAIN s.record = ServiceFields
       /\ \A k \in m.keys : k.values \in Seq(Range(k.values))
  /\ \A r \in DOMAIN DiffRuns :
       /\ {DiffRuns[r].before, DiffRuns[r].after} \subseteq 1..CycleLength
       /\ DiffRuns[r].build.diff_format \in {1, DiffFormat}

(* Names in a row, in which setting the case aside twice changes nothing.   *)
IsPath(path) == path \in Seq(Range(path)) /\ Folded(Folded(path)) = Folded(path)

(* What is below a root is spelled from the root on as the walk opened it.  *)
SpelledFrom(roots, path) == \A root \in roots : IsWithin(path, root) => IsPrefix(root, path)

(* Files and keys form trees: one node at a path and nothing below a file,  *)
(* and above a key, up to the root it is read from, the keys that hold it.  *)
IsFileTree(nodes) ==
  \A n \in nodes :
    /\ IsPath(n.path) /\ SpelledFrom(DefaultRoots \cup LibraryFolders, n.path)
    /\ n.kind \in {"directory", "file", "link"}
    /\ \A o \in nodes : n.path = o.path => n = o
    /\ \A o \in nodes : IsStrictPrefix(n.path, o.path) => n.kind # "file"

IsKeyTree(keys) ==
  \A k \in keys :
    /\ IsPath(k.key) /\ SpelledFrom(RegistryRoots, k.key) /\ k.views \subseteq View
    /\ \A i \in DOMAIN k.values : k.values[i].reads \in {"whole", "oversized", "stops", "vanished"}
    /\ \A root \in RegistryRoots, view \in k.views, i \in DOMAIN k.key :
         IsPrefix(root, SubSeq(k.key, 1, i)) =>
           \E j \in keys : j.key = SubSeq(k.key, 1, i) /\ view \in j.views

ASSUME MachineAssumption ==
  /\ \A root \in DefaultRoots \cup LibraryFolders \cup RegistryRoots : IsPath(root) /\ root # <<>>
  /\ \A m \in Machines : IsFileTree(m.nodes) /\ IsKeyTree(m.keys)

(* A policy's fragments are names in a row.                                 *)
ASSUME PolicyAssumption ==
  \A build \in Range(Builds) \cup {CurrentBuild} \cup {DiffRuns[r].build : r \in DOMAIN DiffRuns} :
    \A fragment \in build.policy.keys \cup build.policy.directories :
      fragment \in Seq(Range(fragment))

machineVars == <<machine, started, now, changes>>
written == <<snapshots, seen, diffs, common, draft>>
vars == <<machineVars, phase, capture, written>>

Policy == CurrentBuild.policy

Init ==
  /\ machine = FirstMachine /\ started = 0
  /\ now = 1 /\ changes = 0
  /\ phase = "idle" /\ capture = <<>>
  /\ snapshots = <<>> /\ seen = <<>>
  /\ diffs = <<>> /\ common = None /\ draft = None

------------------------------------------------------------------------------
(* The machine                                                              *)

MachineMayChange == changes < MaxChanges /\ Len(snapshots) < CycleLength

MachineChanges ==
  /\ MachineMayChange
  /\ machine' \in Machines \ {machine}
  /\ changes' = changes + 1
  /\ UNCHANGED <<started, now, phase, capture, written>>

(* A snapshot does not outlive the machine it runs on.                      *)
Restart ==
  /\ MachineMayChange
  /\ now' = now + 1 /\ started' = now'
  /\ changes' = changes + 1
  /\ phase' = "idle" /\ capture' = <<>>
  /\ UNCHANGED <<machine, written>>

------------------------------------------------------------------------------
(* snapshot                                                                 *)

Captures(domain) == domain \in capture.build.domains

(* What the capture holds after a step, with the machine as the step saw it.*)
Step(found) ==
  [part \in DOMAIN found \cup DOMAIN capture |->
     IF part \in DOMAIN found THEN found[part] ELSE capture[part]]

(* The boot session is read first, then the service names, if this build    *)
(* captures them.  The harness is not downgraded within a cycle.            *)
BeginSnapshot(b) ==
  LET build == Builds[b] IN
  /\ phase = "idle" /\ Len(snapshots) < CycleLength
  /\ \A n \in DOMAIN seen : \E older \in 1..b : seen[n].build = Builds[older]
  /\ phase' = "services"
  /\ capture' = [build |-> build, taken |-> now,
                 boot |-> IF build.keeps_boot
                            THEN Some(BootInstant(now, now - started)) ELSE None,
                 entries |-> EnumerateServices(machine.services),
                 enumerated |-> machine.services]
  /\ UNCHANGED <<machineVars, written>>

(* Slip: a snapshot that fails leaves what it read for the next one.        *)
ServicesFail_Keeps ==
  /\ phase = "services" /\ Captures("services")
  /\ phase' = "idle"
  /\ UNCHANGED <<machineVars, capture, written>>

(* services: an error here ends the snapshot, and nothing is written.       *)
ServicesFail ==
  /\ phase = "services" /\ Captures("services")
  /\ phase' = "idle" /\ capture' = <<>>
  /\ UNCHANGED <<machineVars, written>>

TakeServices ==
  /\ phase = "services"
  /\ phase' = "filesystem"
  /\ capture' = Step([services |-> ReadServices(capture.entries, machine.services),
                      configured |-> machine.services])
  /\ UNCHANGED <<machineVars, written>>

WalkFilesystem ==
  LET found == LibrariesToWalk(machine.nodes, LibraryFolders)
      roots == WalkRoots({r \in DefaultRoots : HasDirectory(machine.nodes, r)}, found.present)
      files == ListFiles(capture.build.policy, machine.nodes, roots)
  IN  /\ phase = "filesystem"
      /\ phase' = "contents"
      /\ now' = now + WalkMinutes
      /\ capture' = Step([files |-> files, gaps |-> found.gaps, roots |-> roots,
                          libraries |-> found.present, listed |-> machine.nodes])
      /\ UNCHANGED <<machine, started, changes, written>>

ReadContents ==
  /\ phase = "contents"
  /\ phase' = "registry"
  /\ capture' = Step([opened |-> machine.nodes,
                      records |-> {RecordFile(machine.nodes, f) : f \in capture.files.files}])
  /\ UNCHANGED <<machineVars, written>>

(* What is written: every domain of the build, and nothing in its place     *)
(* where the build does not capture it.                                     *)
Written(registry) ==
  LET build == capture.build
      If(domain, part) == IF Captures(domain) THEN part ELSE {}
      Maybe(condition, part) == IF condition THEN Some(part) ELSE None
  IN  [format_version |-> build.snapshot_format,
       taken_utc      |-> capture.taken,
       boot_session   |-> capture.boot,
       coverage       |->
         [captured      |-> build.domains,
          access_denied |-> If("services", capture.services.access_denied)
                            \cup If("filesystem", capture.gaps \cup capture.files.access_denied)
                            \cup If("registry", registry.access_denied)],
       services       |-> If("services", capture.services.services),
       files          |-> If("filesystem", capture.records),
       registry       |-> If("registry", registry.records),
       filesystem_policy      |-> Maybe(Captures("filesystem"),
         [roots |-> capture.roots, excluded |-> build.policy.directories,
          libraries |-> capture.libraries]),
       file_empty_directories |-> Maybe(Captures("filesystem") /\ build.lists_empty,
         capture.files.empty),
       registry_policy        |-> Maybe(Captures("registry"), build.policy.keys),
       registry_empty_keys    |-> Maybe(Captures("registry") /\ build.lists_empty,
         registry.empty)]

FinishSnapshot ==
  /\ phase = "registry"
  /\ phase' = "idle"
  /\ snapshots' = Append(snapshots, Written(CaptureRegistry(capture.build.policy, machine.keys)))
  /\ seen' = Append(seen, [enumerated |-> capture.enumerated, configured |-> capture.configured,
                           listed |-> capture.listed, opened |-> capture.opened,
                           keys |-> machine.keys, started |-> started,
                           build |-> capture.build])
  /\ capture' = <<>>
  /\ now' = now + 1
  /\ UNCHANGED <<machine, started, changes, diffs, common, draft>>

------------------------------------------------------------------------------
(* The commands.  They only read what is written, so they run when the      *)
(* cycle's snapshots are there.                                             *)

CycleIsOver == phase = "idle" /\ Len(snapshots) = CycleLength

DiffOf(run) == Compare(run.build, run.filter, snapshots[run.before], snapshots[run.after])

(* run_diff: an error writes nothing.                                       *)
RunDiff(r) ==
  LET run == DiffRuns[r] IN
  /\ CycleIsOver /\ common = None /\ draft = None /\ Len(diffs) < MaxDiffs
  /\ \A n \in DOMAIN diffs : diffs[n].run \notin {DiffRuns[q] : q \in r..Len(DiffRuns)}
  /\ ComparisonFails(snapshots[run.before], snapshots[run.after]) = "no"
  /\ diffs' = Append(diffs, [run |-> run, by |-> run.build, diff |-> DiffOf(run)])
  /\ UNCHANGED <<machineVars, phase, capture, snapshots, seen, common, draft>>

(* run_refilter: the diff is written over.                                  *)
RunRefilter(n) ==
  /\ common = None /\ draft = None
  /\ diffs[n].by # CurrentBuild
  /\ diffs' = [diffs EXCEPT ![n].by = CurrentBuild, ![n].diff = Refilter(Policy, @)]
  /\ UNCHANGED <<machineVars, phase, capture, snapshots, seen, common, draft>>

Given == [n \in DOMAIN diffs |-> diffs[n].diff]

RunIntersect ==
  /\ common = None /\ draft = None
  /\ IntersectionFails(Given) = "no"
  /\ common' = Some(Intersect(Policy, Given))
  /\ UNCHANGED <<machineVars, phase, capture, snapshots, seen, diffs, draft>>

(* run_suggest: of one diff, or of the intersection; the diffs are taken as *)
(* they are.                                                                *)
RunSuggest(asked) ==
  /\ draft = None
  /\ IF asked.footprint = 0 THEN common # None ELSE asked.footprint \in DOMAIN diffs /\ common = None
  /\ ToSet(asked.residue) \subseteq DOMAIN diffs
  /\ LET footprint == IF asked.footprint = 0 THEN common[1] ELSE diffs[asked.footprint].diff
         residue   == IF asked.residue = None THEN None ELSE Some(diffs[asked.residue[1]].diff)
     IN  draft' = Some([of |-> asked, draft |->
                    Draft(IF asked.removed THEN Reversed(footprint) ELSE footprint,
                          residue, asked.signer, asked.only)])
  /\ UNCHANGED <<machineVars, phase, capture, snapshots, seen, diffs, common>>

Next ==
  \/ MachineChanges \/ Restart
  \/ \E b \in DOMAIN Builds : BeginSnapshot(b)
  \/ ServicesFail \/ TakeServices \/ WalkFilesystem \/ ReadContents \/ FinishSnapshot
  \/ \E r \in DOMAIN DiffRuns : RunDiff(r)
  \/ \E n \in DOMAIN diffs : RunRefilter(n)
  \/ RunIntersect
  \/ \E asked \in Suggestions : RunSuggest(asked)

Spec == Init /\ [][Next]_vars

------------------------------------------------------------------------------
(* What the snapshots found, against which what the diffs say is held.      *)

(* The diffs, judged before anything is made of them: intersect and suggest *)
(* leave them as they are.                                                  *)
Judged == IF common = None /\ draft = None THEN DOMAIN diffs ELSE {}

NamesOf(services) == {s.record.name : s \in services}
HasFile(nodes, path) == \E n \in nodes : n.kind = "file" /\ Folded(n.path) = path

(* A directory with nothing below it but directories that can be read.      *)
StandsEmpty(nodes, path) ==
  /\ HasDirectory(nodes, path)
  /\ \A n \in nodes : IsPrefix(path, n.path) => n.kind = "directory" /\ n.fault = "none"

(* The values of a key in a view, up to where their enumeration stops.      *)
ValuesOf(keys, key, view) ==
  UNION {{k.values[i] : i \in {j \in DOMAIN k.values :
            k.values[j].reads # "vanished" /\ \A l \in 1..j : k.values[l].reads # "stops"}} :
         k \in {k \in keys : Folded(k.key) = key /\ view \in k.views}}

MayCarry(policy, value) ==
  /\ Fold(value.name) \notin policy.hardware \cup policy.personal
  /\ value.data \in PropertyLists \/ Fold(value.data) \notin policy.hardware

(* A diff read forwards and backwards: what is new in to against from.      *)
Ways(d) == {[from |-> d.run.before, to |-> d.run.after, kind |-> "added"],
            [from |-> d.run.after, to |-> d.run.before, kind |-> "removed"]}

OfKind(told, way) == {c \in told : KindOf(c) = way.kind}

(* Kept or set aside, a change is told.                                     *)
ServicesTold(diff) == diff.services \cup diff.suppressed
FilesTold(diff) == diff.files \cup diff.suppressed_files

Unread(diff, domain, item, view) ==
  \E x \in diff.coverage.access_denied :
    /\ x.domain = domain /\ x.view = view /\ IsWithin(item, x.item)
    /\ x.value = None \/ Len(x.item) = Len(item)
ServiceUnread(diff, name) ==
  Denied("services", name, None, "") \in diff.coverage.access_denied

(* A snapshot's own walk was to reach a path or a key.                      *)
WalksPath(n, path) ==
  /\ ~IsExcludedPath(seen[n].build.policy, path)
  /\ \E root \in snapshots[n].filesystem_policy[1].roots : IsWithin(path, root)
WalksKey(n, key) == ~IsExcludedKey(seen[n].build.policy, key)

(* A build that made the diff refuses to tell of a path; the diff compared  *)
(* a domain at all.                                                         *)
HiddenPath(d, path) == \E build \in {d.run.build, d.by} : IsExcludedPath(build.policy, path)
Compared(d, domain) == Covers(d.diff.coverage, domain)

(* An entry its own directory cannot list leaves no trace in the snapshot.  *)
Unlisted(n, path) ==
  \E node \in seen[n].listed : node.fault = "unlisted" /\ IsWithin(path, node.path)

(* What the snapshot holds of a key has values a build that made the diff   *)
(* refuses to tell.                                                         *)
HeldBack(d, n, identity) ==
  \E r \in snapshots[n].registry, build \in {d.run.build, d.by} :
    RegistryIdentity(r) = identity /\ \E v \in r.values : ~Allowed(build.policy, v)

------------------------------------------------------------------------------
(* Properties                                                               *)

TypeOK ==
  /\ machine \in Machines
  /\ {started, now, changes} \subseteq Nat /\ changes <= MaxChanges
  /\ phase \in {"idle", "services", "filesystem", "contents", "registry"}
  /\ (phase = "idle") = (capture = <<>>)
  /\ Len(snapshots) = Len(seen) /\ Len(snapshots) <= CycleLength /\ Len(diffs) <= MaxDiffs
  /\ \A n \in DOMAIN diffs : diffs[n].diff.format_version \in {1, DiffFormat}

(* A service, file or key a diff calls new was not there when the earlier   *)
(* snapshot looked, and is when the later one did; or the diff itself says  *)
(* that it was not read, or that the two looked in different places; or the *)
(* key was there with values a build refused to tell.  A restart the diff   *)
(* claims took place (compare, refilter, rebooted_between, over everything  *)
(* the collectors may run into).                                            *)
ServiceIsNew(d, way, change) ==
  LET name == Later(change).name
  IN  /\ name \in NamesOf(seen[way.to].enumerated)
      /\ name \notin NamesOf(seen[way.from].enumerated) \/ ServiceUnread(d.diff, name)

FileIsNew(d, way, change) ==
  LET path == change.identity
  IN  /\ HasFile(seen[way.to].listed, path)
      /\ \/ ~HasFile(seen[way.from].listed, path)
         \/ Unread(d.diff, "filesystem", path, "")
         \/ d.diff.filesystem_policy_changed /\ ~WalksPath(way.from, path)
         \/ Unlisted(way.from, path)

KeyIsNew(d, way, change) ==
  LET key == change.identity.key
      view == change.identity.view
  IN  /\ ValuesOf(seen[way.to].keys, key, view) # {}
      /\ \/ ValuesOf(seen[way.from].keys, key, view) = {}
         \/ Unread(d.diff, "registry", key, view)
         \/ d.diff.registry_policy_changed /\ ~WalksKey(way.from, key)
         \/ HeldBack(d, way.from, change.identity)

Restarted(d) == seen[d.run.before].started # seen[d.run.after].started

NothingInvented ==
  \A n \in Judged : \A way \in Ways(diffs[n]) :
    LET d == diffs[n]
    IN  /\ d.diff.rebooted_between = Some(TRUE) => Restarted(d)
        /\ \A c \in OfKind(ServicesTold(d.diff), way) : ServiceIsNew(d, way, c)
        /\ \A c \in OfKind(FilesTold(d.diff), way) : FileIsNew(d, way, c)
        /\ \A c \in OfKind(d.diff.registry, way) : KeyIsNew(d, way, c)

(* Whatever is new on the machine is told by the diff, unless the diff says *)
(* that it was not read or this program refuses to know it; a change set    *)
(* aside as noise is still told.  So is a file whose size changed, a value  *)
(* that did, and a restart in between (compare, rebooted_between).          *)
NewServicesTold(d, way) ==
  LET was == NamesOf(seen[way.from].enumerated)
      is  == NamesOf(seen[way.to].enumerated)
      Template(name) == CanonicalName(d.run.filter, name)
      Alike(names, name) == {other \in names : Template(other) = Template(name)}
      told == {Later(c).name : c \in OfKind(ServicesTold(d.diff), way)}
  IN  \A name \in is \ was :
        \/ name \in told
        \/ ServiceUnread(d.diff, name)
        \/ /\ Alike(was, name) # {}
           /\ \A other \in Alike(is, name) : other = name \/ ServiceUnread(d.diff, other)

NewFilesTold(d, way) ==
  LET told == {c.identity : c \in OfKind(FilesTold(d.diff), way)}
  IN  \A node \in {m \in seen[way.to].listed : m.kind = "file"} :
        LET path == Folded(node.path)
        IN  \/ path \in told
            \/ HasFile(seen[way.from].listed, path)
            \/ Unread(d.diff, "filesystem", path, "") \/ Unlisted(way.to, path)
            \/ ~WalksPath(way.to, path) \/ HiddenPath(d, path)

ResizedFilesTold(d) ==
  \A m \in seen[d.run.before].listed, k \in seen[d.run.after].listed :
    LET path == Folded(m.path)
    IN  \/ path # Folded(k.path) \/ m.kind # "file" \/ k.kind # "file" \/ m.size = k.size
        \/ \E c \in FilesTold(d.diff) : c.identity = path
        \/ Unread(d.diff, "filesystem", path, "")
        \/ \E n \in {d.run.before, d.run.after} : ~WalksPath(n, path) \/ Unlisted(n, path)
        \/ HiddenPath(d, path)

(* Of a key both have, the value it gained or that is another now.          *)
NewValuesTold(d, way) ==
  LET Reached(key, view) ==
        /\ \E root \in RegistryRoots : IsWithin(key, root)
        /\ \A i \in DOMAIN key : ~IsWow64Alias(SubSeq(key, 1, i), view)
      Carried(key, value) ==
        \A build \in {seen[way.to].build, d.run.build, d.by} :
          ~IsExcludedKey(build.policy, key) /\ MayCarry(build.policy, value)
      Told(key, view, name) ==
        \E c \in d.diff.registry :
          /\ c.identity = [key |-> key, view |-> view]
          /\ \/ KindOf(c) = way.kind /\ Comparable(Later(c), name) # {}
             \/ KindOf(c) = "modified" /\ name \in ValueDifferences(c.before[1], c.after[1])
  IN  \A k \in seen[way.to].keys : \A view \in k.views :
        LET key == Folded(k.key)
        IN  \A value \in ValuesOf({k}, key, view) \ ValuesOf(seen[way.from].keys, key, view) :
              \/ Told(key, view, value.name)
              \/ Unread(d.diff, "registry", key, view)
              \/ ~Carried(key, value) \/ ~Reached(key, view) \/ value.reads = "oversized"

(* What a program refused of each diff counts in what they have in common,  *)
(* whichever order they are given in.                                       *)
InOtherOrder == Intersect(Policy, Reverse(Given))
RefusalsAddUp ==
  common # None /\ draft = None => common[1].refiltered = InOtherOrder.refiltered

EveryDifferenceIsTold ==
  /\ RefusalsAddUp
  /\ \A n \in Judged :
       /\ Compared(diffs[n], "filesystem") => ResizedFilesTold(diffs[n])
       /\ diffs[n].diff.rebooted_between = Some(FALSE) => ~Restarted(diffs[n])
       /\ \A way \in Ways(diffs[n]) :
            /\ Compared(diffs[n], "services") => NewServicesTold(diffs[n], way)
            /\ Compared(diffs[n], "filesystem") => NewFilesTold(diffs[n], way)
            /\ Compared(diffs[n], "registry") => NewValuesTold(diffs[n], way)

(* A directory is reported as emptied only if nothing is left in it, and a  *)
(* directory that lost its files and is still standing is reported, itself  *)
(* or by one above it, unless something on the way to it or below it was    *)
(* not looked at (walk, file_empty_roots and emptied_directories).          *)
WhatIsLeftStanding ==
  \A n \in Judged : \A way \in Ways(diffs[n]) :
    LET d    == diffs[n].diff
        list == IF way.kind = "added" THEN d.emptied_directories ELSE d.formerly_empty_directories
        was  == seen[way.from].listed
        is   == seen[way.to].listed
        Lost(path) == /\ \E m \in was : m.kind = "file" /\ m.fault = "none" /\ Parent(m.path) = path
                      /\ WalksPath(way.to, path) /\ ~Unread(d, "filesystem", path, "")
                      /\ ~Unlisted(way.from, path) /\ ~Unlisted(way.to, path)
                      /\ ~HiddenPath(diffs[n], path)
        AllWalked(path) == \A m \in is : IsPrefix(path, m.path) =>
                             ~IsExcludedPath(seen[way.to].build.policy, m.path)
    IN  list # None =>
          /\ \A path \in list[1] :
               StandsEmpty(is, path) \/ \E m \in is : m.fault = "unlisted" /\ IsPrefix(path, m.path)
          /\ \A m \in is :
               Lost(m.path) /\ StandsEmpty(is, m.path) /\ AllWalked(m.path) =>
                 \E path \in list[1] : IsPrefix(path, m.path)

(* Nothing this build refuses is left in what it writes: not in a diff of   *)
(* older snapshots, not in an older diff it was given, not in what diffs    *)
(* have in common (compare, refilter, intersect).                           *)
Clean(diff) ==
  /\ \A c \in FilesTold(diff) : \A s \in Sides(c) : ~IsExcludedPath(Policy, s[1].path)
  /\ \A c \in diff.registry : \A s \in Sides(c) :
       ~IsExcludedKey(Policy, s[1].key) /\ \A v \in s[1].values : MayCarry(Policy, v)
  /\ \A x \in diff.coverage.access_denied : ~ExcludesDenied(Policy, x)
  /\ \A list \in {diff.emptied_directories, diff.formerly_empty_directories} :
       list # None => \A path \in list[1] : ~IsExcludedPath(Policy, path)
  /\ \A list \in {diff.emptied_keys, diff.formerly_empty_keys} :
       list # None => \A k \in list[1] : ~IsExcludedKey(Policy, k.key)

ExcludedNeverLeaves ==
  /\ \A n \in Judged : diffs[n].by = CurrentBuild => Clean(diffs[n].diff)
  /\ common # None => Clean(common[1])

(* A diff read the other way round is the diff of the two snapshots in the  *)
(* other order, the lists of what was emptied exchanged with those of what  *)
(* was empty before (diff.rs, reversed; its tests say the same).  The code  *)
(* is taken at its word here: the doc comment of reversed (diff.rs:566-568) *)
(* still says that the emptied lists become None, as they did before a diff *)
(* held their reverse.                                                      *)
ReadBackwards ==
  \A n \in Judged :
    LET run == diffs[n].run
    IN  diffs[n].by = run.build /\ diffs[n].diff.format_version = run.build.diff_format =>
          Reversed(diffs[n].diff)
          = Compare(run.build, run.filter, snapshots[run.after], snapshots[run.before])

(* What diffs have in common is what each of them tells, whichever order    *)
(* they are given in, and is set aside only where each of them set it aside *)
(* (intersect).                                                             *)
MatchedIn(domain, told, change) == \E c \in told : MatchedBy(domain, c) = MatchedBy(domain, change)

IsShared(domain, told, tellings) ==
  /\ \A c \in told : \A each \in tellings : MatchedIn(domain, each, c)
  /\ \A c \in UNION tellings :
       (\A each \in tellings : MatchedIn(domain, each, c)) => MatchedIn(domain, told, c)

ChangesAreShared(shared, given) ==
  /\ IsShared("services", ServicesTold(shared), {ServicesTold(d) : d \in given})
  /\ IsShared("filesystem", FilesTold(shared), {FilesTold(d) : d \in given})
  /\ IsShared("registry", shared.registry, {d.registry : d \in given})
  /\ IsShared("services", shared.suppressed, {d.suppressed : d \in given})

IntersectionIsShared ==
  common # None /\ draft = None =>
    LET given == {Refilter(Policy, diffs[n].diff) : n \in DOMAIN diffs}
    IN  /\ ChangesAreShared(common[1], given) /\ ChangesAreShared(InOtherOrder, given)
        /\ common[1].coverage = InOtherOrder.coverage

(* A draft loses nothing: what a signer's files added lies under a path the *)
(* entry names, or that its reviewer is told was refused, or in a game; and *)
(* every service and every registered driver that was added is named, in    *)
(* the entry or to the reviewer (draft_scoped).                             *)
DraftLosesNothing ==
  draft # None =>
    LET asked == draft[1].of
        told  == draft[1].draft
        given == IF asked.footprint = 0 THEN common[1] ELSE diffs[asked.footprint].diff
        footprint == IF asked.removed THEN Reversed(given) ELSE given
        new   == Added(footprint.services)
        Named(name) ==
          \/ name \in told.entry.services \cup told.review.services
          \/ name \in told.review.registry_drivers.left_out
        Under(path) ==
          \/ \E i \in 1..(Len(path) - 1) :
               \/ Templated(SubSeq(path, 1, i)) \in told.entry.paths
               \/ SubSeq(path, 1, i) \in told.review.paths
          \/ path \in told.review.game_files
        IsDriverKey(c) ==
          /\ Len(KeyOf(c)) = 5 /\ IsPrefix(ServicesKey, Folded(KeyOf(c)))
          /\ \E v \in Later(c).values : Fold(v.name) = "TYPE" /\ v.data \in KernelTypes
    IN  /\ \A c \in new : Named(NameOf(c))
        /\ \A c \in Added(footprint.registry) :
             IsDriverKey(c) => \/ Named(Last(KeyOf(c)))
                               \/ \E s \in footprint.services : Fold(NameOf(s)) = Fold(Last(KeyOf(c)))
        /\ asked.only = {} =>
             \A c \in SignedBy(Added(footprint.files), told.entry.signer) : Under(PathOf(c))
================================================================================
