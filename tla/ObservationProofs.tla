--------------------------- MODULE ObservationProofs ---------------------------
(***************************************************************************)
(* Proofs about an observation cycle: what its variables hold, that a diff *)
(* read backwards is the diff of the snapshots in the other order, that    *)
(* nothing this build refuses is left in what it writes, that what diffs   *)
(* have in common is what each of them tells, that no diff tells of        *)
(* something new that was there before, unless it says what was not read,  *)
(* that a directory called emptied stands empty, and that no new file is   *)
(* left untold.                                                            *)
(***************************************************************************)
EXTENDS Observation, TLAPS, FiniteSetTheorems, SequenceTheorems, WellFoundedInduction

(* A record of a key, on a side of a change or in a snapshot.               *)
IsRecord(r) == r = [key |-> r.key, view |-> r.view, values |-> r.values]

RegistrySide(s) == s = None \/ (s = Some(s[1]) /\ IsRecord(s[1]))
RegistryChange(c) ==
  /\ c = [identity |-> c.identity, before |-> c.before, after |-> c.after]
  /\ RegistrySide(c.before) /\ RegistrySide(c.after)

FileSide(s, identity) == s = None \/ (s = Some(s[1]) /\ Folded(s[1].path) = identity)
FileChange(c) ==
  /\ FileSide(c.before, c.identity) /\ FileSide(c.after, c.identity)
  /\ c.before # None \/ c.after # None

DiffFields ==
  {"format_version", "snapshot_format_version", "before_taken_utc", "after_taken_utc",
   "rebooted_between", "emptied_directories", "formerly_empty_directories", "emptied_keys",
   "formerly_empty_keys", "coverage", "services", "suppressed", "files", "suppressed_files",
   "registry", "filesystem_policy_changed", "registry_policy_changed", "libraries",
   "refiltered", "intersection_of"}

IsCoverage(c) == c = [captured |-> c.captured, access_denied |-> c.access_denied]

DiffShape(d) ==
  /\ DOMAIN d = DiffFields
  /\ IsCoverage(d.coverage)
  /\ \A c \in d.registry : RegistryChange(c)
  /\ \A c \in FilesTold(d) : FileChange(c)

SnapshotShape(s) == \A r \in s.registry : IsRecord(r)

-------------------------------------------------------------------------------
(* What the policy decides.                                                 *)

LEMMA SomeIsNotNone == ASSUME NEW x PROVE Some(x) # None /\ Some(x)[1] = x
BY DEF Some, None

LEMMA AllowedMayBeCarried ==
  ASSUME NEW policy, NEW v, Allowed(policy, v)
  PROVE  MayCarry(policy, v)
BY DEF Allowed, Refusal, IsHardwareIdentity, IsPersonalIdentityValue, MayCarry

(* What is left of a record the policy admits.                              *)
CleanRecord(policy, r) ==
  /\ ~IsExcludedKey(policy, r.key)
  /\ \A v \in r.values : Allowed(policy, v)

LEMMA AdmittedIsClean ==
  ASSUME NEW policy, NEW r, IsRecord(r), Admit(policy, r).record # None
  PROVE  /\ Admit(policy, r).record = Some(Admit(policy, r).record[1])
         /\ IsRecord(Admit(policy, r).record[1])
         /\ CleanRecord(policy, Admit(policy, r).record[1])
         /\ Admit(policy, r).record[1].key = r.key
         /\ Admit(policy, r).record[1].view = r.view
         /\ Admit(policy, r).record[1].values \subseteq r.values
<1> DEFINE allowed == {v \in r.values : Allowed(policy, v)}
           refused == r.values \ allowed
<1>1. ~IsExcludedKey(policy, r.key)
  BY DEF Admit, None
<1>2. CASE refused = {}
  <2>1. Admit(policy, r).record = Some(r)
    BY <1>1, <1>2 DEF Admit
  <2>2. \A v \in r.values : Allowed(policy, v)
    BY <1>2
  <2> QED BY <1>1, <2>1, <2>2, SomeIsNotNone DEF CleanRecord
<1>3. CASE refused # {}
  <2>1. allowed # {}
    BY <1>1, <1>3 DEF Admit, None
  <2>2. Admit(policy, r).record = Some([r EXCEPT !.values = allowed])
    BY <1>1, <1>3, <2>1 DEF Admit
  <2> DEFINE kept == [r EXCEPT !.values = allowed]
  <2>3. kept = [key |-> r.key, view |-> r.view, values |-> allowed]
    BY DEF IsRecord
  <2>4. kept.key = r.key /\ kept.view = r.view /\ kept.values = allowed
    <3> HIDE DEF kept, allowed
    <3> QED BY <2>3
  <2>5. IsRecord(kept)
    <3> HIDE DEF kept, allowed
    <3> QED BY <2>3, <2>4 DEF IsRecord
  <2>6. CleanRecord(policy, kept)
    <3> HIDE DEF kept
    <3> QED BY <1>1, <2>4 DEF CleanRecord
  <2>7. Admit(policy, r).record = Some(kept) /\ Some(kept)[1] = kept
    BY <2>2, SomeIsNotNone
  <2>8. kept.values \subseteq r.values
    BY <2>4
  <2> HIDE DEF kept
  <2> QED BY <2>4, <2>5, <2>6, <2>7, <2>8
<1> QED BY <1>2, <1>3

LEMMA FoldedDecides ==
  ASSUME NEW policy, NEW p, NEW q, Folded(p) = Folded(q)
  PROVE  IsExcludedPath(policy, p) = IsExcludedPath(policy, q)
BY DEF IsExcludedPath

-------------------------------------------------------------------------------
(* Comparing two snapshots.                                                 *)

LEMMA IndexedRecords ==
  ASSUME NEW indexOf, NEW i \in DOMAIN IndexBy(indexOf)
  PROVE  IndexBy(indexOf)[i] \in DOMAIN indexOf /\ indexOf[IndexBy(indexOf)[i]] = i
<1>1. i \in Range(indexOf)
  BY DEF IndexBy
<1>2. PICK r \in DOMAIN indexOf : indexOf[r] = i
  BY <1>1 DEF Range
<1>3. IndexBy(indexOf)[i] = CHOOSE q \in DOMAIN indexOf : indexOf[q] = i
  BY <1>1 DEF IndexBy
<1> QED BY <1>2, <1>3

(* A change between two indexes is of a record of one, or of one of each.   *)
ChangeOf(c, was, is) ==
  /\ c = [identity |-> c.identity, before |-> c.before, after |-> c.after]
  /\ \/ /\ c.identity \in DOMAIN was /\ c.identity \notin DOMAIN is
        /\ c.before = Some(was[c.identity]) /\ c.after = None
     \/ /\ c.identity \in DOMAIN is /\ c.identity \notin DOMAIN was
        /\ c.before = None /\ c.after = Some(is[c.identity])
     \/ /\ c.identity \in DOMAIN was /\ c.identity \in DOMAIN is
        /\ c.before = Some(was[c.identity]) /\ c.after = Some(is[c.identity])

LEMMA ChangesAreOfRecords ==
  ASSUME NEW was, NEW is, NEW c
  PROVE  c \in ChangesBetween(was, is) <=> ChangeOf(c, was, is)
<1>1. ASSUME c \in ChangesBetween(was, is) PROVE ChangeOf(c, was, is)
  BY <1>1 DEF ChangesBetween, ChangeOf
<1>2. ASSUME ChangeOf(c, was, is) PROVE c \in ChangesBetween(was, is)
  <2> DEFINE i == c.identity
  <2>1. CASE c.before = Some(was[i]) /\ c.after = None /\ i \in DOMAIN was \ DOMAIN is
    <3>1. c = [identity |-> i, before |-> Some(was[i]), after |-> None]
      BY <1>2, <2>1 DEF ChangeOf
    <3> HIDE DEF i
    <3> QED BY <2>1, <3>1 DEF ChangesBetween
  <2>2. CASE c.before = None /\ c.after = Some(is[i]) /\ i \in DOMAIN is \ DOMAIN was
    <3>1. c = [identity |-> i, before |-> None, after |-> Some(is[i])]
      BY <1>2, <2>2 DEF ChangeOf
    <3> HIDE DEF i
    <3> QED BY <2>2, <3>1 DEF ChangesBetween
  <2>3. CASE c.before = Some(was[i]) /\ c.after = Some(is[i]) /\ i \in DOMAIN was \cap DOMAIN is
    <3>1. c = [identity |-> i, before |-> Some(was[i]), after |-> Some(is[i])]
      BY <1>2, <2>3 DEF ChangeOf
    <3> HIDE DEF i
    <3> QED BY <2>3, <3>1 DEF ChangesBetween
  <2> QED BY <1>2, <2>1, <2>2, <2>3 DEF ChangeOf
<1> QED BY <1>1, <1>2

(* Both sides of every change compare tells of a file are files neither this*)
(* policy excludes nor the index renames.                                   *)
LEMMA ComparedFiles ==
  ASSUME NEW policy, NEW before, NEW after, NEW c \in CompareFiles(policy, before, after)
  PROVE  FileChange(c) /\ \A s \in Sides(c) : ~IsExcludedPath(policy, s[1].path)
<1> DEFINE Of(side) == [r \in {f \in side : ~IsExcludedPath(policy, f.path)} |-> Folded(r.path)]
           was == IndexBy(Of(before))
           is == IndexBy(Of(after))
<1>1. ChangeOf(c, was, is)
  BY ChangesAreOfRecords DEF CompareFiles
<1>2. ASSUME NEW side, NEW i \in DOMAIN IndexBy(Of(side))
      PROVE  ~IsExcludedPath(policy, IndexBy(Of(side))[i].path) /\ Folded(IndexBy(Of(side))[i].path) = i
  <2>1. IndexBy(Of(side))[i] \in DOMAIN Of(side) /\ Of(side)[IndexBy(Of(side))[i]] = i
    <3> HIDE DEF Of
    <3> QED BY <1>2, IndexedRecords
  <2> DEFINE r == IndexBy(Of(side))[i]
  <2> HIDE DEF r
  <2> QED BY <2>1 DEF r
<1>3. \A i \in DOMAIN was : ~IsExcludedPath(policy, was[i].path) /\ Folded(was[i].path) = i
  BY <1>2
<1>4. \A i \in DOMAIN is : ~IsExcludedPath(policy, is[i].path) /\ Folded(is[i].path) = i
  BY <1>2
<1> HIDE DEF was, is
<1> QED BY <1>1, <1>3, <1>4 DEF ChangeOf, FileChange, FileSide, Sides, Some, None

(* The registry: what a modification keeps of both records.                 *)
CleanSide(policy, s) == s = None \/ CleanRecord(policy, s[1])
CleanChange(policy, c) == CleanSide(policy, c.before) /\ CleanSide(policy, c.after)

Narrowed(r, names) == [r EXCEPT !.values = {v \in @ : v.name \in names}]

LEMMA NarrowedRecord ==
  ASSUME NEW policy, NEW r, IsRecord(r), NEW names
  PROVE  /\ Narrowed(r, names)
              = [key |-> r.key, view |-> r.view, values |-> {v \in r.values : v.name \in names}]
         /\ IsRecord(Narrowed(r, names))
         /\ CleanRecord(policy, r) => CleanRecord(policy, Narrowed(r, names))
<1> DEFINE some == {v \in r.values : v.name \in names}
           only == Narrowed(r, names)
<1>1. only = [key |-> r.key, view |-> r.view, values |-> some]
  BY DEF IsRecord, Narrowed
<1>2. only.key = r.key /\ only.view = r.view /\ only.values = some
  <2> HIDE DEF only, some
  <2> QED BY <1>1
<1>3. IsRecord(only)
  <2> HIDE DEF only, some
  <2> QED BY <1>1, <1>2 DEF IsRecord
<1>4. CleanRecord(policy, r) => CleanRecord(policy, only)
  <2> HIDE DEF only
  <2> QED BY <1>2 DEF CleanRecord
<1> QED BY <1>1, <1>3, <1>4

LEMMA ModificationIsAChange ==
  ASSUME NEW c, RegistryChange(c), c.before # None, c.after # None,
         NEW m \in RegistryModification(c), NEW names,
         names = ValueDifferences(c.before[1], c.after[1])
  PROVE  m = [identity |-> c.identity, before |-> Some(Narrowed(c.before[1], names)),
              after |-> Some(Narrowed(c.after[1], names))]
<1>1. m = [c EXCEPT !.before = Some(Narrowed(@[1], names)), !.after = Some(Narrowed(@[1], names))]
  BY DEF RegistryModification, Narrowed
<1> QED BY <1>1 DEF RegistryChange

LEMMA ModificationIsClean ==
  ASSUME NEW policy, NEW c, RegistryChange(c), c.before # None, c.after # None,
         CleanChange(policy, c), NEW m \in RegistryModification(c)
  PROVE  RegistryChange(m) /\ CleanChange(policy, m)
<1> DEFINE names == ValueDifferences(c.before[1], c.after[1])
<1> HIDE DEF names
<1>1. m = [identity |-> c.identity, before |-> Some(Narrowed(c.before[1], names)),
           after |-> Some(Narrowed(c.after[1], names))]
  BY ModificationIsAChange DEF names
<1>2. IsRecord(c.before[1]) /\ IsRecord(c.after[1])
  BY DEF RegistryChange, RegistrySide
<1>3. CleanRecord(policy, c.before[1]) /\ CleanRecord(policy, c.after[1])
  BY DEF CleanChange, CleanSide
<1>4. \A r : IsRecord(r) => /\ IsRecord(Narrowed(r, names))
                            /\ CleanRecord(policy, r) => CleanRecord(policy, Narrowed(r, names))
  BY NarrowedRecord
<1>5. /\ m.before = Some(Narrowed(c.before[1], names)) /\ m.after = Some(Narrowed(c.after[1], names))
      /\ m.identity = c.identity
  BY <1>1
<1>6. m.before[1] = Narrowed(c.before[1], names) /\ m.after[1] = Narrowed(c.after[1], names)
  BY <1>5, SomeIsNotNone
<1>7. RegistryChange(m)
  BY <1>1, <1>2, <1>4, <1>5, <1>6 DEF RegistryChange, RegistrySide
<1>8. CleanChange(policy, m)
  BY <1>2, <1>3, <1>4, <1>6 DEF CleanChange, CleanSide
<1> QED BY <1>7, <1>8

AdmittedIndex(policy, records) ==
  IndexBy([r \in AdmittedRecords(policy, records) |-> RegistryIdentity(r)])

LEMMA AdmittedChanges ==
  ASSUME NEW policy, NEW before, NEW after, \A r \in before \cup after : IsRecord(r),
         NEW c \in ChangesBetween(AdmittedIndex(policy, before), AdmittedIndex(policy, after))
  PROVE  RegistryChange(c) /\ CleanChange(policy, c)
<1> DEFINE Of(side) == [r \in AdmittedRecords(policy, side) |-> RegistryIdentity(r)]
           was == AdmittedIndex(policy, before)
           is == AdmittedIndex(policy, after)
<1>1. ASSUME NEW side, \A r \in side : IsRecord(r), NEW i \in DOMAIN IndexBy(Of(side))
      PROVE  IsRecord(IndexBy(Of(side))[i]) /\ CleanRecord(policy, IndexBy(Of(side))[i])
  <2>1. IndexBy(Of(side))[i] \in AdmittedRecords(policy, side)
    <3>1. DOMAIN Of(side) = AdmittedRecords(policy, side)
      OBVIOUS
    <3> HIDE DEF Of
    <3> QED BY <1>1, <3>1, IndexedRecords
  <2> DEFINE r == IndexBy(Of(side))[i]
  <2> HIDE DEF r
  <2>2. PICK q \in side : Admit(policy, q).record # None /\ r = Admit(policy, q).record[1]
    BY <2>1 DEF AdmittedRecords, r
  <2> QED BY <1>1, <2>2, AdmittedIsClean DEF r
<1>2. was = IndexBy(Of(before)) /\ is = IndexBy(Of(after))
  BY DEF AdmittedIndex
<1>3. \A i \in DOMAIN was : IsRecord(was[i]) /\ CleanRecord(policy, was[i])
  <2> HIDE DEF was, is, Of
  <2> QED BY <1>1, <1>2
<1>4. \A i \in DOMAIN is : IsRecord(is[i]) /\ CleanRecord(policy, is[i])
  <2> HIDE DEF was, is, Of
  <2> QED BY <1>1, <1>2
<1> HIDE DEF was, is
<1>5. ChangeOf(c, was, is)
  BY ChangesAreOfRecords DEF was, is
<1> QED BY <1>3, <1>4, <1>5, SomeIsNotNone
        DEF ChangeOf, RegistryChange, RegistrySide, CleanChange, CleanSide

(* A change of a key compare tells: one between what the policy admits, or a*)
(* modification of one, narrowed to what differs.                           *)
Modifications(format, c) ==
  IF format = 1 /\ RegistryModification(c) # {} THEN {c} ELSE RegistryModification(c)

LEMMA RegistryTells ==
  ASSUME NEW policy, NEW format, NEW before, NEW after, NEW told,
         told = ChangesBetween(AdmittedIndex(policy, before), AdmittedIndex(policy, after)),
         NEW c
  PROVE  c \in CompareRegistry(policy, format, before, after) <=>
           \/ c \in told /\ KindOf(c) # "modified"
           \/ \E d \in told : KindOf(d) = "modified" /\ c \in Modifications(format, d)
BY DEF CompareRegistry, AdmittedIndex, Modifications

LEMMA ComparedKeys ==
  ASSUME NEW policy, NEW format, NEW before, NEW after,
         \A r \in before \cup after : IsRecord(r),
         NEW c \in CompareRegistry(policy, format, before, after)
  PROVE  RegistryChange(c) /\ CleanChange(policy, c)
<1> DEFINE told == ChangesBetween(AdmittedIndex(policy, before), AdmittedIndex(policy, after))
<1>1. \/ c \in told
      \/ \E d \in told : KindOf(d) = "modified" /\ c \in Modifications(format, d)
  BY RegistryTells
<1>2. ASSUME NEW d \in told, KindOf(d) = "modified", NEW m \in RegistryModification(d)
      PROVE  RegistryChange(m) /\ CleanChange(policy, m)
  <2>1. d.before # None /\ d.after # None
    BY <1>2 DEF KindOf
  <2> QED BY <1>2, <2>1, AdmittedChanges, ModificationIsClean
<1>3. \A d \in told : RegistryChange(d) /\ CleanChange(policy, d)
  BY AdmittedChanges
<1> HIDE DEF told
<1> QED BY <1>1, <1>2, <1>3 DEF Modifications

-------------------------------------------------------------------------------
(* What compare writes.                                                     *)

(* A list of what became empty names nothing the policy refuses.            *)
CleanDirectories(policy, list) == list = None \/ \A path \in list[1] : ~IsExcludedPath(policy, path)
CleanKeys(policy, list) == list = None \/ \A k \in list[1] : ~IsExcludedKey(policy, k.key)

LEMMA EmptiedAreClean ==
  ASSUME NEW policy, NEW coverage, NEW x, NEW y
  PROVE  /\ CleanDirectories(policy, EmptiedDirectories(policy, coverage, x, y).list)
         /\ CleanKeys(policy, EmptiedKeys(policy, coverage, x, y).list)
<1>1. CleanDirectories(policy, EmptiedDirectories(policy, coverage, x, y).list)
  BY SomeIsNotNone DEF CleanDirectories, EmptiedDirectories
<1>2. CleanKeys(policy, EmptiedKeys(policy, coverage, x, y).list)
  BY SomeIsNotNone DEF CleanKeys, EmptiedKeys
<1> QED BY <1>1, <1>2

LEMMA CompareIsADiff ==
  ASSUME NEW b, NEW f, NEW x, NEW y, NEW d, d = Compare(b, f, x, y)
  PROVE  DOMAIN d = DiffFields
BY DEF Compare, DiffFields

LEMMA CompareLists ==
  ASSUME NEW b, NEW f, NEW x, NEW y
  PROVE  LET d == Compare(b, f, x, y)
             both == CoverageOfBoth(x.coverage, y.coverage)
         IN  /\ d.emptied_directories = EmptiedDirectories(b.policy, both, x, y).list
             /\ d.formerly_empty_directories = EmptiedDirectories(b.policy, both, y, x).list
             /\ d.emptied_keys = EmptiedKeys(b.policy, both, x, y).list
             /\ d.formerly_empty_keys = EmptiedKeys(b.policy, both, y, x).list
             /\ d.coverage = WithoutExcludedDenials(b.policy, both)
BY DEF Compare

LEMMA CompareTells ==
  ASSUME NEW b, NEW f, NEW x, NEW y
  PROVE  LET d == Compare(b, f, x, y)
         IN  /\ d.format_version = b.diff_format
             /\ d.registry \subseteq CompareRegistry(b.policy, b.diff_format, x.registry, y.registry)
             /\ FilesTold(d) \subseteq CompareFiles(b.policy, x.files, y.files)
BY DEF Compare, FilesTold

(* A diff with nothing in it a policy refuses.                              *)
CleanFile(policy, c) == \A s \in Sides(c) : ~IsExcludedPath(policy, s[1].path)
CleanDiff(policy, d) ==
  /\ \A c \in FilesTold(d) : CleanFile(policy, c)
  /\ \A c \in d.registry : CleanChange(policy, c)
  /\ \A x \in d.coverage.access_denied : ~ExcludesDenied(policy, x)
  /\ CleanDirectories(policy, d.emptied_directories)
  /\ CleanDirectories(policy, d.formerly_empty_directories)
  /\ CleanKeys(policy, d.emptied_keys) /\ CleanKeys(policy, d.formerly_empty_keys)

LEMMA CleanSuffices ==
  ASSUME NEW d, CleanDiff(Policy, d)
  PROVE  Clean(d)
<1>1. \A c \in FilesTold(d) : \A s \in Sides(c) : ~IsExcludedPath(Policy, s[1].path)
  BY DEF CleanDiff, CleanFile
<1>2. ASSUME NEW c \in d.registry, NEW s \in Sides(c)
      PROVE  ~IsExcludedKey(Policy, s[1].key) /\ \A v \in s[1].values : MayCarry(Policy, v)
  <2>1. CleanRecord(Policy, s[1])
    BY <1>2 DEF CleanDiff, CleanChange, CleanSide, Sides
  <2> QED BY <2>1, AllowedMayBeCarried DEF CleanRecord
<1>3. \A x \in d.coverage.access_denied : ~ExcludesDenied(Policy, x)
  BY DEF CleanDiff
<1>4. \A list \in {d.emptied_directories, d.formerly_empty_directories} :
        list # None => \A path \in list[1] : ~IsExcludedPath(Policy, path)
  BY DEF CleanDiff, CleanDirectories
<1>5. \A list \in {d.emptied_keys, d.formerly_empty_keys} :
        list # None => \A k \in list[1] : ~IsExcludedKey(Policy, k.key)
  BY DEF CleanDiff, CleanKeys
<1> QED BY <1>1, <1>2, <1>3, <1>4, <1>5 DEF Clean

LEMMA DenialsOfADiff ==
  ASSUME NEW policy, NEW coverage, IsCoverage(coverage)
  PROVE  /\ IsCoverage(WithoutExcludedDenials(policy, coverage))
         /\ \A x \in WithoutExcludedDenials(policy, coverage).access_denied : ~ExcludesDenied(policy, x)
         /\ WithoutExcludedDenials(policy, coverage).captured = coverage.captured
<1> DEFINE left == {d \in coverage.access_denied : ~ExcludesDenied(policy, d)}
<1>1. WithoutExcludedDenials(policy, coverage) = [captured |-> coverage.captured, access_denied |-> left]
  BY DEF WithoutExcludedDenials, IsCoverage
<1> HIDE DEF left
<1>2. /\ WithoutExcludedDenials(policy, coverage).captured = coverage.captured
      /\ WithoutExcludedDenials(policy, coverage).access_denied = left
  BY <1>1
<1>3. IsCoverage(WithoutExcludedDenials(policy, coverage))
  BY <1>1, <1>2 DEF IsCoverage
<1> QED BY <1>2, <1>3 DEF left

LEMMA CompareIsClean ==
  ASSUME NEW b, NEW f, NEW x, NEW y, SnapshotShape(x), SnapshotShape(y)
  PROVE  DiffShape(Compare(b, f, x, y)) /\ CleanDiff(b.policy, Compare(b, f, x, y))
<1> DEFINE d == Compare(b, f, x, y)
           both == CoverageOfBoth(x.coverage, y.coverage)
<1>1. DOMAIN d = DiffFields
  BY CompareIsADiff
<1>2. d.coverage = WithoutExcludedDenials(b.policy, both) /\ IsCoverage(both)
  BY CompareLists DEF CoverageOfBoth, IsCoverage
<1>3. IsCoverage(d.coverage) /\ \A q \in d.coverage.access_denied : ~ExcludesDenied(b.policy, q)
  <2> HIDE DEF d, both
  <2> QED BY <1>2, DenialsOfADiff
<1>4. \A c \in d.registry : RegistryChange(c) /\ CleanChange(b.policy, c)
  <2>1. d.registry \subseteq CompareRegistry(b.policy, b.diff_format, x.registry, y.registry)
    BY CompareTells
  <2>2. \A r \in x.registry \cup y.registry : IsRecord(r)
    BY DEF SnapshotShape
  <2> HIDE DEF d
  <2> QED BY <2>1, <2>2, ComparedKeys
<1>5. \A c \in FilesTold(d) : FileChange(c) /\ CleanFile(b.policy, c)
  <2>1. FilesTold(d) \subseteq CompareFiles(b.policy, x.files, y.files)
    BY CompareTells
  <2> HIDE DEF d
  <2> QED BY <2>1, ComparedFiles DEF CleanFile
<1>6. /\ CleanDirectories(b.policy, d.emptied_directories)
      /\ CleanDirectories(b.policy, d.formerly_empty_directories)
      /\ CleanKeys(b.policy, d.emptied_keys) /\ CleanKeys(b.policy, d.formerly_empty_keys)
  <2>1. /\ d.emptied_directories = EmptiedDirectories(b.policy, both, x, y).list
        /\ d.formerly_empty_directories = EmptiedDirectories(b.policy, both, y, x).list
        /\ d.emptied_keys = EmptiedKeys(b.policy, both, x, y).list
        /\ d.formerly_empty_keys = EmptiedKeys(b.policy, both, y, x).list
    BY CompareLists
  <2> HIDE DEF d, both
  <2> QED BY <2>1, EmptiedAreClean
<1> HIDE DEF d
<1>7. DiffShape(d) /\ CleanDiff(b.policy, d)
  BY <1>1, <1>3, <1>4, <1>5, <1>6 DEF DiffShape, CleanDiff
<1> QED BY <1>7 DEF d

-------------------------------------------------------------------------------
(* What refilter leaves.                                                    *)

LEMMA RefilterKeepsFields ==
  ASSUME NEW policy, NEW d
  PROVE  DOMAIN Refilter(policy, d) = DOMAIN d
BY DEF Refilter

LEMMA RefilterTells ==
  ASSUME NEW policy, NEW d, DOMAIN d = DiffFields
  PROVE  LET r == Refilter(policy, d)
             again == {c \in d.registry : d.format_version # DiffFormat \/ ~Untouched(policy, c)}
         IN  /\ r.format_version = DiffFormat
             /\ r.coverage = WithoutExcludedDenials(policy, d.coverage)
             /\ r.files = {c \in d.files : ~IsExcludedPath(policy, Later(c).path)}
             /\ r.suppressed_files = {c \in d.suppressed_files : ~IsExcludedPath(policy, Later(c).path)}
             /\ r.registry = (d.registry \ again) \cup UNION {Rebuilt(policy, c) : c \in again}
<1>1. /\ "format_version" \in DOMAIN d /\ "coverage" \in DOMAIN d /\ "files" \in DOMAIN d
      /\ "suppressed_files" \in DOMAIN d /\ "registry" \in DOMAIN d
  BY DEF DiffFields
<1> QED BY <1>1 DEF Refilter

LEMMA RefilterLists ==
  ASSUME NEW policy, NEW d, DOMAIN d = DiffFields
  PROVE  LET r == Refilter(policy, d)
         IN  /\ CleanDirectories(policy, r.emptied_directories)
             /\ CleanDirectories(policy, r.formerly_empty_directories)
             /\ CleanKeys(policy, r.emptied_keys) /\ CleanKeys(policy, r.formerly_empty_keys)
<1>1. /\ "emptied_directories" \in DOMAIN d /\ "formerly_empty_directories" \in DOMAIN d
      /\ "emptied_keys" \in DOMAIN d /\ "formerly_empty_keys" \in DOMAIN d
  BY DEF DiffFields
<1>2. CleanDirectories(policy, Refilter(policy, d).emptied_directories)
  BY <1>1, SomeIsNotNone DEF Refilter, CleanDirectories
<1>3. CleanDirectories(policy, Refilter(policy, d).formerly_empty_directories)
  BY <1>1, SomeIsNotNone DEF Refilter, CleanDirectories
<1>4. CleanKeys(policy, Refilter(policy, d).emptied_keys)
  BY <1>1, SomeIsNotNone DEF Refilter, CleanKeys
<1>5. CleanKeys(policy, Refilter(policy, d).formerly_empty_keys)
  BY <1>1, SomeIsNotNone DEF Refilter, CleanKeys
<1> QED BY <1>2, <1>3, <1>4, <1>5

LEMMA AdmittedSide ==
  ASSUME NEW policy, NEW s, RegistrySide(s)
  PROVE  RegistrySide(AdmitSide(policy, s)) /\ CleanSide(policy, AdmitSide(policy, s))
<1>1. CASE AdmitSide(policy, s) = None
  BY <1>1 DEF RegistrySide, CleanSide
<1>2. CASE AdmitSide(policy, s) # None
  <2>1. s # None
    BY <1>2 DEF AdmitSide
  <2>2. AdmitSide(policy, s) = Admit(policy, s[1]).record
    BY <2>1 DEF AdmitSide
  <2>3. IsRecord(s[1])
    BY <2>1 DEF RegistrySide
  <2> QED BY <1>2, <2>2, <2>3, AdmittedIsClean DEF RegistrySide, CleanSide
<1> QED BY <1>1, <1>2

LEMMA RebuiltIsClean ==
  ASSUME NEW policy, NEW c, RegistryChange(c), NEW m \in Rebuilt(policy, c)
  PROVE  RegistryChange(m) /\ CleanChange(policy, m)
<1> DEFINE left == AdmitSide(policy, c.before)
           right == AdmitSide(policy, c.after)
           rebuilt == [c EXCEPT !.before = AdmitSide(policy, @), !.after = AdmitSide(policy, @)]
<1>1. rebuilt = [identity |-> c.identity, before |-> left, after |-> right]
  <2>1. rebuilt = [c EXCEPT !.before = left, !.after = right]
    OBVIOUS
  <2> HIDE DEF left, right, rebuilt
  <2> QED BY <2>1 DEF RegistryChange
<1>2. RegistrySide(left) /\ CleanSide(policy, left) /\ RegistrySide(right) /\ CleanSide(policy, right)
  BY AdmittedSide DEF RegistryChange
<1>3. m \in {rebuilt} \/ (KindOf(rebuilt) = "modified" /\ m \in RegistryModification(rebuilt))
  BY DEF Rebuilt
<1> HIDE DEF left, right, rebuilt
<1>4. rebuilt.identity = c.identity /\ rebuilt.before = left /\ rebuilt.after = right
  BY <1>1
<1>5. RegistryChange(rebuilt) /\ CleanChange(policy, rebuilt)
  BY <1>1, <1>2, <1>4 DEF RegistryChange, CleanChange
<1>6. CASE m \in {rebuilt}
  BY <1>5, <1>6
<1>7. CASE KindOf(rebuilt) = "modified" /\ m \in RegistryModification(rebuilt)
  <2>1. rebuilt.before # None /\ rebuilt.after # None
    BY <1>7 DEF KindOf
  <2> QED BY <1>5, <1>7, <2>1, ModificationIsClean
<1> QED BY <1>3, <1>6, <1>7

LEMMA UntouchedIsClean ==
  ASSUME NEW policy, NEW c, RegistryChange(c), Untouched(policy, c)
  PROVE  CleanChange(policy, c)
<1>1. ASSUME NEW s, RegistrySide(s), s # None, AdmitSide(policy, s) = s
      PROVE  CleanSide(policy, s)
  <2>1. s = Admit(policy, s[1]).record
    BY <1>1 DEF AdmitSide
  <2>2. IsRecord(s[1]) /\ Admit(policy, s[1]).record # None
    BY <1>1, <2>1 DEF RegistrySide
  <2>3. CleanRecord(policy, Admit(policy, s[1]).record[1])
    BY <2>2, AdmittedIsClean
  <2>4. CleanRecord(policy, s[1])
    BY <2>1, <2>3
  <2> QED BY <2>4 DEF CleanSide
<1>2. RegistrySide(c.before) /\ RegistrySide(c.after)
  BY DEF RegistryChange
<1>3. CleanSide(policy, c.before)
  <2>1. CASE c.before = None
    BY <2>1 DEF CleanSide
  <2>2. CASE c.before # None
    <3>1. AdmitSide(policy, c.before) = c.before
      BY <2>2 DEF Untouched, Sides
    <3> QED BY <1>1, <1>2, <2>2, <3>1
  <2> QED BY <2>1, <2>2
<1>4. CleanSide(policy, c.after)
  <2>1. CASE c.after = None
    BY <2>1 DEF CleanSide
  <2>2. CASE c.after # None
    <3>1. AdmitSide(policy, c.after) = c.after
      BY <2>2 DEF Untouched, Sides
    <3> QED BY <1>1, <1>2, <2>2, <3>1
  <2> QED BY <2>1, <2>2
<1> QED BY <1>3, <1>4 DEF CleanChange

(* Both sides of a change of a file are the same path, case aside, so what  *)
(* the record in force says of it holds of the other.                       *)
LEMMA KeptFileIsClean ==
  ASSUME NEW policy, NEW c, FileChange(c), ~IsExcludedPath(policy, Later(c).path)
  PROVE  CleanFile(policy, c)
<1>1. \A s \in Sides(c) : Folded(s[1].path) = c.identity
  BY DEF Sides, FileChange, FileSide
<1>2. Folded(Later(c).path) = c.identity
  BY DEF Later, FileChange, FileSide
<1> QED BY <1>1, <1>2, FoldedDecides DEF CleanFile

LEMMA RefilterIsClean ==
  ASSUME NEW policy, NEW d, DiffShape(d)
  PROVE  DiffShape(Refilter(policy, d)) /\ CleanDiff(policy, Refilter(policy, d))
<1> DEFINE r == Refilter(policy, d)
           again == {c \in d.registry : d.format_version # DiffFormat \/ ~Untouched(policy, c)}
<1>1. DOMAIN d = DiffFields /\ DOMAIN r = DiffFields
  BY RefilterKeepsFields DEF DiffShape
<1>2. /\ r.coverage = WithoutExcludedDenials(policy, d.coverage)
      /\ r.files = {c \in d.files : ~IsExcludedPath(policy, Later(c).path)}
      /\ r.suppressed_files = {c \in d.suppressed_files : ~IsExcludedPath(policy, Later(c).path)}
      /\ r.registry = (d.registry \ again) \cup UNION {Rebuilt(policy, c) : c \in again}
  BY <1>1, RefilterTells
<1>3. /\ CleanDirectories(policy, r.emptied_directories)
      /\ CleanDirectories(policy, r.formerly_empty_directories)
      /\ CleanKeys(policy, r.emptied_keys) /\ CleanKeys(policy, r.formerly_empty_keys)
  BY <1>1, RefilterLists
<1>4. ASSUME NEW c \in d.registry PROVE RegistryChange(c)
  BY DEF DiffShape
<1>5. ASSUME NEW c \in d.registry \ again PROVE CleanChange(policy, c)
  BY <1>4, UntouchedIsClean
<1>6. ASSUME NEW c \in again, NEW m \in Rebuilt(policy, c)
      PROVE  RegistryChange(m) /\ CleanChange(policy, m)
  BY <1>4, RebuiltIsClean
<1> HIDE DEF r, again
<1>7. again \subseteq d.registry
  BY DEF again
<1>8. \A c \in r.registry : RegistryChange(c) /\ CleanChange(policy, c)
  BY <1>2, <1>4, <1>5, <1>6, <1>7
<1>9. \A c \in FilesTold(r) : FileChange(c) /\ CleanFile(policy, c)
  BY <1>2, KeptFileIsClean DEF FilesTold, DiffShape
<1>10. IsCoverage(r.coverage) /\ \A q \in r.coverage.access_denied : ~ExcludesDenied(policy, q)
  BY <1>2, DenialsOfADiff DEF DiffShape
<1>11. DiffShape(r) /\ CleanDiff(policy, r)
  BY <1>1, <1>3, <1>8, <1>9, <1>10 DEF DiffShape, CleanDiff
<1> QED BY <1>11 DEF r

-------------------------------------------------------------------------------
(* What intersect writes.  Of a set of numbers one is the least.            *)

LEMMA LeastNatural ==
  ASSUME NEW S \in SUBSET Nat, S # {}
  PROVE  \E m \in S : \A k \in S : m <= k
<1> DEFINE R == StrictSubsetOrdering(Nat)
           T == {1..n : n \in S}
<1>1. IsWellFoundedOn(R, FiniteSubsetsOf(Nat))
  BY FS_StrictSubsetOrderingWellFounded
<1>2. T \subseteq FiniteSubsetsOf(Nat) /\ T # {}
  <2>1. ASSUME NEW n \in S PROVE 1..n \in FiniteSubsetsOf(Nat)
    <3>1. IsFiniteSet(1..n)
      BY FS_Interval
    <3>2. 1..n \subseteq Nat
      OBVIOUS
    <3> QED BY <3>1, <3>2 DEF FiniteSubsetsOf
  <2> QED BY <2>1
<1>3. PICK x \in T : \A y \in T : ~ (<<y, x>> \in R)
  <2> HIDE DEF R, T
  <2> QED BY <1>1, <1>2, WFMin
<1>4. PICK m \in S : x = 1..m
  OBVIOUS
<1>5. ASSUME NEW k \in S, k < m PROVE FALSE
  <2>1. 1..k \in T /\ <<1..k, 1..m>> \notin R
    BY <1>3, <1>4
  <2>2. 1..k \subseteq 1..m /\ 1..k # 1..m
    <3>1. m \in 1..m /\ m \notin 1..k
      BY <1>5
    <3> QED BY <3>1, <1>5
  <2>3. 1..k \in SUBSET Nat /\ 1..m \in SUBSET Nat
    OBVIOUS
  <2> QED BY <2>1, <2>2, <2>3 DEF StrictSubsetOrdering
<1> QED BY <1>5

LEMMA LeastIsOne ==
  ASSUME NEW S \in SUBSET Nat, S # {}
  PROVE  Min(S) \in S
BY LeastNatural DEF Min

(* What is shared is told by a footprint.                                   *)
LEMMA SharedIsTold ==
  ASSUME NEW domain, NEW sides, NEW m \in Nat, DOMAIN sides = 1..m,
         NEW c \in Shared(domain, sides).kept
  PROVE  \E n \in DOMAIN sides : c \in sides[n].kept
<1> DEFINE Matched(told) == {MatchedBy(domain, x) : x \in told}
           Keepers(i) == {n \in DOMAIN sides : i \in Matched(sides[n].kept)}
<1>1. PICK i : Keepers(i) # {} /\ c = CHOOSE x \in sides[Min(Keepers(i))].kept : MatchedBy(domain, x) = i
  BY DEF Shared
<1>2. Keepers(i) \in SUBSET Nat
  OBVIOUS
<1> DEFINE n == Min(Keepers(i))
<1>3. n \in Keepers(i)
  <2> HIDE DEF Keepers
  <2> QED BY <1>1, <1>2, LeastIsOne
<1>4. n \in DOMAIN sides /\ \E x \in sides[n].kept : MatchedBy(domain, x) = i
  BY <1>3
<1>5. c = CHOOSE x \in sides[n].kept : MatchedBy(domain, x) = i
  BY <1>1
<1> HIDE DEF n
<1> QED BY <1>4, <1>5

LEMMA SharedAside ==
  ASSUME NEW domain, NEW sides
  PROVE  Shared(domain, sides).suppressed \subseteq sides[1].suppressed
BY DEF Shared

LEMMA SharedListIsListed ==
  ASSUME NEW domain, NEW lists
  PROVE  \/ SharedList(domain, lists) = None
         \/ /\ SharedList(domain, lists) # None
            /\ \A n \in DOMAIN lists : lists[n] # None
            /\ SharedList(domain, lists)[1] \subseteq lists[1][1]
BY SomeIsNotNone DEF SharedList

LEMMA SharedByTells ==
  ASSUME NEW fs
  PROVE  LET d == SharedBy(fs)
             Each(field) == [n \in DOMAIN fs |-> fs[n][field]]
         IN  /\ d.registry = Shared("registry", [n \in DOMAIN fs |->
                                [kept |-> fs[n].registry, suppressed |-> {}]]).kept
             /\ d.files = Shared("filesystem", [n \in DOMAIN fs |->
                                [kept |-> fs[n].files, suppressed |-> fs[n].suppressed_files]]).kept
             /\ d.suppressed_files = Shared("filesystem", [n \in DOMAIN fs |->
                                [kept |-> fs[n].files, suppressed |-> fs[n].suppressed_files]]).suppressed
             /\ d.coverage = CoverageOfAll(Each("coverage"))
BY DEF SharedBy

LEMMA SharedByLists ==
  ASSUME NEW fs
  PROVE  LET d == SharedBy(fs)
             Each(field) == [n \in DOMAIN fs |-> fs[n][field]]
         IN  /\ d.emptied_directories = SharedList("filesystem", Each("emptied_directories"))
             /\ d.formerly_empty_directories = SharedList("filesystem", Each("formerly_empty_directories"))
             /\ d.emptied_keys = SharedList("registry", Each("emptied_keys"))
             /\ d.formerly_empty_keys = SharedList("registry", Each("formerly_empty_keys"))
BY DEF SharedBy

LEMMA SharedIsClean ==
  ASSUME NEW policy, NEW fs, NEW m \in Nat, m >= 1, DOMAIN fs = 1..m,
         \A n \in DOMAIN fs : CleanDiff(policy, fs[n])
  PROVE  CleanDiff(policy, SharedBy(fs))
<1> DEFINE d == SharedBy(fs)
           Each(field) == [n \in DOMAIN fs |-> fs[n][field]]
           keys == [n \in DOMAIN fs |-> [kept |-> fs[n].registry, suppressed |-> {}]]
           files == [n \in DOMAIN fs |-> [kept |-> fs[n].files, suppressed |-> fs[n].suppressed_files]]
<1>0. 1 \in DOMAIN fs
  OBVIOUS
<1>1. /\ d.registry = Shared("registry", keys).kept
      /\ d.files = Shared("filesystem", files).kept
      /\ d.suppressed_files = Shared("filesystem", files).suppressed
      /\ d.coverage = CoverageOfAll(Each("coverage"))
  BY SharedByTells
<1>2. /\ d.emptied_directories = SharedList("filesystem", Each("emptied_directories"))
      /\ d.formerly_empty_directories = SharedList("filesystem", Each("formerly_empty_directories"))
      /\ d.emptied_keys = SharedList("registry", Each("emptied_keys"))
      /\ d.formerly_empty_keys = SharedList("registry", Each("formerly_empty_keys"))
  BY SharedByLists
<1> HIDE DEF d
<1>3. ASSUME NEW c \in d.registry PROVE CleanChange(policy, c)
  <2>1. PICK n \in DOMAIN keys : c \in keys[n].kept
    <3>1. DOMAIN keys = 1..m
      OBVIOUS
    <3> HIDE DEF keys
    <3> QED BY <1>1, <1>3, <3>1, SharedIsTold
  <2>2. n \in DOMAIN fs /\ c \in fs[n].registry
    BY <2>1
  <2> QED BY <2>2 DEF CleanDiff
<1>4. ASSUME NEW c \in FilesTold(d) PROVE CleanFile(policy, c)
  <2>1. CASE c \in d.files
    <3>1. PICK n \in DOMAIN files : c \in files[n].kept
      <4>1. DOMAIN files = 1..m
        OBVIOUS
      <4> HIDE DEF files
      <4> QED BY <1>1, <2>1, <4>1, SharedIsTold
    <3>2. n \in DOMAIN fs /\ c \in fs[n].files
      BY <3>1
    <3> QED BY <3>2 DEF CleanDiff, FilesTold
  <2>2. CASE c \in d.suppressed_files
    <3>1. c \in files[1].suppressed
      <4> HIDE DEF files
      <4> QED BY <1>1, <2>2, SharedAside
    <3>2. c \in fs[1].suppressed_files
      BY <1>0, <3>1
    <3> QED BY <1>0, <3>2 DEF CleanDiff, FilesTold
  <2> QED BY <1>4, <2>1, <2>2 DEF FilesTold
<1>5. ASSUME NEW x \in d.coverage.access_denied PROVE ~ExcludesDenied(policy, x)
  <2>1. PICK n \in DOMAIN fs : x \in fs[n].coverage.access_denied
    BY <1>1, <1>5 DEF CoverageOfAll
  <2> QED BY <2>1 DEF CleanDiff
<1>6. ASSUME NEW field, CleanDirectories(policy, fs[1][field])
      PROVE  CleanDirectories(policy, SharedList("filesystem", Each(field)))
  <2>1. Each(field)[1] = fs[1][field] /\ 1 \in DOMAIN Each(field)
    BY <1>0
  <2> HIDE DEF Each
  <2> QED BY <1>6, <2>1, SharedListIsListed DEF CleanDirectories
<1>7. ASSUME NEW field, CleanKeys(policy, fs[1][field])
      PROVE  CleanKeys(policy, SharedList("registry", Each(field)))
  <2>1. Each(field)[1] = fs[1][field] /\ 1 \in DOMAIN Each(field)
    BY <1>0
  <2> HIDE DEF Each
  <2> QED BY <1>7, <2>1, SharedListIsListed DEF CleanKeys
<1>8. CleanDiff(policy, fs[1])
  BY <1>0
<1>9. CleanDirectories(policy, d.emptied_directories) /\ CleanDirectories(policy, d.formerly_empty_directories)
  <2> HIDE DEF Each
  <2> QED BY <1>2, <1>6, <1>8 DEF CleanDiff
<1>10. CleanKeys(policy, d.emptied_keys) /\ CleanKeys(policy, d.formerly_empty_keys)
  <2> HIDE DEF Each
  <2> QED BY <1>2, <1>7, <1>8 DEF CleanDiff
<1>11. CleanDiff(policy, d)
  BY <1>3, <1>4, <1>5, <1>9, <1>10 DEF CleanDiff
<1> QED BY <1>11 DEF d

-------------------------------------------------------------------------------
(* The inductive invariant.  A snapshot being taken, by its step.           *)

IsSeq(s) == s \in Seq(Range(s))
OptionalInt(o) == o = None \/ (o = Some(o[1]) /\ o[1] \in Int)
OptionalList(o) == o = None \/ (o = Some(o[1]) /\ IsFiniteSet(o[1]))
AreServices(records) == \A r \in records : DOMAIN r = ServiceFields

Steps           == {"services", "filesystem", "contents", "registry"}
AfterServices   == {"filesystem", "contents", "registry"}
AfterFilesystem == {"contents", "registry"}

Begun ==
  /\ {"build", "taken", "boot", "entries", "enumerated"} \subseteq DOMAIN capture
  /\ OptionalInt(capture.boot)
ServicesTaken ==
  /\ {"services", "configured"} \subseteq DOMAIN capture
  /\ AreServices(capture.services.services)
Walked ==
  /\ {"files", "gaps", "roots", "libraries", "listed"} \subseteq DOMAIN capture
  /\ IsFiniteSet(capture.files.files) /\ IsFiniteSet(capture.files.empty)
ContentsRead ==
  /\ {"opened", "records"} \subseteq DOMAIN capture
  /\ IsFiniteSet(capture.records)

CaptureHeld ==
  /\ phase \in {"idle"} \cup Steps
  /\ (phase = "idle") = (capture = <<>>)
  /\ phase \in Steps => Begun /\ Len(snapshots) < CycleLength /\ diffs = <<>>
  /\ phase \in AfterServices => ServicesTaken
  /\ phase \in AfterFilesystem => Walked
  /\ phase = "registry" => ContentsRead

(* What was written.                                                        *)
Measured(s) ==
  /\ IsFiniteSet(s.registry) /\ \A r \in s.registry : IsFiniteSet(r.values)
  /\ IsFiniteSet(s.files) /\ AreServices(s.services)
  /\ OptionalInt(s.boot_session)
  /\ OptionalList(s.file_empty_directories) /\ OptionalList(s.registry_empty_keys)

SnapshotsHeld ==
  /\ IsSeq(snapshots) /\ IsSeq(seen) /\ Len(snapshots) = Len(seen)
  /\ Len(snapshots) <= CycleLength
  /\ \A n \in DOMAIN snapshots : SnapshotShape(snapshots[n]) /\ Measured(snapshots[n])

(* A diff is what compare made of two snapshots of the cycle, until the     *)
(* current build writes it over.                                            *)
DiffHeld(e) ==
  /\ DOMAIN e = {"run", "by", "diff"}
  /\ \E r \in DOMAIN DiffRuns : e.run = DiffRuns[r]
  /\ e.by \in {e.run.build, CurrentBuild}
  /\ e.by = e.run.build => e.diff = DiffOf(e.run)
  /\ ComparisonFails(snapshots[e.run.before], snapshots[e.run.after]) = "no"
  /\ DiffShape(e.diff) /\ e.diff.format_version \in {1, DiffFormat}
  /\ e.by = CurrentBuild => CleanDiff(Policy, e.diff)

DiffsHeld ==
  /\ IsSeq(diffs) /\ Len(diffs) <= MaxDiffs
  /\ diffs # <<>> => Len(snapshots) = CycleLength
  /\ \A n \in DOMAIN diffs : DiffHeld(diffs[n])
  /\ common # None => CleanDiff(Policy, common[1])

MachineHeld ==
  /\ machine \in Machines
  /\ started \in Nat /\ now \in Nat /\ changes \in Nat /\ changes <= MaxChanges

Held == MachineHeld /\ CaptureHeld /\ SnapshotsHeld /\ DiffsHeld

-------------------------------------------------------------------------------
(* What the collectors return is finite, and a service's record has every   *)
(* field.                                                                   *)

LEMMA FiniteImage ==
  ASSUME NEW S, IsFiniteSet(S), NEW f, f = [x \in S |-> f[x]]
  PROVE  IsFiniteSet({f[x] : x \in S})
<1> DEFINE T == {f[x] : x \in S}
<1>1. f \in Surjection(S, T)
  BY DEF Surjection
<1> QED BY <1>1, FS_Surjection

LEMMA FiniteUnion ==
  ASSUME NEW S, IsFiniteSet(S), NEW f, f = [x \in S |-> f[x]], \A x \in S : IsFiniteSet(f[x])
  PROVE  IsFiniteSet(UNION {f[x] : x \in S})
<1>1. IsFiniteSet({f[x] : x \in S})
  BY FiniteImage
<1> QED BY <1>1, FS_UNION

LEMMA FinitePart ==
  ASSUME NEW S, IsFiniteSet(S), NEW T, T \subseteq S
  PROVE  IsFiniteSet(T)
BY FS_Subset

LEMMA ServicesAreRead ==
  ASSUME NEW entries, NEW services, \A s \in services : DOMAIN s.record = ServiceFields
  PROVE  AreServices(ReadServices(entries, services).services)
<1>1. ASSUME NEW e \in entries, NEW r \in Configuration(e, services)
      PROVE  DOMAIN r = ServiceFields
  BY <1>1 DEF Configuration
<1>2. ReadServices(entries, services).services = UNION {Configuration(e, services) : e \in entries}
  BY DEF ReadServices
<1> QED BY <1>1, <1>2 DEF AreServices

LEMMA FilesAreListed ==
  ASSUME NEW policy, NEW nodes, NEW roots, IsFiniteSet(nodes)
  PROVE  /\ IsFiniteSet(ListFiles(policy, nodes, roots).files)
         /\ IsFiniteSet(ListFiles(policy, nodes, roots).empty)
<1> DEFINE record == [n \in nodes |-> [path |-> n.path, size |-> n.size, modified_utc |-> n.modified]]
           path   == [n \in nodes |-> n.path]
<1>1. IsFiniteSet({record[n] : n \in nodes}) /\ IsFiniteSet({path[n] : n \in nodes})
  BY FiniteImage
<1>2. ListFiles(policy, nodes, roots).files \subseteq {record[n] : n \in nodes}
  BY DEF ListFiles
<1>3. ListFiles(policy, nodes, roots).empty \subseteq {path[n] : n \in nodes}
  BY DEF ListFiles, TopmostEmpty
<1> QED BY <1>1, <1>2, <1>3, FinitePart

LEMMA ValuesAreRead ==
  ASSUME NEW policy, NEW values, values \in Seq(Range(values))
  PROVE  IsFiniteSet(ReadValues(policy, values).values)
<1> DEFINE record == [v \in Range(values) |->
             [name |-> v.name, kind |-> v.kind,
              data |-> IF v.reads = "whole" THEN v.data ELSE "",
              oversized |-> IF v.reads = "whole" THEN None ELSE Some(v.size)]]
           stopping == {i \in DOMAIN values : values[i].reads = "stops"}
           until == IF \E i \in DOMAIN values : values[i].reads = "stops"
                    THEN CHOOSE i \in DOMAIN values :
                               /\ values[i].reads = "stops"
                               /\ \A j \in 1..(i - 1) : values[j].reads # "stops"
                    ELSE Len(values) + 1
           got == {values[i] : i \in 1..(until - 1)}
<1>1. DOMAIN values = 1..Len(values) /\ Len(values) \in Nat
  OBVIOUS
<1>2. until \in Int /\ 1..(until - 1) \subseteq DOMAIN values
  <2>1. CASE stopping = {}
    BY <1>1, <2>1
  <2>2. CASE stopping # {}
    <3>1. stopping \in SUBSET Nat
      BY <1>1
    <3>2. PICK i \in stopping : \A k \in stopping : i <= k
      <4> HIDE DEF stopping
      <4> QED BY <2>2, <3>1, LeastNatural
    <3>3. \A j \in 1..(i - 1) : values[j].reads # "stops"
      <4>1. ASSUME NEW j \in 1..(i - 1), values[j].reads = "stops" PROVE FALSE
        <5>1. j \in DOMAIN values
          BY <1>1, <3>2
        <5> QED BY <3>1, <3>2, <4>1, <5>1
      <4> QED BY <4>1
    <3>4. until \in DOMAIN values
      BY <2>2, <3>2, <3>3
    <3> HIDE DEF until
    <3> QED BY <1>1, <3>4
  <2> QED BY <2>1, <2>2
<1>3. IsFiniteSet(Range(values))
  <2>1. IsFiniteSet(DOMAIN values)
    BY <1>1, FS_Interval
  <2>2. values = [i \in DOMAIN values |-> values[i]]
    OBVIOUS
  <2>3. IsFiniteSet({values[i] : i \in DOMAIN values})
    BY <2>1, <2>2, FiniteImage
  <2> QED BY <2>3 DEF Range
<1>4. got \subseteq Range(values)
  <2> HIDE DEF until
  <2> QED BY <1>2 DEF Range
<1>5. IsFiniteSet({record[v] : v \in Range(values)})
  <2>1. record = [v \in Range(values) |-> record[v]]
    OBVIOUS
  <2> HIDE DEF record
  <2> QED BY <1>3, <2>1, FiniteImage
<1>6. ReadValues(policy, values).values \subseteq {record[v] : v \in got}
  <2>1. ASSUME NEW x \in ReadValues(policy, values).values
        PROVE  \E v \in got : /\ v.reads \in {"whole", "oversized"}
                              /\ x = [name |-> v.name, kind |-> v.kind,
                                      data |-> IF v.reads = "whole" THEN v.data ELSE "",
                                      oversized |-> IF v.reads = "whole" THEN None ELSE Some(v.size)]
    BY <2>1, Zenon DEF ReadValues
  <2>2. \A v \in got : v \in Range(values)
    <3> HIDE DEF got
    <3> QED BY <1>4
  <2> HIDE DEF got
  <2> QED BY <2>1, <2>2
<1>7. ReadValues(policy, values).values \subseteq {record[v] : v \in Range(values)}
  <2> HIDE DEF got, record
  <2> QED BY <1>4, <1>6
<1> HIDE DEF record
<1> QED BY <1>5, <1>7, FinitePart

HasValues(keys) == \A k \in keys : k.values \in Seq(Range(k.values))

LEMMA WalksAreFinite ==
  ASSUME NEW policy, NEW keys, NEW root, NEW view, IsFiniteSet(keys), HasValues(keys)
  PROVE  LET walk == WalkRegistry(policy, keys, root, view)
         IN  /\ IsFiniteSet(walk.records) /\ IsFiniteSet(walk.empty)
             /\ \A r \in walk.records : IsRecord(r) /\ IsFiniteSet(r.values)
<1> DEFINE walk == WalkRegistry(policy, keys, root, view)
           record == [k \in keys |-> [key |-> k.key, view |-> view,
                                      values |-> ReadValues(policy, k.values).values]]
           path   == [k \in keys |-> [key |-> k.key, view |-> view]]
<1>1. IsFiniteSet({record[k] : k \in keys}) /\ IsFiniteSet({path[k] : k \in keys})
  <2>1. record = [k \in keys |-> record[k]] /\ path = [k \in keys |-> path[k]]
    OBVIOUS
  <2> HIDE DEF record, path
  <2> QED BY <2>1, FiniteImage
<1>2. walk.records \subseteq {record[k] : k \in keys}
  BY DEF WalkRegistry
<1>3. walk.empty \subseteq {path[k] : k \in keys}
  BY DEF WalkRegistry, TopmostEmpty
<1>4. ASSUME NEW k \in keys PROVE IsRecord(record[k]) /\ IsFiniteSet(record[k].values)
  <2>1. record[k] = [key |-> k.key, view |-> view, values |-> ReadValues(policy, k.values).values]
    OBVIOUS
  <2>2. IsFiniteSet(ReadValues(policy, k.values).values)
    BY ValuesAreRead DEF HasValues
  <2> HIDE DEF record
  <2> QED BY <2>1, <2>2 DEF IsRecord
<1> HIDE DEF walk, record, path
<1>5. /\ IsFiniteSet(walk.records) /\ IsFiniteSet(walk.empty)
      /\ \A r \in walk.records : IsRecord(r) /\ IsFiniteSet(r.values)
  BY <1>1, <1>2, <1>3, <1>4, FinitePart
<1> QED BY <1>5 DEF walk

LEMMA RegistryIsRead ==
  ASSUME NEW policy, NEW keys, IsFiniteSet(keys), HasValues(keys)
  PROVE  LET registry == CaptureRegistry(policy, keys)
         IN  /\ IsFiniteSet(registry.records) /\ IsFiniteSet(registry.empty)
             /\ \A r \in registry.records : IsRecord(r) /\ IsFiniteSet(r.values)
<1> DEFINE walk == [p \in RegistryRoots \X View |-> WalkRegistry(policy, keys, p[1], p[2])]
           walks == {walk[p] : p \in RegistryRoots \X View}
           registry == CaptureRegistry(policy, keys)
<1>1. IsFiniteSet(RegistryRoots \X View)
  <2>1. IsFiniteSet(RegistryRoots)
    BY ObservationAssumption
  <2>2. View = {"32"} \cup {"64"}
    BY DEF View
  <2>3. IsFiniteSet({"32"}) /\ IsFiniteSet({"64"})
    BY FS_Singleton
  <2>4. IsFiniteSet(View)
    BY <2>2, <2>3, FS_Union
  <2> QED BY <2>1, <2>4, FS_Product
<1>2. IsFiniteSet(walks)
  <2>1. walk = [p \in RegistryRoots \X View |-> walk[p]]
    OBVIOUS
  <2> HIDE DEF walk
  <2> QED BY <1>1, <2>1, FiniteImage
<1>3. registry.records = UNION {w.records : w \in walks} /\ registry.empty = UNION {w.empty : w \in walks}
  <2> DEFINE made == {WalkRegistry(policy, keys, root, view) : root \in RegistryRoots, view \in View}
  <2>1. made = walks
    <3>1. ASSUME NEW root \in RegistryRoots, NEW view \in View
          PROVE  WalkRegistry(policy, keys, root, view) \in walks
      <4>1. walk[<<root, view>>] = WalkRegistry(policy, keys, root, view)
        OBVIOUS
      <4> HIDE DEF walk
      <4> QED BY <4>1
    <3>2. ASSUME NEW p \in RegistryRoots \X View PROVE walk[p] \in made
      <4>1. walk[p] = WalkRegistry(policy, keys, p[1], p[2])
        OBVIOUS
      <4> HIDE DEF walk
      <4> QED BY <4>1
    <3>3. made \subseteq walks
      <4> HIDE DEF walks
      <4> QED BY <3>1
    <3>4. walks \subseteq made
      <4> HIDE DEF made, walk
      <4> QED BY <3>2
    <3> QED BY <3>3, <3>4
  <2> HIDE DEF walks
  <2> QED BY <2>1 DEF CaptureRegistry
<1>4. ASSUME NEW w \in walks
      PROVE  /\ IsFiniteSet(w.records) /\ IsFiniteSet(w.empty)
             /\ \A r \in w.records : IsRecord(r) /\ IsFiniteSet(r.values)
  <2>1. PICK p \in RegistryRoots \X View : w = WalkRegistry(policy, keys, p[1], p[2])
    BY <1>4
  <2> QED BY <2>1, WalksAreFinite
<1> HIDE DEF walks, registry
<1>6. IsFiniteSet(UNION {w.records : w \in walks})
  <2> DEFINE part == [w \in walks |-> w.records]
  <2>1. part = [w \in walks |-> part[w]] /\ {w.records : w \in walks} = {part[w] : w \in walks}
    OBVIOUS
  <2>2. \A w \in walks : IsFiniteSet(part[w])
    BY <1>4
  <2>3. IsFiniteSet(UNION {part[w] : w \in walks})
    <3> HIDE DEF part, walks
    <3> QED BY <1>2, <2>1, <2>2, FiniteUnion
  <2> QED BY <2>1, <2>3
<1>7. IsFiniteSet(UNION {w.empty : w \in walks})
  <2> DEFINE part == [w \in walks |-> w.empty]
  <2>1. part = [w \in walks |-> part[w]] /\ {w.empty : w \in walks} = {part[w] : w \in walks}
    OBVIOUS
  <2>2. \A w \in walks : IsFiniteSet(part[w])
    BY <1>4
  <2>3. IsFiniteSet(UNION {part[w] : w \in walks})
    <3> HIDE DEF part, walks
    <3> QED BY <1>2, <2>1, <2>2, FiniteUnion
  <2> QED BY <2>1, <2>3
<1>8. \A r \in registry.records : IsRecord(r) /\ IsFiniteSet(r.values)
  BY <1>3, <1>4
<1>9. IsFiniteSet(registry.records) /\ IsFiniteSet(registry.empty)
  BY <1>3, <1>6, <1>7
<1> QED BY <1>8, <1>9 DEF registry

-------------------------------------------------------------------------------
(* Sequences of whatever they hold.                                         *)

LEMMA SeqShape ==
  ASSUME NEW s, IsSeq(s)
  PROVE  Len(s) \in Nat /\ DOMAIN s = 1..Len(s) /\ (s # <<>> <=> Len(s) # 0)
BY DEF IsSeq

LEMMA SeqAppend ==
  ASSUME NEW s, IsSeq(s), NEW x, NEW t, t = Append(s, x)
  PROVE  /\ IsSeq(t) /\ Len(t) = Len(s) + 1 /\ t # <<>>
         /\ DOMAIN t = 1..(Len(s) + 1)
         /\ \A i \in DOMAIN s : t[i] = s[i]
         /\ t[Len(s) + 1] = x
<1> DEFINE S == Range(s) \cup {x}
<1>1. s \in Seq(S) /\ x \in S
  BY DEF IsSeq
<1>2. /\ t \in Seq(S) /\ Len(t) = Len(s) + 1 /\ t # <<>>
      /\ \A i \in 1..Len(s) : t[i] = s[i]
      /\ t[Len(s) + 1] = x
  <2> HIDE DEF S
  <2> QED BY <1>1, AppendProperties
<1>3. Len(s) \in Nat /\ DOMAIN s = 1..Len(s)
  BY SeqShape
<1>4. DOMAIN t = 1..(Len(s) + 1)
  <2> HIDE DEF S
  <2> QED BY <1>2
<1>5. t \in Seq(Range(t))
  <2> HIDE DEF S
  <2> QED BY <1>2 DEF Range
<1> QED BY <1>2, <1>3, <1>4, <1>5 DEF IsSeq

LEMMA SeqListed ==
  ASSUME NEW S, NEW m \in Nat, NEW t, t = [i \in 1..m |-> t[i]], \A i \in 1..m : t[i] \in S
  PROVE  t \in Seq(S)
<1>1. t \in [1..m -> S]
  OBVIOUS
<1> QED BY <1>1

LEMMA SeqReplace ==
  ASSUME NEW s, IsSeq(s), NEW n \in DOMAIN s, NEW x, NEW t, t = [s EXCEPT ![n] = x]
  PROVE  /\ IsSeq(t) /\ Len(t) = Len(s) /\ DOMAIN t = DOMAIN s
         /\ t[n] = x /\ \A i \in DOMAIN s : i # n => t[i] = s[i]
<1>1. Len(s) \in Nat /\ DOMAIN s = 1..Len(s)
  BY SeqShape
<1>2. DOMAIN t = 1..Len(s) /\ t = [i \in 1..Len(s) |-> t[i]]
  BY <1>1
<1> DEFINE m == Len(s)
           S == Range(t)
<1>3. \A i \in 1..m : t[i] \in S
  BY <1>2 DEF Range
<1>4. t \in Seq(S) /\ Len(t) = m
  <2>1. m \in Nat /\ t = [i \in 1..m |-> t[i]]
    BY <1>1, <1>2
  <2> HIDE DEF m, S
  <2>2. t \in Seq(S)
    BY <1>3, <2>1, SeqListed
  <2>3. Len(t) = m
    BY <2>1, <2>2
  <2> QED BY <2>2, <2>3
<1> QED BY <1>1, <1>2, <1>4 DEF IsSeq

LEMMA SeqOfNothing == IsSeq(<<>>) /\ Len(<<>>) = 0 /\ DOMAIN <<>> = {}
<1>1. <<>> \in Seq(Range(<<>>))
  OBVIOUS
<1>2. Len(<<>>) = 0
  OBVIOUS
<1>3. DOMAIN <<>> = {}
  OBVIOUS
<1>4. IsSeq(<<>>)
  BY <1>1, Zenon DEF IsSeq
<1> QED BY <1>2, <1>3, <1>4, Zenon

-------------------------------------------------------------------------------
(* Every step keeps the invariant.                                          *)

LEMMA Bounds ==
  /\ CycleLength \in Nat /\ MaxDiffs \in Nat /\ MaxChanges \in Nat /\ WalkMinutes \in Nat
  /\ BootTolerance \in Nat
BY ObservationAssumption

LEMMA InitHeld ==
  ASSUME Init
  PROVE  Held
<1>1. MachineHeld
  BY ObservationAssumption DEF Init, MachineHeld
<1>2. CaptureHeld
  BY DEF Init, CaptureHeld, Steps, AfterServices, AfterFilesystem
<1>3. SnapshotsHeld
  <2>1. snapshots = <<>> /\ seen = <<>>
    BY DEF Init
  <2>2. /\ IsSeq(snapshots) /\ IsSeq(seen) /\ Len(snapshots) = 0 /\ Len(seen) = 0
        /\ DOMAIN snapshots = {}
    BY <2>1, SeqOfNothing, Zenon
  <2> QED BY <2>2, Bounds DEF SnapshotsHeld
<1>4. DiffsHeld
  <2>1. diffs = <<>> /\ common = None
    BY DEF Init
  <2>2. IsSeq(diffs) /\ Len(diffs) = 0 /\ DOMAIN diffs = {}
    BY <2>1, SeqOfNothing, Zenon
  <2> QED BY <2>1, <2>2, Bounds DEF DiffsHeld
<1> QED BY <1>1, <1>2, <1>3, <1>4 DEF Held

LEMMA WrittenStays ==
  ASSUME SnapshotsHeld, DiffsHeld, UNCHANGED <<snapshots, seen, diffs, common>>
  PROVE  SnapshotsHeld' /\ DiffsHeld'
<1>1. SnapshotsHeld'
  BY DEF SnapshotsHeld
<1>2. \A e : DiffHeld(e)' <=> DiffHeld(e)
  BY DEF DiffHeld, DiffOf
<1> QED BY <1>1, <1>2 DEF DiffsHeld

LEMMA CaptureStays ==
  ASSUME CaptureHeld, UNCHANGED <<phase, capture, snapshots, diffs>>
  PROVE  CaptureHeld'
BY DEF CaptureHeld, Begun, ServicesTaken, Walked, ContentsRead

LEMMA CaptureDropped ==
  ASSUME phase' = "idle", capture' = <<>>
  PROVE  CaptureHeld'
BY DEF CaptureHeld, Steps, AfterServices, AfterFilesystem

LEMMA MachineStays ==
  ASSUME MachineHeld, UNCHANGED machineVars
  PROVE  MachineHeld'
BY DEF MachineHeld, machineVars

(* What an earlier step found is still there.                               *)
LEMMA FoundIsKept ==
  ASSUME NEW found, capture' = Step(found)
  PROVE  /\ DOMAIN capture' = DOMAIN found \cup DOMAIN capture
         /\ \A part \in DOMAIN found : capture'[part] = found[part]
         /\ \A part \in DOMAIN capture \ DOMAIN found : capture'[part] = capture[part]
BY DEF Step

LEMMA MachineIsFinite ==
  ASSUME MachineHeld
  PROVE  /\ IsFiniteSet(machine.services) /\ IsFiniteSet(machine.nodes) /\ IsFiniteSet(machine.keys)
         /\ \A s \in machine.services : DOMAIN s.record = ServiceFields
         /\ HasValues(machine.keys)
BY ObservationAssumption DEF MachineHeld, HasValues

LEMMA MachineChangesHeld ==
  ASSUME Held, MachineChanges
  PROVE  Held'
<1>1. MachineHeld'
  BY Bounds DEF Held, MachineHeld, MachineChanges, MachineMayChange
<1>2. CaptureHeld' /\ SnapshotsHeld' /\ DiffsHeld'
  <2>1. UNCHANGED <<phase, capture, snapshots, seen, diffs, common>>
    BY DEF MachineChanges, written
  <2> QED BY <2>1, WrittenStays, CaptureStays DEF Held
<1> QED BY <1>1, <1>2 DEF Held

LEMMA RestartHeld ==
  ASSUME Held, Restart
  PROVE  Held'
<1>1. MachineHeld'
  BY Bounds DEF Held, MachineHeld, Restart, MachineMayChange
<1>2. CaptureHeld'
  BY CaptureDropped DEF Restart
<1>3. SnapshotsHeld' /\ DiffsHeld'
  <2>1. UNCHANGED <<snapshots, seen, diffs, common>>
    BY DEF Restart, written
  <2> QED BY <2>1, WrittenStays DEF Held
<1> QED BY <1>1, <1>2, <1>3 DEF Held

LEMMA BeginSnapshotHeld ==
  ASSUME Held, NEW b \in DOMAIN Builds, BeginSnapshot(b)
  PROVE  Held'
<1>1. MachineHeld'
  BY MachineStays DEF Held, BeginSnapshot
<1>2. SnapshotsHeld' /\ DiffsHeld' /\ UNCHANGED <<snapshots, seen, diffs, common>>
  <2>1. UNCHANGED <<snapshots, seen, diffs, common>>
    BY DEF BeginSnapshot, written
  <2> QED BY <2>1, WrittenStays DEF Held
<1>3. CaptureHeld'
  <2>1. phase' = "services" /\ Len(snapshots) < CycleLength
    BY DEF BeginSnapshot
  <2>2. diffs = <<>>
    BY <2>1, Bounds, SeqShape DEF Held, DiffsHeld, SnapshotsHeld
  <2> DEFINE boot == IF Builds[b].keeps_boot THEN Some(BootInstant(now, now - started)) ELSE None
  <2>3. OptionalInt(boot)
    <3>1. BootInstant(now, now - started) \in Int
      BY DEF BootInstant, Held, MachineHeld
    <3> QED BY <3>1, SomeIsNotNone DEF OptionalInt
  <2>4. capture' = [build |-> Builds[b], taken |-> now, boot |-> boot,
                    entries |-> EnumerateServices(machine.services),
                    enumerated |-> machine.services]
    BY DEF BeginSnapshot
  <2> HIDE DEF boot
  <2>5. DOMAIN capture' = {"build", "taken", "boot", "entries", "enumerated"} /\ capture'.boot = boot
    BY <2>4
  <2>6. capture' # <<>>
    BY <2>5
  <2>7. Begun'
    BY <2>3, <2>5 DEF Begun
  <2> QED BY <1>2, <2>1, <2>2, <2>6, <2>7 DEF CaptureHeld, Steps, AfterServices, AfterFilesystem
<1> QED BY <1>1, <1>2, <1>3 DEF Held

LEMMA ServicesFailHeld ==
  ASSUME Held, ServicesFail
  PROVE  Held'
<1>1. MachineHeld'
  BY MachineStays DEF Held, ServicesFail
<1>2. CaptureHeld'
  BY CaptureDropped DEF ServicesFail
<1>3. SnapshotsHeld' /\ DiffsHeld'
  <2>1. UNCHANGED <<snapshots, seen, diffs, common>>
    BY DEF ServicesFail, written
  <2> QED BY <2>1, WrittenStays DEF Held
<1> QED BY <1>1, <1>2, <1>3 DEF Held

LEMMA TakeServicesHeld ==
  ASSUME Held, TakeServices
  PROVE  Held'
<1>1. MachineHeld'
  BY MachineStays DEF Held, TakeServices
<1>2. SnapshotsHeld' /\ DiffsHeld' /\ UNCHANGED <<snapshots, seen, diffs, common>>
  <2>1. UNCHANGED <<snapshots, seen, diffs, common>>
    BY DEF TakeServices, written
  <2> QED BY <2>1, WrittenStays DEF Held
<1>3. CaptureHeld'
  <2> DEFINE read == ReadServices(capture.entries, machine.services)
             found == [services |-> read, configured |-> machine.services]
  <2>1. phase = "services" /\ phase' = "filesystem" /\ capture' = Step(found)
    BY DEF TakeServices
  <2>2. Begun /\ Len(snapshots) < CycleLength /\ diffs = <<>>
    BY <2>1 DEF Held, CaptureHeld, Steps
  <2>3. AreServices(read.services)
    BY MachineIsFinite, ServicesAreRead DEF Held
  <2> HIDE DEF read
  <2>4. DOMAIN found = {"services", "configured"} /\ found.services = read
    OBVIOUS
  <2> HIDE DEF found
  <2>5. /\ DOMAIN capture' = {"services", "configured"} \cup DOMAIN capture
        /\ capture'.services = read /\ capture'.boot = capture.boot
    BY <2>1, <2>2, <2>4, FoundIsKept DEF Begun
  <2>6. Begun' /\ ServicesTaken'
    BY <2>2, <2>3, <2>5 DEF Begun, ServicesTaken
  <2>7. capture' # <<>>
    BY <2>5
  <2> QED BY <1>2, <2>1, <2>2, <2>6, <2>7 DEF CaptureHeld, Steps, AfterServices, AfterFilesystem
<1> QED BY <1>1, <1>2, <1>3 DEF Held

LEMMA WalkFilesystemHeld ==
  ASSUME Held, WalkFilesystem
  PROVE  Held'
<1>1. MachineHeld'
  BY Bounds DEF Held, MachineHeld, WalkFilesystem
<1>2. SnapshotsHeld' /\ DiffsHeld' /\ UNCHANGED <<snapshots, seen, diffs, common>>
  <2>1. UNCHANGED <<snapshots, seen, diffs, common>>
    BY DEF WalkFilesystem, written
  <2> QED BY <2>1, WrittenStays DEF Held
<1>3. CaptureHeld'
  <2>1. PICK libraries, roots :
          /\ phase = "filesystem" /\ phase' = "contents"
          /\ capture' = Step([files |-> ListFiles(capture.build.policy, machine.nodes, roots),
                              gaps |-> libraries.gaps, roots |-> roots,
                              libraries |-> libraries.present, listed |-> machine.nodes])
    BY Zenon DEF WalkFilesystem
  <2> DEFINE files == ListFiles(capture.build.policy, machine.nodes, roots)
             found == [files |-> files, gaps |-> libraries.gaps, roots |-> roots,
                       libraries |-> libraries.present, listed |-> machine.nodes]
  <2>2. Begun /\ ServicesTaken /\ Len(snapshots) < CycleLength /\ diffs = <<>>
    BY <2>1 DEF Held, CaptureHeld, Steps, AfterServices
  <2>3. IsFiniteSet(files.files) /\ IsFiniteSet(files.empty)
    BY MachineIsFinite, FilesAreListed DEF Held
  <2> HIDE DEF files
  <2>4. DOMAIN found = {"files", "gaps", "roots", "libraries", "listed"} /\ found.files = files
    OBVIOUS
  <2>5. capture' = Step(found)
    BY <2>1 DEF files
  <2> HIDE DEF found
  <2>6. /\ DOMAIN capture' = {"files", "gaps", "roots", "libraries", "listed"} \cup DOMAIN capture
        /\ capture'.files = files /\ capture'.boot = capture.boot
        /\ capture'.services = capture.services
    <3>1. "boot" \in DOMAIN capture /\ "services" \in DOMAIN capture
      BY <2>2 DEF Begun, ServicesTaken
    <3>2. "files" \in DOMAIN found /\ "boot" \notin DOMAIN found /\ "services" \notin DOMAIN found
      BY <2>4
    <3>3. /\ DOMAIN capture' = DOMAIN found \cup DOMAIN capture
          /\ \A part \in DOMAIN found : capture'[part] = found[part]
          /\ \A part \in DOMAIN capture \ DOMAIN found : capture'[part] = capture[part]
      BY <2>5, FoundIsKept
    <3>4. capture'.files = found.files
      BY <3>2, <3>3
    <3>5. capture'.boot = capture.boot /\ capture'.services = capture.services
      BY <3>1, <3>2, <3>3
    <3> QED BY <2>4, <3>3, <3>4, <3>5
  <2>7. Begun'
    BY <2>2, <2>6 DEF Begun
  <2>8. ServicesTaken'
    BY <2>2, <2>6 DEF ServicesTaken
  <2>9. Walked'
    BY <2>3, <2>6 DEF Walked
  <2>10. capture' # <<>>
    BY <2>6
  <2> QED BY <1>2, <2>1, <2>2, <2>7, <2>8, <2>9, <2>10 DEF CaptureHeld, Steps, AfterServices, AfterFilesystem
<1> QED BY <1>1, <1>2, <1>3 DEF Held

LEMMA ReadContentsHeld ==
  ASSUME Held, ReadContents
  PROVE  Held'
<1>1. MachineHeld'
  BY MachineStays DEF Held, ReadContents
<1>2. SnapshotsHeld' /\ DiffsHeld' /\ UNCHANGED <<snapshots, seen, diffs, common>>
  <2>1. UNCHANGED <<snapshots, seen, diffs, common>>
    BY DEF ReadContents, written
  <2> QED BY <2>1, WrittenStays DEF Held
<1>3. CaptureHeld'
  <2> DEFINE record  == [f \in capture.files.files |-> RecordFile(machine.nodes, f)]
             records == {record[f] : f \in capture.files.files}
             found   == [opened |-> machine.nodes, records |-> records]
  <2>1. phase = "contents" /\ phase' = "registry" /\ capture' = Step(found)
    BY DEF ReadContents
  <2>2. Begun /\ ServicesTaken /\ Walked /\ Len(snapshots) < CycleLength /\ diffs = <<>>
    BY <2>1 DEF Held, CaptureHeld, Steps, AfterServices, AfterFilesystem
  <2>3. IsFiniteSet(records)
    <3>1. record = [f \in capture.files.files |-> record[f]]
      OBVIOUS
    <3> HIDE DEF record
    <3> QED BY <2>2, <3>1, FiniteImage DEF Walked
  <2> HIDE DEF records
  <2>4. DOMAIN found = {"opened", "records"} /\ found.records = records
    OBVIOUS
  <2> HIDE DEF found
  <2>5. /\ DOMAIN capture' = DOMAIN found \cup DOMAIN capture
        /\ \A part \in DOMAIN found : capture'[part] = found[part]
        /\ \A part \in DOMAIN capture \ DOMAIN found : capture'[part] = capture[part]
    BY <2>1, FoundIsKept
  <2>6. capture'.boot = capture.boot
    BY <2>2, <2>4, <2>5 DEF Begun
  <2>7. capture'.services = capture.services
    BY <2>2, <2>4, <2>5 DEF ServicesTaken
  <2>8. capture'.files = capture.files
    BY <2>2, <2>4, <2>5 DEF Walked
  <2>9. capture'.records = records
    BY <2>4, <2>5
  <2>10. DOMAIN capture \subseteq DOMAIN capture'
    BY <2>5
  <2>11. Begun'
    BY <2>2, <2>6, <2>10 DEF Begun
  <2>12. ServicesTaken'
    BY <2>2, <2>7, <2>10 DEF ServicesTaken
  <2>13. Walked'
    BY <2>2, <2>8, <2>10 DEF Walked
  <2>14. ContentsRead' /\ capture' # <<>>
    BY <2>3, <2>4, <2>5, <2>9 DEF ContentsRead
  <2> QED BY <1>2, <2>1, <2>2, <2>11, <2>12, <2>13, <2>14
          DEF CaptureHeld, Steps, AfterServices, AfterFilesystem
<1> QED BY <1>1, <1>2, <1>3 DEF Held

(* What is written is what the steps found, or nothing.                     *)
LEMMA WrittenParts ==
  ASSUME NEW registry, NEW s, s = Written(registry)
  PROVE  /\ s.boot_session = capture.boot
         /\ s.services = {} \/ s.services = capture.services.services
         /\ s.files = {} \/ s.files = capture.records
         /\ s.registry = {} \/ s.registry = registry.records
         /\ s.file_empty_directories = None
            \/ s.file_empty_directories = Some(capture.files.empty)
         /\ s.registry_empty_keys = None \/ s.registry_empty_keys = Some(registry.empty)
BY DEF Written

LEMMA WrittenIsMeasured ==
  ASSUME Held, phase = "registry", NEW policy, NEW s,
         s = Written(CaptureRegistry(policy, machine.keys))
  PROVE  SnapshotShape(s) /\ Measured(s)
<1> DEFINE registry == CaptureRegistry(policy, machine.keys)
<1>1. Begun /\ ServicesTaken /\ Walked /\ ContentsRead
  BY DEF Held, CaptureHeld, Steps, AfterServices, AfterFilesystem
<1>2. /\ IsFiniteSet(registry.records) /\ IsFiniteSet(registry.empty)
      /\ \A r \in registry.records : IsRecord(r) /\ IsFiniteSet(r.values)
  BY MachineIsFinite, RegistryIsRead DEF Held
<1> HIDE DEF registry
<1>3. /\ s.boot_session = capture.boot
      /\ s.services = {} \/ s.services = capture.services.services
      /\ s.files = {} \/ s.files = capture.records
      /\ s.registry = {} \/ s.registry = registry.records
      /\ s.file_empty_directories = None
         \/ s.file_empty_directories = Some(capture.files.empty)
      /\ s.registry_empty_keys = None \/ s.registry_empty_keys = Some(registry.empty)
  BY WrittenParts DEF registry
<1>4. IsFiniteSet(s.registry) /\ IsFiniteSet(s.files)
  BY <1>1, <1>2, <1>3, FS_EmptySet DEF ContentsRead
<1>5. \A r \in s.registry : IsRecord(r) /\ IsFiniteSet(r.values)
  BY <1>2, <1>3
<1>6. AreServices(s.services)
  BY <1>1, <1>3 DEF ServicesTaken, AreServices
<1>7. OptionalInt(s.boot_session)
  BY <1>1, <1>3 DEF Begun
<1>8. OptionalList(s.file_empty_directories) /\ OptionalList(s.registry_empty_keys)
  BY <1>1, <1>2, <1>3, SomeIsNotNone DEF Walked, OptionalList
<1> QED BY <1>4, <1>5, <1>6, <1>7, <1>8 DEF SnapshotShape, Measured

LEMMA FinishSnapshotHeld ==
  ASSUME Held, FinishSnapshot
  PROVE  Held'
<1>1. MachineHeld'
  BY DEF Held, MachineHeld, FinishSnapshot
<1>2. CaptureHeld'
  BY CaptureDropped DEF FinishSnapshot
<1>3. Len(snapshots) < CycleLength /\ diffs = <<>> /\ diffs' = <<>> /\ common' = common
  BY DEF Held, CaptureHeld, Steps, FinishSnapshot
<1>4. SnapshotsHeld'
  <2> DEFINE s == Written(CaptureRegistry(capture.build.policy, machine.keys))
             x == [enumerated |-> capture.enumerated, configured |-> capture.configured,
                   listed |-> capture.listed, opened |-> capture.opened,
                   keys |-> machine.keys, started |-> started, build |-> capture.build]
  <2>1. snapshots' = Append(snapshots, s) /\ seen' = Append(seen, x)
    BY DEF FinishSnapshot
  <2>2. SnapshotShape(s) /\ Measured(s)
    BY WrittenIsMeasured DEF FinishSnapshot
  <2> HIDE DEF s, x
  <2>3. /\ IsSeq(snapshots') /\ Len(snapshots') = Len(snapshots) + 1
        /\ DOMAIN snapshots' = 1..(Len(snapshots) + 1)
        /\ \A i \in DOMAIN snapshots : snapshots'[i] = snapshots[i]
        /\ snapshots'[Len(snapshots) + 1] = s
    <3>1. IsSeq(snapshots) /\ snapshots' = Append(snapshots, s)
      BY <2>1 DEF Held, SnapshotsHeld
    <3>2. IsSeq(snapshots') /\ Len(snapshots') = Len(snapshots) + 1
      BY <3>1, SeqAppend
    <3>3. DOMAIN snapshots' = 1..(Len(snapshots) + 1)
      BY <3>1, SeqAppend
    <3>4. \A i \in DOMAIN snapshots : snapshots'[i] = snapshots[i]
      BY <3>1, SeqAppend
    <3>5. snapshots'[Len(snapshots) + 1] = s
      BY <3>1, SeqAppend
    <3> QED BY <3>2, <3>3, <3>4, <3>5
  <2>4. IsSeq(seen') /\ Len(seen') = Len(seen) + 1
    BY <2>1, SeqAppend DEF Held, SnapshotsHeld
  <2>5. Len(snapshots) \in Nat /\ DOMAIN snapshots = 1..Len(snapshots)
    BY SeqShape DEF Held, SnapshotsHeld
  <2>6. \A n \in DOMAIN snapshots' : n \in DOMAIN snapshots \/ n = Len(snapshots) + 1
    BY <2>3, <2>5
  <2>7. \A n \in DOMAIN snapshots' : SnapshotShape(snapshots'[n]) /\ Measured(snapshots'[n])
    BY <2>2, <2>3, <2>6 DEF Held, SnapshotsHeld
  <2>8. Len(snapshots') <= CycleLength /\ Len(snapshots') = Len(seen')
    BY <1>3, <2>3, <2>4, <2>5, Bounds DEF Held, SnapshotsHeld
  <2> QED BY <2>3, <2>4, <2>7, <2>8 DEF SnapshotsHeld
<1>5. DiffsHeld'
  <2>1. IsSeq(diffs') /\ Len(diffs') = 0 /\ DOMAIN diffs' = {}
    BY <1>3, SeqOfNothing, Zenon
  <2>2. common' # None => CleanDiff(Policy, common'[1])
    BY <1>3 DEF Held, DiffsHeld
  <2>3. 0 <= MaxDiffs
    BY Bounds
  <2> QED BY <1>3, <2>1, <2>2, <2>3 DEF DiffsHeld
<1> QED BY <1>1, <1>2, <1>4, <1>5 DEF Held

(* The commands leave the machine and the snapshots as they are.            *)
LEMMA OnlyTheDiffsChange ==
  ASSUME Held, UNCHANGED <<machineVars, phase, capture, snapshots, seen>>, phase = "idle", DiffsHeld'
  PROVE  Held'
<1>1. MachineHeld'
  BY MachineStays DEF Held
<1>2. CaptureHeld'
  BY CaptureDropped DEF Held, CaptureHeld, Steps
<1>3. SnapshotsHeld'
  BY DEF Held, SnapshotsHeld
<1> QED BY <1>1, <1>2, <1>3 DEF Held

(* Nothing is compared before the cycle is over.                            *)
LEMMA DiffsComeLast ==
  ASSUME Held, diffs # <<>>
  PROVE  phase = "idle"
<1>1. Len(snapshots) = CycleLength
  BY DEF Held, DiffsHeld
<1>2. phase \notin Steps
  BY <1>1, Bounds DEF Held, CaptureHeld
<1> QED BY <1>2 DEF Held, CaptureHeld

LEMMA RunDiffHeld ==
  ASSUME Held, NEW r \in DOMAIN DiffRuns, RunDiff(r)
  PROVE  Held'
<1> DEFINE run == DiffRuns[r]
           e == [run |-> run, by |-> run.build, diff |-> DiffOf(run)]
<1>1. /\ phase = "idle" /\ Len(snapshots) = CycleLength /\ Len(diffs) < MaxDiffs
      /\ ComparisonFails(snapshots[run.before], snapshots[run.after]) = "no"
      /\ diffs' = Append(diffs, e)
      /\ UNCHANGED <<machineVars, phase, capture, snapshots, seen, common>>
  BY DEF RunDiff, CycleIsOver
<1>2. {run.before, run.after} \subseteq DOMAIN snapshots /\ run.build.diff_format \in {1, DiffFormat}
  <2>1. DOMAIN snapshots = 1..CycleLength
    BY <1>1, SeqShape DEF Held, SnapshotsHeld
  <2> QED BY <2>1, ObservationAssumption
<1> DEFINE d == DiffOf(run)
           x == snapshots[run.before]
           y == snapshots[run.after]
<1>3. /\ DiffShape(d) /\ CleanDiff(run.build.policy, d)
      /\ d.format_version = run.build.diff_format
  <2>1. SnapshotShape(x) /\ SnapshotShape(y)
    BY <1>2 DEF Held, SnapshotsHeld
  <2>2. d = Compare(run.build, run.filter, x, y)
    BY DEF DiffOf
  <2> HIDE DEF x, y, d, run
  <2> QED BY <2>1, <2>2, CompareIsClean, CompareTells
<1> HIDE DEF d
<1>4. /\ DOMAIN e = {"run", "by", "diff"}
      /\ e.run = run /\ e.by = run.build /\ e.diff = d
  BY DEF d
<1> HIDE DEF e
<1>5. DiffHeld(e)
  <2>1. \E q \in DOMAIN DiffRuns : e.run = DiffRuns[q]
    BY <1>4
  <2>2. e.by = CurrentBuild => CleanDiff(Policy, e.diff)
    BY <1>3, <1>4 DEF Policy
  <2>3. e.by \in {e.run.build, CurrentBuild} /\ (e.by = e.run.build => e.diff = DiffOf(e.run))
    BY <1>4 DEF d
  <2>4. ComparisonFails(snapshots[e.run.before], snapshots[e.run.after]) = "no"
    BY <1>1, <1>4
  <2>5. DiffShape(e.diff) /\ e.diff.format_version \in {1, DiffFormat}
    BY <1>2, <1>3, <1>4
  <2> HIDE DEF run
  <2> QED BY <1>4, <2>1, <2>2, <2>3, <2>4, <2>5 DEF DiffHeld
<1>6. DiffsHeld'
  <2>1. /\ IsSeq(diffs') /\ Len(diffs') = Len(diffs) + 1
        /\ DOMAIN diffs' = 1..(Len(diffs) + 1)
        /\ \A i \in DOMAIN diffs : diffs'[i] = diffs[i]
        /\ diffs'[Len(diffs) + 1] = e
    <3>1. IsSeq(diffs) /\ diffs' = Append(diffs, e)
      BY <1>1 DEF Held, DiffsHeld
    <3>2. IsSeq(diffs') /\ Len(diffs') = Len(diffs) + 1
      BY <3>1, SeqAppend
    <3>3. DOMAIN diffs' = 1..(Len(diffs) + 1)
      BY <3>1, SeqAppend
    <3>4. \A i \in DOMAIN diffs : diffs'[i] = diffs[i]
      BY <3>1, SeqAppend
    <3>5. diffs'[Len(diffs) + 1] = e
      BY <3>1, SeqAppend
    <3> QED BY <3>2, <3>3, <3>4, <3>5
  <2>2. Len(diffs) \in Nat /\ DOMAIN diffs = 1..Len(diffs)
    BY SeqShape DEF Held, DiffsHeld
  <2>3. \A n \in DOMAIN diffs' : n \in DOMAIN diffs \/ n = Len(diffs) + 1
    BY <2>1, <2>2
  <2>4. \A n \in DOMAIN diffs' : DiffHeld(diffs'[n])
    BY <1>5, <2>1, <2>3 DEF Held, DiffsHeld
  <2>5. \A n \in DOMAIN diffs' : DiffHeld(diffs[n])'
    BY <1>1, <2>4 DEF DiffHeld, DiffOf
  <2>6. Len(diffs') <= MaxDiffs
    BY <1>1, <2>1, <2>2, Bounds
  <2>7. (common # None => CleanDiff(Policy, common[1]))' /\ Len(snapshots') = CycleLength
    BY <1>1 DEF Held, DiffsHeld
  <2> QED BY <2>1, <2>5, <2>6, <2>7 DEF DiffsHeld
<1> QED BY <1>1, <1>6, OnlyTheDiffsChange

LEMMA RunRefilterHeld ==
  ASSUME Held, NEW n \in DOMAIN diffs, RunRefilter(n)
  PROVE  Held'
<1> DEFINE e == diffs[n]
           x == [e EXCEPT !.by = CurrentBuild, !.diff = Refilter(Policy, @)]
<1>1. /\ diffs' = [diffs EXCEPT ![n] = x]
      /\ UNCHANGED <<machineVars, phase, capture, snapshots, seen, common>>
  BY DEF RunRefilter
<1>2. DiffHeld(e)
  BY DEF Held, DiffsHeld
<1> HIDE DEF e
<1>3. /\ DOMAIN x = {"run", "by", "diff"}
      /\ x.run = e.run /\ x.by = CurrentBuild /\ x.diff = Refilter(Policy, e.diff)
  BY <1>2 DEF DiffHeld
<1> HIDE DEF x
<1>4. DiffShape(x.diff) /\ CleanDiff(Policy, x.diff)
  BY <1>2, <1>3, RefilterIsClean DEF DiffHeld
<1>5. x.diff.format_version = DiffFormat
  BY <1>2, <1>3, RefilterTells DEF DiffHeld, DiffShape
<1>6. e.by = e.run.build \/ e.by = CurrentBuild
  BY <1>2 DEF DiffHeld
<1>7. x.by = x.run.build => x.diff = DiffOf(x.run)
  <2>1. e.by # CurrentBuild
    BY DEF RunRefilter, e
  <2> QED BY <1>3, <1>6, <2>1
<1>8. DiffHeld(x)
  BY <1>2, <1>3, <1>4, <1>5, <1>7 DEF DiffHeld
<1>9. /\ IsSeq(diffs') /\ Len(diffs') = Len(diffs) /\ DOMAIN diffs' = DOMAIN diffs
      /\ diffs'[n] = x /\ \A i \in DOMAIN diffs : i # n => diffs'[i] = diffs[i]
  <2>1. IsSeq(diffs) /\ diffs' = [diffs EXCEPT ![n] = x]
    BY <1>1 DEF Held, DiffsHeld
  <2>2. IsSeq(diffs')
    BY <2>1, SeqReplace
  <2>3. Len(diffs') = Len(diffs)
    BY <2>1, SeqReplace
  <2>4. DOMAIN diffs' = DOMAIN diffs
    BY <2>1
  <2>5. diffs'[n] = x
    BY <2>1, SeqReplace
  <2>6. \A i \in DOMAIN diffs : i # n => diffs'[i] = diffs[i]
    BY <2>1, SeqReplace
  <2> QED BY <2>2, <2>3, <2>4, <2>5, <2>6
<1>10. diffs # <<>>
  BY SeqOfNothing, Zenon
<1>11. DiffsHeld'
  <2>1. \A i \in DOMAIN diffs' : DiffHeld(diffs'[i])
    BY <1>8, <1>9 DEF Held, DiffsHeld
  <2>2. \A i \in DOMAIN diffs' : DiffHeld(diffs[i])'
    BY <1>1, <2>1 DEF DiffHeld, DiffOf
  <2>3. (common # None => CleanDiff(Policy, common[1]))' /\ Len(snapshots') = CycleLength
    BY <1>1, <1>10 DEF Held, DiffsHeld
  <2>4. Len(diffs') <= MaxDiffs
    BY <1>9 DEF Held, DiffsHeld
  <2> QED BY <1>9, <2>2, <2>3, <2>4 DEF DiffsHeld
<1> QED BY <1>1, <1>10, <1>11, DiffsComeLast, OnlyTheDiffsChange

LEMMA RunIntersectHeld ==
  ASSUME Held, RunIntersect
  PROVE  Held'
<1> DEFINE m == Len(diffs)
           fs == [n \in 1..m |-> Refilter(Policy, diffs[n].diff)]
<1>1. m \in Nat /\ DOMAIN diffs = 1..m /\ \A n \in DOMAIN diffs : DiffShape(diffs[n].diff)
  BY SeqShape DEF Held, DiffsHeld, DiffHeld
<1>2. Len(Given) = m /\ DOMAIN Given = 1..m /\ \A n \in 1..m : Given[n] = diffs[n].diff
  <2>1. Given = [n \in 1..m |-> diffs[n].diff]
    BY <1>1 DEF Given
  <2>2. DOMAIN Given = 1..m /\ Given = [n \in 1..m |-> Given[n]]
        /\ \A n \in 1..m : Given[n] = diffs[n].diff
    BY <2>1
  <2> HIDE DEF m
  <2>3. Given \in Seq(Range(Given))
    <3>1. \A n \in 1..m : Given[n] \in Range(Given)
      BY <2>2 DEF Range
    <3> QED BY <1>1, <2>2, <3>1, SeqListed
  <2>4. Len(Given) = m
    BY <1>1, <2>2, <2>3
  <2> QED BY <2>2, <2>4
<1> HIDE DEF m
<1>3. m >= 2
  <2>1. IntersectionFails(Given) = "no"
    BY DEF RunIntersect
  <2>2. ~(Len(Given) < 2)
    BY <2>1 DEF IntersectionFails
  <2> QED BY <1>1, <1>2, <2>2
<1>4. AllRefiltered(Policy, Given) = fs
  <2>1. [n \in DOMAIN Given |-> Refilter(Policy, Given[n])] = fs
    BY <1>2
  <2>2. DOMAIN fs = 1..m /\ fs = [n \in 1..m |-> fs[n]]
    OBVIOUS
  <2>3. AllRefiltered(Policy, Given) = <<>> \o fs
    BY <2>1 DEF AllRefiltered
  <2> HIDE DEF fs
  <2>4. fs \in Seq(Range(fs))
    <3>1. \A n \in 1..m : fs[n] \in Range(fs)
      BY <2>2 DEF Range
    <3> QED BY <1>1, <2>2, <3>1, SeqListed
  <2>5. <<>> \o fs = fs
    BY <2>4, ConcatEmptySeq
  <2> QED BY <2>3, <2>5
<1>5. \A n \in 1..m : CleanDiff(Policy, fs[n])
  BY <1>1, RefilterIsClean
<1>6. CleanDiff(Policy, SharedBy(fs))
  <2>1. DOMAIN fs = 1..m
    OBVIOUS
  <2> HIDE DEF fs
  <2> QED BY <1>1, <1>3, <1>5, <2>1, SharedIsClean
<1>7. common' = Some(SharedBy(fs)) /\ UNCHANGED <<machineVars, phase, capture, snapshots, seen, diffs>>
  BY <1>4 DEF RunIntersect, Intersect
<1>8. common' # None => CleanDiff(Policy, common'[1])
  <2> HIDE DEF fs
  <2> QED BY <1>6, <1>7, SomeIsNotNone
<1>9. DiffsHeld'
  <2>1. \A i \in DOMAIN diffs : DiffHeld(diffs[i])'
    BY <1>7 DEF Held, DiffsHeld, DiffHeld, DiffOf
  <2> QED BY <1>7, <1>8, <2>1 DEF Held, DiffsHeld
<1>10. diffs # <<>>
  BY <1>1, <1>3, SeqOfNothing DEF m
<1> QED BY <1>7, <1>9, <1>10, DiffsComeLast, OnlyTheDiffsChange

LEMMA RunSuggestHeld ==
  ASSUME Held, NEW asked, RunSuggest(asked)
  PROVE  Held'
<1>1. UNCHANGED <<machineVars, phase, capture, snapshots, seen, diffs, common>>
  BY DEF RunSuggest
<1>2. SnapshotsHeld' /\ DiffsHeld'
  BY <1>1, WrittenStays DEF Held
<1>3. CaptureHeld'
  BY <1>1, CaptureStays DEF Held
<1>4. MachineHeld'
  BY <1>1, MachineStays DEF Held
<1> QED BY <1>2, <1>3, <1>4 DEF Held

LEMMA NextHeld ==
  ASSUME Held, [Next]_vars
  PROVE  Held'
<1>1. CASE Next
  BY <1>1, MachineChangesHeld, RestartHeld, BeginSnapshotHeld, ServicesFailHeld, TakeServicesHeld,
     WalkFilesystemHeld, ReadContentsHeld, FinishSnapshotHeld, RunDiffHeld, RunRefilterHeld,
     RunIntersectHeld, RunSuggestHeld DEF Next
<1>2. CASE UNCHANGED vars
  <2>1. UNCHANGED <<machineVars, phase, capture, snapshots, seen, diffs, common>>
    BY <1>2 DEF vars, written
  <2> QED BY <2>1, WrittenStays, CaptureStays, MachineStays DEF Held
<1> QED BY <1>1, <1>2

(* Over a whole cycle the snapshots stay finite, every diff is what compare *)
(* made of two of them or what this build made of that, and what this build *)
(* wrote is clean (take_snapshot and the commands that read what it wrote). *)
THEOREM AlwaysHeld == Spec => []Held
<1>1. Init => Held
  BY InitHeld
<1>2. Held /\ [Next]_vars => Held'
  BY NextHeld
<1> QED BY <1>1, <1>2, PTL DEF Spec

(* The variables hold what the harness's types say (TypeOK): the phases are *)
(* those of take_snapshot, and every diff is in a format this build reads.  *)
THEOREM TypeCorrect == Spec => []TypeOK
<1>1. Held => TypeOK
  <2> SUFFICES ASSUME Held PROVE TypeOK
    OBVIOUS
  <2>1. phase \in {"idle", "services", "filesystem", "contents", "registry"}
        /\ (phase = "idle") = (capture = <<>>)
    BY DEF Held, CaptureHeld, Steps
  <2>2. \A n \in DOMAIN diffs : diffs[n].diff.format_version \in {1, DiffFormat}
    BY DEF Held, DiffsHeld, DiffHeld
  <2> QED BY <2>1, <2>2 DEF TypeOK, Held, MachineHeld, SnapshotsHeld, DiffsHeld
<1> QED BY <1>1, AlwaysHeld, PTL

(* Nothing this build's policy refuses is left in a diff it wrote, in one it*)
(* refiltered or in an intersection, whatever builds took the snapshots and *)
(* whatever the machine held (compare, refilter, intersect).                *)
THEOREM NothingExcludedLeaves == Spec => []ExcludedNeverLeaves
<1>1. Held => ExcludedNeverLeaves
  BY CleanSuffices DEF Held, DiffsHeld, DiffHeld, ExcludedNeverLeaves, Judged
<1> QED BY <1>1, AlwaysHeld, PTL

-------------------------------------------------------------------------------
(* A diff read backwards.                                                   *)

Flipped(c) == [identity |-> c.identity, before |-> c.after, after |-> c.before]
IsChange(c) == c = [identity |-> c.identity, before |-> c.before, after |-> c.after]

LEMMA FlippedTwice ==
  ASSUME NEW c, IsChange(c)
  PROVE  /\ Flipped(Flipped(c)) = c
         /\ Flipped(c).identity = c.identity
         /\ Flipped(c).before = c.after /\ Flipped(c).after = c.before
         /\ IsChange(Flipped(c))
         /\ (KindOf(Flipped(c)) = "modified") = (KindOf(c) = "modified")
<1> DEFINE e == Flipped(c)
<1>1. e = [identity |-> c.identity, before |-> c.after, after |-> c.before]
  BY DEF Flipped
<1>2. e.identity = c.identity /\ e.before = c.after /\ e.after = c.before
  <2> HIDE DEF e
  <2> QED BY <1>1
<1>3. Flipped(e) = c
  <2> HIDE DEF e
  <2> QED BY <1>2 DEF Flipped, IsChange
<1>4. IsChange(e)
  <2> HIDE DEF e
  <2> QED BY <1>1, <1>2 DEF IsChange
<1>5. (KindOf(e) = "modified") = (KindOf(c) = "modified")
  <2> HIDE DEF e
  <2>1. \A d : KindOf(d) = "modified" <=> d.before # None /\ d.after # None
    BY DEF KindOf
  <2>2. KindOf(e) = "modified" <=> KindOf(c) = "modified"
    BY <1>2, <2>1
  <2> QED BY <2>2
<1> QED BY <1>2, <1>3, <1>4, <1>5

(* Two sets of changes, each the other read backwards.                      *)
LEMMA BackwardsIs ==
  ASSUME NEW S, NEW T,
         \A c \in S : IsChange(c) /\ Flipped(c) \in T,
         \A c \in T : IsChange(c) /\ Flipped(c) \in S
  PROVE  Backwards(S) = T
<1>1. Backwards(S) = {Flipped(c) : c \in S}
  BY DEF Backwards, Flipped
<1>2. ASSUME NEW c \in T PROVE c \in {Flipped(d) : d \in S}
  <2>1. Flipped(c) \in S /\ Flipped(Flipped(c)) = c
    BY FlippedTwice
  <2> QED BY <2>1
<1>3. \A c \in S : Flipped(c) \in T
  OBVIOUS
<1> QED BY <1>1, <1>2, <1>3

LEMMA ChangesFlip ==
  ASSUME NEW was, NEW is, NEW c \in ChangesBetween(was, is)
  PROVE  IsChange(c) /\ Flipped(c) \in ChangesBetween(is, was)
<1>1. ChangeOf(c, was, is)
  BY ChangesAreOfRecords
<1>2. IsChange(c)
  BY <1>1 DEF ChangeOf, IsChange
<1> DEFINE e == Flipped(c)
<1>3. e.identity = c.identity /\ e.before = c.after /\ e.after = c.before /\ IsChange(e)
  BY <1>2, FlippedTwice
<1> HIDE DEF e
<1>4. ChangeOf(e, is, was)
  BY <1>1, <1>3 DEF ChangeOf, IsChange
<1> QED BY <1>2, <1>4, ChangesAreOfRecords DEF e

(* A modification is of a record on either side.                            *)
LEMMA ModifiedRecords ==
  ASSUME NEW was, NEW is, NEW c \in ChangesBetween(was, is), KindOf(c) = "modified"
  PROVE  /\ c.identity \in DOMAIN was /\ c.identity \in DOMAIN is
         /\ c.before = Some(was[c.identity]) /\ c.after = Some(is[c.identity])
         /\ c.before[1] = was[c.identity] /\ c.after[1] = is[c.identity]
<1>1. c.before # None /\ c.after # None
  BY DEF KindOf
<1> QED BY <1>1, ChangesAreOfRecords, SomeIsNotNone DEF ChangeOf

LEMMA ServiceDiffersEitherWay ==
  ASSUME NEW old, NEW new, DOMAIN old = DOMAIN new
  PROVE  ServiceDiffers(old, new) <=> ServiceDiffers(new, old)
BY DEF ServiceDiffers

LEMMA CrowdedEitherWay ==
  ASSUME NEW filter, NEW x, NEW y
  PROVE  Crowded(filter, x, y) = Crowded(filter, y, x)
<1>1. x \cup y = y \cup x /\ {x, y} = {y, x}
  OBVIOUS
<1> QED BY <1>1 DEF Crowded

LEMMA ServicesFlip ==
  ASSUME NEW filter, NEW x, NEW y, AreServices(x), AreServices(y),
         NEW c \in CompareServices(filter, x, y)
  PROVE  IsChange(c) /\ Flipped(c) \in CompareServices(filter, y, x)
<1> DEFINE crowded == Crowded(filter, x, y)
           Key(r) == LET canonical == CanonicalName(filter, r.name)
                     IN  IF canonical \in crowded THEN r.name ELSE canonical
           Of(side) == [r \in side |-> Key(r)]
           was == IndexBy(Of(x))
           is == IndexBy(Of(y))
           Kept(d) == KindOf(d) = "modified" => ServiceDiffers(d.before[1], d.after[1])
<1>1. CompareServices(filter, x, y) = {d \in ChangesBetween(was, is) : Kept(d)}
  BY DEF CompareServices
<1>2. CompareServices(filter, y, x) = {d \in ChangesBetween(is, was) : Kept(d)}
  BY CrowdedEitherWay DEF CompareServices
<1>3. ASSUME NEW side, NEW i \in DOMAIN IndexBy(Of(side))
      PROVE  IndexBy(Of(side))[i] \in side
  <2>1. DOMAIN Of(side) = side
    OBVIOUS
  <2> HIDE DEF Of
  <2> QED BY <1>3, <2>1, IndexedRecords
<1>4. \A i \in DOMAIN was : was[i] \in x
  BY <1>3
<1>5. \A i \in DOMAIN is : is[i] \in y
  BY <1>3
<1> HIDE DEF was, is
<1>6. c \in ChangesBetween(was, is) /\ Kept(c)
  BY <1>1
<1>7. IsChange(c) /\ Flipped(c) \in ChangesBetween(is, was)
  BY <1>6, ChangesFlip
<1>8. Kept(Flipped(c))
  <2>1. SUFFICES ASSUME KindOf(Flipped(c)) = "modified"
                 PROVE  ServiceDiffers(Flipped(c).before[1], Flipped(c).after[1])
    OBVIOUS
  <2>2. KindOf(c) = "modified" /\ Flipped(c).before = c.after /\ Flipped(c).after = c.before
    BY <1>7, <2>1, FlippedTwice
  <2>3. c.before[1] \in x /\ c.after[1] \in y
    BY <1>4, <1>5, <1>6, <2>2, ModifiedRecords
  <2>4. DOMAIN c.before[1] = DOMAIN c.after[1]
    BY <2>3 DEF AreServices
  <2> QED BY <1>6, <2>2, <2>4, ServiceDiffersEitherWay
<1> HIDE DEF Kept
<1> QED BY <1>2, <1>7, <1>8

LEMMA FileFieldsEitherWay ==
  ASSUME NEW old, NEW new
  PROVE  FileFields(old, new) = FileFields(new, old)
<1>1. {f \in {"size", "sha256", "signer"} : old[f] # new[f]}
      = {f \in {"size", "sha256", "signer"} : new[f] # old[f]}
  OBVIOUS
<1> QED BY <1>1 DEF FileFields

LEMMA FilesFlip ==
  ASSUME NEW policy, NEW x, NEW y, NEW c \in CompareFiles(policy, x, y)
  PROVE  IsChange(c) /\ Flipped(c) \in CompareFiles(policy, y, x)
<1> DEFINE Index(side) == IndexBy([r \in {f \in side : ~IsExcludedPath(policy, f.path)} |->
                                    Folded(r.path)])
           was == Index(x)
           is == Index(y)
           Kept(d) == KindOf(d) = "modified" => FileFields(d.before[1], d.after[1]) # {}
<1>1. CompareFiles(policy, x, y) = {d \in ChangesBetween(was, is) : Kept(d)}
  BY DEF CompareFiles
<1>2. CompareFiles(policy, y, x) = {d \in ChangesBetween(is, was) : Kept(d)}
  BY DEF CompareFiles
<1> HIDE DEF was, is
<1>3. c \in ChangesBetween(was, is) /\ Kept(c)
  BY <1>1
<1>4. IsChange(c) /\ Flipped(c) \in ChangesBetween(is, was)
  BY <1>3, ChangesFlip
<1>5. Kept(Flipped(c))
  BY <1>3, <1>4, FlippedTwice, FileFieldsEitherWay
<1> HIDE DEF Kept
<1> QED BY <1>2, <1>4, <1>5

LEMMA ValueDifferencesEitherWay ==
  ASSUME NEW old, NEW new
  PROVE  ValueDifferences(old, new) = ValueDifferences(new, old)
<1>1. {v.name : v \in old.values \cup new.values} = {v.name : v \in new.values \cup old.values}
  OBVIOUS
<1> QED BY <1>1 DEF ValueDifferences

LEMMA NarrowedBoth ==
  ASSUME NEW c, IsChange(c), NEW names, NEW m,
         m = [c EXCEPT !.before = Some(Narrowed(@[1], names)), !.after = Some(Narrowed(@[1], names))]
  PROVE  m = [identity |-> c.identity, before |-> Some(Narrowed(c.before[1], names)),
              after |-> Some(Narrowed(c.after[1], names))]
BY DEF IsChange

LEMMA ModificationFlips ==
  ASSUME NEW c, RegistryChange(c), KindOf(c) = "modified"
  PROVE  /\ \A m \in RegistryModification(c) :
              IsChange(m) /\ Flipped(m) \in RegistryModification(Flipped(c))
         /\ (RegistryModification(Flipped(c)) = {}) = (RegistryModification(c) = {})
<1> DEFINE names == ValueDifferences(c.before[1], c.after[1])
           e == Flipped(c)
           Only(side) == Some(Narrowed(side[1], names))
<1>1. IsChange(c) /\ IsChange(e) /\ e.identity = c.identity /\ e.before = c.after /\ e.after = c.before
  BY FlippedTwice DEF RegistryChange, IsChange
<1>2. ValueDifferences(e.before[1], e.after[1]) = names
  BY <1>1, ValueDifferencesEitherWay
<1>3. RegistryModification(c)
      = IF names = {} THEN {} ELSE {[c EXCEPT !.before = Only(@), !.after = Only(@)]}
  BY DEF RegistryModification, Narrowed
<1>4. RegistryModification(e)
      = IF names = {} THEN {} ELSE {[e EXCEPT !.before = Only(@), !.after = Only(@)]}
  BY <1>2 DEF RegistryModification, Narrowed
<1> HIDE DEF names, e
<1>5. [c EXCEPT !.before = Only(@), !.after = Only(@)]
      = [identity |-> c.identity, before |-> Only(c.before), after |-> Only(c.after)]
  BY <1>1, NarrowedBoth
<1>6. [e EXCEPT !.before = Only(@), !.after = Only(@)]
      = [identity |-> c.identity, before |-> Only(c.after), after |-> Only(c.before)]
  <2>1. [e EXCEPT !.before = Only(@), !.after = Only(@)]
        = [identity |-> e.identity, before |-> Only(e.before), after |-> Only(e.after)]
    BY <1>1, NarrowedBoth
  <2> QED BY <1>1, <2>1
<1> HIDE DEF Only
<1>7. ASSUME NEW m \in RegistryModification(c)
      PROVE  IsChange(m) /\ Flipped(m) \in RegistryModification(e)
  <2>1. m = [identity |-> c.identity, before |-> Only(c.before), after |-> Only(c.after)]
        /\ names # {}
    BY <1>3, <1>5
  <2>2. m.identity = c.identity /\ m.before = Only(c.before) /\ m.after = Only(c.after)
    BY <2>1
  <2>3. IsChange(m)
    BY <2>1, <2>2 DEF IsChange
  <2>4. Flipped(m) = [identity |-> c.identity, before |-> Only(c.after), after |-> Only(c.before)]
    BY <2>2 DEF Flipped
  <2> QED BY <1>4, <1>6, <2>1, <2>3, <2>4
<1>8. (RegistryModification(e) = {}) = (RegistryModification(c) = {})
  BY <1>3, <1>4
<1> QED BY <1>7, <1>8 DEF e

LEMMA RegistryFlips ==
  ASSUME NEW policy, NEW format, NEW x, NEW y, \A r \in x \cup y : IsRecord(r),
         NEW c \in CompareRegistry(policy, format, x, y)
  PROVE  IsChange(c) /\ Flipped(c) \in CompareRegistry(policy, format, y, x)
<1> DEFINE there == ChangesBetween(AdmittedIndex(policy, x), AdmittedIndex(policy, y))
           back == ChangesBetween(AdmittedIndex(policy, y), AdmittedIndex(policy, x))
<1>1. ASSUME NEW d \in there
      PROVE  RegistryChange(d) /\ IsChange(d) /\ Flipped(d) \in back
  BY AdmittedChanges, ChangesFlip
<1>2. \A e : e \in CompareRegistry(policy, format, y, x) <=>
               \/ e \in back /\ KindOf(e) # "modified"
               \/ \E d \in back : KindOf(d) = "modified" /\ e \in Modifications(format, d)
  BY RegistryTells
<1>3. \/ c \in there /\ KindOf(c) # "modified"
      \/ \E d \in there : KindOf(d) = "modified" /\ c \in Modifications(format, d)
  BY RegistryTells
<1> HIDE DEF there, back
<1>4. CASE c \in there /\ KindOf(c) # "modified"
  <2>1. IsChange(c) /\ Flipped(c) \in back
    BY <1>1, <1>4
  <2>2. KindOf(Flipped(c)) # "modified"
    BY <1>4, <2>1, FlippedTwice
  <2> QED BY <1>2, <2>1, <2>2
<1>5. CASE \E d \in there : KindOf(d) = "modified" /\ c \in Modifications(format, d)
  <2>1. PICK d \in there : KindOf(d) = "modified" /\ c \in Modifications(format, d)
    BY <1>5
  <2>2. RegistryChange(d) /\ IsChange(d) /\ Flipped(d) \in back
    BY <1>1
  <2>3. KindOf(Flipped(d)) = "modified"
    BY <2>1, <2>2, FlippedTwice
  <2>4. /\ \A m \in RegistryModification(d) :
             IsChange(m) /\ Flipped(m) \in RegistryModification(Flipped(d))
        /\ (RegistryModification(Flipped(d)) = {}) = (RegistryModification(d) = {})
    BY <2>1, <2>2, ModificationFlips
  <2>5. IsChange(c) /\ Flipped(c) \in Modifications(format, Flipped(d))
    BY <2>1, <2>2, <2>4 DEF Modifications
  <2> QED BY <1>2, <2>2, <2>3, <2>5
<1> QED BY <1>3, <1>4, <1>5

(* What is counted is finite, and the sum does not depend on the order.     *)
LEMMA AbsorbEitherWay ==
  ASSUME NEW r, NEW s, DOMAIN r = DOMAIN s, \A count \in DOMAIN r : r[count] \in Int /\ s[count] \in Int
  PROVE  Absorb(r, s) = Absorb(s, r)
BY DEF Absorb

LEMMA RefusedIsFinite ==
  ASSUME NEW policy, NEW r, IsFiniteSet(r.values)
  PROVE  IsFiniteSet(Admit(policy, r).refused)
<1>1. Admit(policy, r).refused \subseteq r.values
  BY DEF Admit
<1> QED BY <1>1, FinitePart

LEMMA AdmittedIsCounted ==
  ASSUME NEW policy, NEW records, IsFiniteSet(records), \A r \in records : IsFiniteSet(r.values)
  PROVE  /\ DOMAIN AdmittedCounts(policy, records) = DOMAIN NoneRefiltered
         /\ \A count \in DOMAIN NoneRefiltered : AdmittedCounts(policy, records)[count] \in Int
<1> DEFINE gone == {r \in records : Admit(policy, r).record = None}
           part == [r \in records |-> {r} \X Admit(policy, r).refused]
           lost == UNION {{r} \X Admit(policy, r).refused : r \in records}
           m == Cardinality(gone)
           n == Cardinality(lost)
<1>1. m \in Int
  <2>1. IsFiniteSet(gone)
    BY FinitePart
  <2>2. m \in Nat
    <3> HIDE DEF gone
    <3> QED BY <2>1, FS_CardinalityType
  <2> QED BY <2>2
<1>2. n \in Int
  <2>1. \A r \in records : IsFiniteSet(part[r])
    BY RefusedIsFinite, FS_Singleton, FS_Product
  <2>2. part = [r \in records |-> part[r]] /\ lost = UNION {part[r] : r \in records}
    OBVIOUS
  <2>3. IsFiniteSet(lost)
    <3> HIDE DEF part, lost
    <3> QED BY <2>1, <2>2, FiniteUnion
  <2>4. n \in Nat
    <3> HIDE DEF lost
    <3> QED BY <2>3, FS_CardinalityType
  <2> QED BY <2>4
<1>3. AdmittedCounts(policy, records)
      = [NoneRefiltered EXCEPT !.registry_records = m, !.registry_values = n]
  BY DEF AdmittedCounts
<1> HIDE DEF m, n
<1> DEFINE counts == [registry_records |-> m, registry_values |-> n, access_denied |-> 0,
                      emptied_keys |-> 0, files |-> 0, emptied_directories |-> 0]
<1>4. AdmittedCounts(policy, records) = counts
  BY <1>3 DEF NoneRefiltered
<1>5. DOMAIN counts = DOMAIN NoneRefiltered
  BY DEF NoneRefiltered
<1>6. \A count \in DOMAIN counts : counts[count] \in Int
  <2>1. DOMAIN counts = {"registry_records", "registry_values", "access_denied", "emptied_keys",
                         "files", "emptied_directories"}
    OBVIOUS
  <2>2. /\ counts["registry_records"] = m /\ counts["registry_values"] = n
        /\ counts["access_denied"] = 0 /\ counts["emptied_keys"] = 0
        /\ counts["files"] = 0 /\ counts["emptied_directories"] = 0
    OBVIOUS
  <2> HIDE DEF counts
  <2> QED BY <1>1, <1>2, <2>1, <2>2
<1> HIDE DEF counts
<1> QED BY <1>4, <1>5, <1>6

LEMMA EmptiedIsCounted ==
  ASSUME NEW policy, NEW coverage, NEW x, NEW y, OptionalList(y.file_empty_directories),
         OptionalList(y.registry_empty_keys)
  PROVE  /\ EmptiedDirectories(policy, coverage, x, y).dropped \in Int
         /\ EmptiedKeys(policy, coverage, x, y).dropped \in Int
<1>1. EmptiedDirectories(policy, coverage, x, y).dropped \in Int
  <2> DEFINE fresh == y.file_empty_directories[1] \ x.file_empty_directories[1]
             gone == fresh \ {d \in fresh : ~IsExcludedPath(policy, d)}
  <2>1. CASE y.file_empty_directories # None
    <3>1. IsFiniteSet(gone)
      BY <2>1, FinitePart DEF OptionalList
    <3>2. Cardinality(gone) \in Int
      <4> HIDE DEF gone
      <4>1. Cardinality(gone) \in Nat
        BY <3>1, FS_CardinalityType
      <4> QED BY <4>1
    <3> QED BY <3>2 DEF EmptiedDirectories
  <2>2. CASE y.file_empty_directories = None
    BY <2>2 DEF EmptiedDirectories
  <2> QED BY <2>1, <2>2
<1>2. EmptiedKeys(policy, coverage, x, y).dropped \in Int
  <2> DEFINE fresh == y.registry_empty_keys[1] \ x.registry_empty_keys[1]
             gone == fresh \ {k \in fresh : ~IsExcludedKey(policy, k.key)}
  <2>1. CASE y.registry_empty_keys # None
    <3>1. IsFiniteSet(gone)
      BY <2>1, FinitePart DEF OptionalList
    <3>2. Cardinality(gone) \in Int
      <4> HIDE DEF gone
      <4>1. Cardinality(gone) \in Nat
        BY <3>1, FS_CardinalityType
      <4> QED BY <4>1
    <3> QED BY <3>2 DEF EmptiedKeys
  <2>2. CASE y.registry_empty_keys = None
    BY <2>2 DEF EmptiedKeys
  <2> QED BY <2>1, <2>2
<1> QED BY <1>1, <1>2

(* What compare counts, by what it counts.                                  *)
RecordsCounted(policy, both, x, y) ==
  IF Covers(both, "registry")
    THEN Absorb(AdmittedCounts(policy, x.registry), AdmittedCounts(policy, y.registry))
    ELSE NoneRefiltered
ExcludedFiles(policy, s) == Cardinality({f \in s.files : IsExcludedPath(policy, f.path)})
FilesCounted(policy, both, x, y) ==
  IF Covers(both, "filesystem") THEN ExcludedFiles(policy, x) + ExcludedFiles(policy, y) ELSE 0
KeysCounted(policy, both, x, y) ==
  EmptiedKeys(policy, both, x, y).dropped + EmptiedKeys(policy, both, y, x).dropped
DirectoriesCounted(policy, both, x, y) ==
  EmptiedDirectories(policy, both, x, y).dropped + EmptiedDirectories(policy, both, y, x).dropped

Counted(policy, both, x, y) ==
  [RecordsCounted(policy, both, x, y) EXCEPT
     !.access_denied       = ExcludedDenials(policy, both),
     !.files               = FilesCounted(policy, both, x, y),
     !.emptied_keys        = KeysCounted(policy, both, x, y),
     !.emptied_directories = DirectoriesCounted(policy, both, x, y)]

LEMMA CompareCounts ==
  ASSUME NEW b, NEW f, NEW x, NEW y
  PROVE  Compare(b, f, x, y).refiltered
         = Counted(b.policy, CoverageOfBoth(x.coverage, y.coverage), x, y)
BY DEF Compare, Counted, RecordsCounted, FilesCounted, ExcludedFiles, KeysCounted, DirectoriesCounted

LEMMA CoverageEitherWay ==
  ASSUME NEW c, NEW d
  PROVE  CoverageOfBoth(c, d) = CoverageOfBoth(d, c)
<1>1. c.captured \cap d.captured = d.captured \cap c.captured
  OBVIOUS
<1>2. c.access_denied \cup d.access_denied = d.access_denied \cup c.access_denied
  OBVIOUS
<1> QED BY <1>1, <1>2 DEF CoverageOfBoth

LEMMA CountsEitherWay ==
  ASSUME NEW b, NEW f, NEW x, NEW y, Measured(x), Measured(y)
  PROVE  Compare(b, f, x, y).refiltered = Compare(b, f, y, x).refiltered
<1> DEFINE policy == b.policy
           both == CoverageOfBoth(x.coverage, y.coverage)
<1>1. both = CoverageOfBoth(y.coverage, x.coverage)
  BY CoverageEitherWay
<1> HIDE DEF both, policy
<1>2. RecordsCounted(policy, both, x, y) = RecordsCounted(policy, both, y, x)
  BY AdmittedIsCounted, AbsorbEitherWay DEF RecordsCounted, Measured
<1>3. FilesCounted(policy, both, x, y) = FilesCounted(policy, both, y, x)
  <2>1. ASSUME NEW s, Measured(s) PROVE ExcludedFiles(policy, s) \in Int
    <3> DEFINE gone == {g \in s.files : IsExcludedPath(policy, g.path)}
    <3>1. IsFiniteSet(gone)
      BY <2>1, FinitePart DEF Measured
    <3>2. ExcludedFiles(policy, s) = Cardinality(gone)
      BY DEF ExcludedFiles
    <3> HIDE DEF gone
    <3>3. Cardinality(gone) \in Nat
      BY <3>1, FS_CardinalityType
    <3> QED BY <3>2, <3>3
  <2>2. ExcludedFiles(policy, x) \in Int /\ ExcludedFiles(policy, y) \in Int
    BY <2>1
  <2> QED BY <2>2 DEF FilesCounted
<1>4. /\ KeysCounted(policy, both, x, y) = KeysCounted(policy, both, y, x)
      /\ DirectoriesCounted(policy, both, x, y) = DirectoriesCounted(policy, both, y, x)
  BY EmptiedIsCounted DEF Measured, KeysCounted, DirectoriesCounted
<1>5. Counted(policy, both, x, y) = Counted(policy, both, y, x)
  BY <1>2, <1>3, <1>4 DEF Counted
<1>6. Compare(b, f, x, y).refiltered = Counted(policy, both, x, y)
  BY CompareCounts DEF both, policy
<1>7. Compare(b, f, y, x).refiltered = Counted(policy, both, y, x)
  BY <1>1, CompareCounts DEF policy
<1> QED BY <1>5, <1>6, <1>7

(* What compare tells, by domain.                                           *)
ToldServices(filter, both, x, y) ==
  IF Covers(both, "services") THEN CompareServices(filter, x.services, y.services) ELSE {}
ToldFiles(policy, both, x, y) ==
  IF Covers(both, "filesystem") THEN CompareFiles(policy, x.files, y.files) ELSE {}
ToldKeys(b, both, x, y) ==
  IF Covers(both, "registry")
    THEN CompareRegistry(b.policy, b.diff_format, x.registry, y.registry) ELSE {}

LEMMA CompareParts ==
  ASSUME NEW b, NEW f, NEW x, NEW y, NEW d, d = Compare(b, f, x, y),
         NEW both, both = CoverageOfBoth(x.coverage, y.coverage)
  PROVE  /\ d.services = {c \in ToldServices(f, both, x, y) : ~RuleFor(f, c)}
         /\ d.suppressed = {c \in ToldServices(f, both, x, y) : RuleFor(f, c)}
         /\ d.files = {c \in ToldFiles(b.policy, both, x, y) : ~FileRuleFor(f, c)}
         /\ d.suppressed_files = {c \in ToldFiles(b.policy, both, x, y) : FileRuleFor(f, c)}
         /\ d.registry = ToldKeys(b, both, x, y)
BY DEF Compare, ToldServices, ToldFiles, ToldKeys

LEMMA CompareHeader ==
  ASSUME NEW b, NEW f, NEW x, NEW y, NEW d, d = Compare(b, f, x, y)
  PROVE  /\ d.snapshot_format_version = x.format_version
         /\ d.before_taken_utc = x.taken_utc /\ d.after_taken_utc = y.taken_utc
         /\ d.rebooted_between = RebootedBetween(x, y)
         /\ d.filesystem_policy_changed = (x.filesystem_policy # y.filesystem_policy)
         /\ d.registry_policy_changed = (x.registry_policy # y.registry_policy)
         /\ d.libraries = Libraries(x) \cap Libraries(y)
         /\ d.intersection_of = None
BY DEF Compare

LEMMA CompareIsAFunction ==
  ASSUME NEW b, NEW f, NEW x, NEW y, NEW d, d = Compare(b, f, x, y)
  PROVE  d = [field \in DiffFields |-> d[field]]
<1> DEFINE both == CoverageOfBoth(x.coverage, y.coverage)
           services == ToldServices(f, both, x, y)
           files == ToldFiles(b.policy, both, x, y)
           reboot == RebootedBetween(x, y)
           directories == EmptiedDirectories(b.policy, both, x, y).list
           former_directories == EmptiedDirectories(b.policy, both, y, x).list
           keys == EmptiedKeys(b.policy, both, x, y).list
           former_keys == EmptiedKeys(b.policy, both, y, x).list
           coverage == WithoutExcludedDenials(b.policy, both)
           kept == {c \in services : ~RuleFor(f, c)}
           aside == {c \in services : RuleFor(f, c)}
           kept_files == {c \in files : ~FileRuleFor(f, c)}
           aside_files == {c \in files : FileRuleFor(f, c)}
           registry == ToldKeys(b, both, x, y)
           directories_changed == x.filesystem_policy # y.filesystem_policy
           keys_changed == x.registry_policy # y.registry_policy
           libraries == Libraries(x) \cap Libraries(y)
           counts == Counted(b.policy, both, x, y)
<1>1. d = [format_version |-> b.diff_format, snapshot_format_version |-> x.format_version,
           before_taken_utc |-> x.taken_utc, after_taken_utc |-> y.taken_utc,
           rebooted_between |-> reboot, emptied_directories |-> directories,
           formerly_empty_directories |-> former_directories, emptied_keys |-> keys,
           formerly_empty_keys |-> former_keys, coverage |-> coverage, services |-> kept,
           suppressed |-> aside, files |-> kept_files, suppressed_files |-> aside_files,
           registry |-> registry, filesystem_policy_changed |-> directories_changed,
           registry_policy_changed |-> keys_changed, libraries |-> libraries,
           refiltered |-> counts, intersection_of |-> None]
  BY DEF Compare, ToldServices, ToldFiles, ToldKeys, Counted, RecordsCounted, FilesCounted,
     ExcludedFiles, KeysCounted, DirectoriesCounted
<1> HIDE DEF both, services, files, reboot, directories, former_directories, keys, former_keys,
             coverage, kept, aside, kept_files, aside_files, registry, directories_changed,
             keys_changed, libraries, counts
<1>2. DOMAIN d = DiffFields /\ d = [field \in DOMAIN d |-> d[field]]
  BY <1>1 DEF DiffFields
<1> QED BY <1>2

LEMMA ReversedIsAFunction ==
  ASSUME NEW d, d = [field \in DiffFields |-> d[field]], NEW r, r = Reversed(d)
  PROVE  r = [field \in DiffFields |-> r[field]]
BY DEF Reversed

LEMMA ReversedSwaps ==
  ASSUME NEW d, DOMAIN d = DiffFields, NEW r, r = Reversed(d)
  PROVE  /\ r.before_taken_utc = d.after_taken_utc /\ r.after_taken_utc = d.before_taken_utc
         /\ r.emptied_directories = d.formerly_empty_directories
         /\ r.formerly_empty_directories = d.emptied_directories
         /\ r.emptied_keys = d.formerly_empty_keys
         /\ r.formerly_empty_keys = d.emptied_keys
BY DEF Reversed, DiffFields

LEMMA ReversedFlips ==
  ASSUME NEW d, DOMAIN d = DiffFields, NEW r, r = Reversed(d)
  PROVE  /\ r.services = Backwards(d.services) /\ r.suppressed = Backwards(d.suppressed)
         /\ r.files = Backwards(d.files) /\ r.suppressed_files = Backwards(d.suppressed_files)
         /\ r.registry = Backwards(d.registry)
BY DEF Reversed, DiffFields

LEMMA ReversedKeeps ==
  ASSUME NEW d, DOMAIN d = DiffFields, NEW r, r = Reversed(d)
  PROVE  /\ r.format_version = d.format_version
         /\ r.snapshot_format_version = d.snapshot_format_version
         /\ r.rebooted_between = d.rebooted_between
         /\ r.coverage = d.coverage
         /\ r.filesystem_policy_changed = d.filesystem_policy_changed
         /\ r.registry_policy_changed = d.registry_policy_changed
         /\ r.libraries = d.libraries
         /\ r.refiltered = d.refiltered
         /\ r.intersection_of = d.intersection_of
BY DEF Reversed, DiffFields

LEMMA SameFields ==
  ASSUME NEW r, r = [field \in DiffFields |-> r[field]],
         NEW s, s = [field \in DiffFields |-> s[field]],
         \A field \in DiffFields : r[field] = s[field]
  PROVE  r = s
<1>1. [field \in DiffFields |-> r[field]] = [field \in DiffFields |-> s[field]]
  OBVIOUS
<1> QED BY <1>1

LEMMA PartsFlip ==
  ASSUME NEW b, NEW f, NEW x, NEW y, SnapshotShape(x), SnapshotShape(y), Measured(x), Measured(y),
         NEW d, d = Compare(b, f, x, y), NEW e, e = Compare(b, f, y, x)
  PROVE  /\ Backwards(d.services) = e.services /\ Backwards(d.suppressed) = e.suppressed
         /\ Backwards(d.files) = e.files /\ Backwards(d.suppressed_files) = e.suppressed_files
         /\ Backwards(d.registry) = e.registry
<1> DEFINE both == CoverageOfBoth(x.coverage, y.coverage)
<1>1. both = CoverageOfBoth(y.coverage, x.coverage)
  BY CoverageEitherWay
<1>2. /\ d.services = {c \in ToldServices(f, both, x, y) : ~RuleFor(f, c)}
      /\ d.suppressed = {c \in ToldServices(f, both, x, y) : RuleFor(f, c)}
      /\ d.files = {c \in ToldFiles(b.policy, both, x, y) : ~FileRuleFor(f, c)}
      /\ d.suppressed_files = {c \in ToldFiles(b.policy, both, x, y) : FileRuleFor(f, c)}
      /\ d.registry = ToldKeys(b, both, x, y)
  BY CompareParts
<1> HIDE DEF both
<1>3. /\ e.services = {c \in ToldServices(f, both, y, x) : ~RuleFor(f, c)}
      /\ e.suppressed = {c \in ToldServices(f, both, y, x) : RuleFor(f, c)}
      /\ e.files = {c \in ToldFiles(b.policy, both, y, x) : ~FileRuleFor(f, c)}
      /\ e.suppressed_files = {c \in ToldFiles(b.policy, both, y, x) : FileRuleFor(f, c)}
      /\ e.registry = ToldKeys(b, both, y, x)
  BY <1>1, CompareParts
<1>4. /\ \A c \in ToldServices(f, both, x, y) : IsChange(c) /\ Flipped(c) \in ToldServices(f, both, y, x)
      /\ \A c \in ToldServices(f, both, y, x) : IsChange(c) /\ Flipped(c) \in ToldServices(f, both, x, y)
  BY ServicesFlip DEF ToldServices, Measured
<1>5. /\ \A c \in ToldFiles(b.policy, both, x, y) :
           IsChange(c) /\ Flipped(c) \in ToldFiles(b.policy, both, y, x)
      /\ \A c \in ToldFiles(b.policy, both, y, x) :
           IsChange(c) /\ Flipped(c) \in ToldFiles(b.policy, both, x, y)
  BY FilesFlip DEF ToldFiles
<1>6. /\ \A c \in ToldKeys(b, both, x, y) : IsChange(c) /\ Flipped(c) \in ToldKeys(b, both, y, x)
      /\ \A c \in ToldKeys(b, both, y, x) : IsChange(c) /\ Flipped(c) \in ToldKeys(b, both, x, y)
  <2>1. (\A r \in x.registry \cup y.registry : IsRecord(r))
        /\ (\A r \in y.registry \cup x.registry : IsRecord(r))
    BY DEF SnapshotShape
  <2> QED BY <2>1, RegistryFlips DEF ToldKeys
<1>7. ASSUME NEW c, IsChange(c)
      PROVE  /\ RuleFor(f, Flipped(c)) <=> RuleFor(f, c)
             /\ FileRuleFor(f, Flipped(c)) <=> FileRuleFor(f, c)
  <2>1. RuleFor(f, Flipped(c)) <=> RuleFor(f, c)
    BY <1>7, FlippedTwice DEF RuleFor
  <2>2. FileRuleFor(f, Flipped(c)) <=> FileRuleFor(f, c)
    BY <1>7, FlippedTwice, FileFieldsEitherWay DEF FileRuleFor
  <2> QED BY <2>1, <2>2
<1>8. Backwards(d.services) = e.services
  <2>1. \A c \in d.services : IsChange(c) /\ Flipped(c) \in e.services
    BY <1>2, <1>3, <1>4, <1>7
  <2>2. \A c \in e.services : IsChange(c) /\ Flipped(c) \in d.services
    BY <1>2, <1>3, <1>4, <1>7
  <2> QED BY <2>1, <2>2, BackwardsIs
<1>9. Backwards(d.suppressed) = e.suppressed
  <2>1. \A c \in d.suppressed : IsChange(c) /\ Flipped(c) \in e.suppressed
    BY <1>2, <1>3, <1>4, <1>7
  <2>2. \A c \in e.suppressed : IsChange(c) /\ Flipped(c) \in d.suppressed
    BY <1>2, <1>3, <1>4, <1>7
  <2> QED BY <2>1, <2>2, BackwardsIs
<1>10. Backwards(d.files) = e.files
  <2>1. \A c \in d.files : IsChange(c) /\ Flipped(c) \in e.files
    BY <1>2, <1>3, <1>5, <1>7
  <2>2. \A c \in e.files : IsChange(c) /\ Flipped(c) \in d.files
    BY <1>2, <1>3, <1>5, <1>7
  <2> QED BY <2>1, <2>2, BackwardsIs
<1>11. Backwards(d.suppressed_files) = e.suppressed_files
  <2>1. \A c \in d.suppressed_files : IsChange(c) /\ Flipped(c) \in e.suppressed_files
    BY <1>2, <1>3, <1>5, <1>7
  <2>2. \A c \in e.suppressed_files : IsChange(c) /\ Flipped(c) \in d.suppressed_files
    BY <1>2, <1>3, <1>5, <1>7
  <2> QED BY <2>1, <2>2, BackwardsIs
<1>12. Backwards(d.registry) = e.registry
  BY <1>2, <1>3, <1>6, BackwardsIs
<1> QED BY <1>8, <1>9, <1>10, <1>11, <1>12

LEMMA RebootedEitherWay ==
  ASSUME NEW x, NEW y, OptionalInt(x.boot_session), OptionalInt(y.boot_session)
  PROVE  RebootedBetween(x, y) = RebootedBetween(y, x)
<1>1. CASE x.boot_session = None \/ y.boot_session = None
  BY <1>1 DEF RebootedBetween
<1>2. CASE x.boot_session # None /\ y.boot_session # None
  <2> DEFINE m == x.boot_session[1]
             n == y.boot_session[1]
             there == m - n > BootTolerance \/ -(m - n) > BootTolerance
             back == n - m > BootTolerance \/ -(n - m) > BootTolerance
  <2>1. m \in Int /\ n \in Int
    BY <1>2 DEF OptionalInt
  <2>2. RebootedBetween(x, y) = Some(there) /\ RebootedBetween(y, x) = Some(back)
    BY <1>2 DEF RebootedBetween
  <2>3. there = back
    <3> HIDE DEF m, n
    <3>1. -(m - n) = n - m /\ -(n - m) = m - n
      BY <2>1
    <3> QED BY <3>1
  <2> HIDE DEF there, back
  <2> QED BY <2>2, <2>3
<1> QED BY <1>1, <1>2

LEMMA HeaderFlips ==
  ASSUME NEW b, NEW f, NEW x, NEW y, Measured(x), Measured(y), x.format_version = y.format_version,
         NEW d, d = Compare(b, f, x, y), NEW e, e = Compare(b, f, y, x)
  PROVE  /\ d.format_version = e.format_version
         /\ d.snapshot_format_version = e.snapshot_format_version
         /\ d.after_taken_utc = e.before_taken_utc /\ d.before_taken_utc = e.after_taken_utc
         /\ d.rebooted_between = e.rebooted_between
         /\ d.filesystem_policy_changed = e.filesystem_policy_changed
         /\ d.registry_policy_changed = e.registry_policy_changed
         /\ d.libraries = e.libraries
         /\ d.intersection_of = e.intersection_of
<1>1. d.format_version = b.diff_format /\ e.format_version = b.diff_format
  BY CompareTells
<1>2. /\ d.snapshot_format_version = x.format_version
      /\ d.before_taken_utc = x.taken_utc /\ d.after_taken_utc = y.taken_utc
      /\ d.rebooted_between = RebootedBetween(x, y)
      /\ d.filesystem_policy_changed = (x.filesystem_policy # y.filesystem_policy)
      /\ d.registry_policy_changed = (x.registry_policy # y.registry_policy)
      /\ d.libraries = Libraries(x) \cap Libraries(y)
      /\ d.intersection_of = None
  BY CompareHeader
<1>3. /\ e.snapshot_format_version = y.format_version
      /\ e.before_taken_utc = y.taken_utc /\ e.after_taken_utc = x.taken_utc
      /\ e.rebooted_between = RebootedBetween(y, x)
      /\ e.filesystem_policy_changed = (y.filesystem_policy # x.filesystem_policy)
      /\ e.registry_policy_changed = (y.registry_policy # x.registry_policy)
      /\ e.libraries = Libraries(y) \cap Libraries(x)
      /\ e.intersection_of = None
  BY CompareHeader
<1>4. d.rebooted_between = e.rebooted_between
  BY <1>2, <1>3, RebootedEitherWay DEF Measured
<1>5. d.libraries = e.libraries
  BY <1>2, <1>3
<1>6. /\ d.filesystem_policy_changed = e.filesystem_policy_changed
      /\ d.registry_policy_changed = e.registry_policy_changed
  BY <1>2, <1>3
<1> QED BY <1>1, <1>2, <1>3, <1>4, <1>5, <1>6

LEMMA ListsFlip ==
  ASSUME NEW b, NEW f, NEW x, NEW y,
         NEW d, d = Compare(b, f, x, y), NEW e, e = Compare(b, f, y, x)
  PROVE  /\ d.formerly_empty_directories = e.emptied_directories
         /\ d.emptied_directories = e.formerly_empty_directories
         /\ d.formerly_empty_keys = e.emptied_keys
         /\ d.emptied_keys = e.formerly_empty_keys
         /\ d.coverage = e.coverage
<1> DEFINE both == CoverageOfBoth(x.coverage, y.coverage)
<1>1. both = CoverageOfBoth(y.coverage, x.coverage)
  BY CoverageEitherWay
<1>2. /\ d.emptied_directories = EmptiedDirectories(b.policy, both, x, y).list
      /\ d.formerly_empty_directories = EmptiedDirectories(b.policy, both, y, x).list
      /\ d.emptied_keys = EmptiedKeys(b.policy, both, x, y).list
      /\ d.formerly_empty_keys = EmptiedKeys(b.policy, both, y, x).list
      /\ d.coverage = WithoutExcludedDenials(b.policy, both)
  BY CompareLists
<1> DEFINE other == CoverageOfBoth(y.coverage, x.coverage)
<1>3. /\ e.emptied_directories = EmptiedDirectories(b.policy, other, y, x).list
      /\ e.formerly_empty_directories = EmptiedDirectories(b.policy, other, x, y).list
      /\ e.emptied_keys = EmptiedKeys(b.policy, other, y, x).list
      /\ e.formerly_empty_keys = EmptiedKeys(b.policy, other, x, y).list
      /\ e.coverage = WithoutExcludedDenials(b.policy, other)
  BY CompareLists
<1>4. other = both
  BY <1>1
<1> HIDE DEF both, other
<1> QED BY <1>2, <1>3, <1>4

LEMMA ReversedIsTheOtherWay ==
  ASSUME NEW b, NEW f, NEW x, NEW y, SnapshotShape(x), SnapshotShape(y), Measured(x), Measured(y),
         x.format_version = y.format_version
  PROVE  Reversed(Compare(b, f, x, y)) = Compare(b, f, y, x)
<1> DEFINE d == Compare(b, f, x, y)
           e == Compare(b, f, y, x)
           r == Reversed(d)
<1>1. DOMAIN d = DiffFields /\ d = [field \in DiffFields |-> d[field]]
      /\ e = [field \in DiffFields |-> e[field]]
  BY CompareIsADiff, CompareIsAFunction
<1>2. /\ Backwards(d.services) = e.services /\ Backwards(d.suppressed) = e.suppressed
      /\ Backwards(d.files) = e.files /\ Backwards(d.suppressed_files) = e.suppressed_files
      /\ Backwards(d.registry) = e.registry
  BY PartsFlip
<1>3. /\ d.format_version = e.format_version
      /\ d.snapshot_format_version = e.snapshot_format_version
      /\ d.after_taken_utc = e.before_taken_utc /\ d.before_taken_utc = e.after_taken_utc
      /\ d.rebooted_between = e.rebooted_between
      /\ d.filesystem_policy_changed = e.filesystem_policy_changed
      /\ d.registry_policy_changed = e.registry_policy_changed
      /\ d.libraries = e.libraries
      /\ d.intersection_of = e.intersection_of
  BY HeaderFlips
<1>4. /\ d.formerly_empty_directories = e.emptied_directories
      /\ d.emptied_directories = e.formerly_empty_directories
      /\ d.formerly_empty_keys = e.emptied_keys
      /\ d.emptied_keys = e.formerly_empty_keys
      /\ d.coverage = e.coverage
  BY ListsFlip
<1>5. d.refiltered = e.refiltered
  BY CountsEitherWay
<1> HIDE DEF d, e
<1>6. r = [field \in DiffFields |-> r[field]]
  BY <1>1, ReversedIsAFunction
<1>7. /\ r.before_taken_utc = e.before_taken_utc /\ r.after_taken_utc = e.after_taken_utc
      /\ r.emptied_directories = e.emptied_directories
      /\ r.formerly_empty_directories = e.formerly_empty_directories
      /\ r.emptied_keys = e.emptied_keys
      /\ r.formerly_empty_keys = e.formerly_empty_keys
  BY <1>1, <1>3, <1>4, ReversedSwaps
<1>8. /\ r.services = e.services /\ r.suppressed = e.suppressed
      /\ r.files = e.files /\ r.suppressed_files = e.suppressed_files
      /\ r.registry = e.registry
  BY <1>1, <1>2, ReversedFlips
<1>9. /\ r.format_version = e.format_version
      /\ r.snapshot_format_version = e.snapshot_format_version
      /\ r.rebooted_between = e.rebooted_between
      /\ r.coverage = e.coverage
      /\ r.filesystem_policy_changed = e.filesystem_policy_changed
      /\ r.registry_policy_changed = e.registry_policy_changed
      /\ r.libraries = e.libraries
      /\ r.refiltered = e.refiltered
      /\ r.intersection_of = e.intersection_of
  BY <1>1, <1>3, <1>4, <1>5, ReversedKeeps
<1> HIDE DEF r
<1>10. \A field \in DiffFields : r[field] = e[field]
  BY <1>7, <1>8, <1>9 DEF DiffFields
<1>11. r = e
  BY <1>1, <1>6, <1>10, SameFields
<1> QED BY <1>11 DEF r, d, e

(* Until another build writes it over, every diff read the other way round  *)
(* is the diff of its two snapshots in the other order, whatever the        *)
(* snapshots hold and whichever build compares them (reversed, compare).    *)
THEOREM BackwardsIsTheOtherWay == Spec => []ReadBackwards
<1>1. Held => ReadBackwards
  <2> SUFFICES ASSUME Held, NEW n \in Judged, diffs[n].by = diffs[n].run.build
               PROVE  LET run == diffs[n].run
                      IN  Reversed(diffs[n].diff)
                          = Compare(run.build, run.filter, snapshots[run.after], snapshots[run.before])
    BY DEF ReadBackwards
  <2> DEFINE run == diffs[n].run
             x == snapshots[run.before]
             y == snapshots[run.after]
  <2>1. n \in DOMAIN diffs
    BY DEF Judged
  <2>2. DiffHeld(diffs[n])
    BY <2>1 DEF Held, DiffsHeld
  <2>3. diffs[n].diff = Compare(run.build, run.filter, x, y) /\ x.format_version = y.format_version
    BY <2>2 DEF DiffHeld, DiffOf, ComparisonFails
  <2>4. diffs # <<>>
    BY <2>1, SeqOfNothing, Zenon
  <2>5. DOMAIN snapshots = 1..CycleLength
    BY <2>4, SeqShape DEF Held, DiffsHeld, SnapshotsHeld
  <2>6. run.before \in DOMAIN snapshots /\ run.after \in DOMAIN snapshots
    BY <2>2, <2>5, ObservationAssumption DEF DiffHeld
  <2>7. SnapshotShape(x) /\ SnapshotShape(y) /\ Measured(x) /\ Measured(y)
    BY <2>6 DEF Held, SnapshotsHeld
  <2> HIDE DEF x, y
  <2>8. Reversed(diffs[n].diff) = Compare(run.build, run.filter, y, x)
    BY <2>3, <2>7, ReversedIsTheOtherWay
  <2> QED BY <2>8 DEF x, y
<1> QED BY <1>1, AlwaysHeld, PTL

-------------------------------------------------------------------------------
(* What is common to several diffs.                                         *)

LEMMA MatchedInIs ==
  ASSUME NEW domain, NEW told, NEW c
  PROVE  MatchedIn(domain, told, c) <=> MatchedBy(domain, c) \in {MatchedBy(domain, x) : x \in told}
BY DEF MatchedIn

(* The definition of Shared, name by name.                                  *)
Told(side) == side.kept \cup side.suppressed
Everywhere(domain, sides, c) == \A n \in DOMAIN sides : MatchedIn(domain, Told(sides[n]), c)
KeptSomewhere(domain, sides, c) == \E n \in DOMAIN sides : MatchedIn(domain, sides[n].kept, c)

LEMMA SharedIs ==
  ASSUME NEW domain, NEW sides, NEW m \in Nat, m >= 1, DOMAIN sides = 1..m
  PROVE  LET shared == Shared(domain, sides)
         IN  /\ \A c \in shared.kept :
                  Everywhere(domain, sides, c) /\ KeptSomewhere(domain, sides, c)
             /\ \A c : Everywhere(domain, sides, c) /\ KeptSomewhere(domain, sides, c) =>
                  MatchedIn(domain, shared.kept, c)
             /\ \A c : c \in shared.suppressed <=>
                  /\ c \in sides[1].suppressed
                  /\ Everywhere(domain, sides, c) /\ ~KeptSomewhere(domain, sides, c)
<1> DEFINE Matched(told) == {MatchedBy(domain, x) : x \in told}
           everywhere == {i \in Matched(sides[1].kept \cup sides[1].suppressed) :
                            \A n \in DOMAIN sides :
                              i \in Matched(sides[n].kept \cup sides[n].suppressed)}
           Keepers(i) == {n \in DOMAIN sides : i \in Matched(sides[n].kept)}
           kept == {i \in everywhere : Keepers(i) # {}}
           Keeper(i) == CHOOSE x \in sides[Min(Keepers(i))].kept : MatchedBy(domain, x) = i
           shared == Shared(domain, sides)
<1>1. /\ shared.kept = {Keeper(i) : i \in kept}
      /\ shared.suppressed = {c \in sides[1].suppressed : MatchedBy(domain, c) \in everywhere \ kept}
  BY DEF Shared
<1>2. 1 \in DOMAIN sides
  OBVIOUS
<1>3. \A c : MatchedBy(domain, c) \in everywhere <=> Everywhere(domain, sides, c)
  BY <1>2 DEF Everywhere, Told, MatchedIn
<1>4. \A c : Keepers(MatchedBy(domain, c)) # {} <=> KeptSomewhere(domain, sides, c)
  BY DEF KeptSomewhere, MatchedIn
<1>5. ASSUME NEW i \in kept PROVE MatchedBy(domain, Keeper(i)) = i
  <2> DEFINE n == Min(Keepers(i))
  <2>1. Keepers(i) # {} /\ Keepers(i) \in SUBSET Nat
    BY <1>5
  <2>2. n \in Keepers(i)
    <3> HIDE DEF Keepers
    <3> QED BY <2>1, LeastIsOne
  <2>3. \E x \in sides[n].kept : MatchedBy(domain, x) = i
    BY <2>2
  <2>4. Keeper(i) = CHOOSE x \in sides[n].kept : MatchedBy(domain, x) = i
    OBVIOUS
  <2> HIDE DEF n, Keeper
  <2> QED BY <2>3, <2>4
<1>6. \A c : MatchedBy(domain, c) \in kept <=>
        Everywhere(domain, sides, c) /\ KeptSomewhere(domain, sides, c)
  <2> HIDE DEF everywhere, Keepers
  <2> QED BY <1>3, <1>4
<1> HIDE DEF everywhere, Keepers, kept, Keeper, shared
<1>7. ASSUME NEW c \in shared.kept
      PROVE  Everywhere(domain, sides, c) /\ KeptSomewhere(domain, sides, c)
  BY <1>1, <1>5, <1>6
<1>8. ASSUME NEW c, Everywhere(domain, sides, c), KeptSomewhere(domain, sides, c)
      PROVE  MatchedIn(domain, shared.kept, c)
  <2>1. MatchedBy(domain, c) \in kept
    BY <1>6, <1>8
  <2> QED BY <1>1, <1>5, <2>1 DEF MatchedIn
<1>9. ASSUME NEW c
      PROVE  c \in shared.suppressed <=>
                  /\ c \in sides[1].suppressed
                  /\ Everywhere(domain, sides, c) /\ ~KeptSomewhere(domain, sides, c)
  BY <1>1, <1>3, <1>6
<1> QED BY <1>7, <1>8, <1>9 DEF shared

LEMMA SharedIsShared ==
  ASSUME NEW domain, NEW sides, NEW m \in Nat, m >= 1, DOMAIN sides = 1..m
  PROVE  IsShared(domain, Told(Shared(domain, sides)), {Told(sides[n]) : n \in DOMAIN sides})
<1> DEFINE shared == Shared(domain, sides)
           tellings == {Told(sides[n]) : n \in DOMAIN sides}
<1>1. /\ \A c \in shared.kept : Everywhere(domain, sides, c)
      /\ \A c : Everywhere(domain, sides, c) /\ KeptSomewhere(domain, sides, c) =>
           MatchedIn(domain, shared.kept, c)
      /\ \A c : c \in shared.suppressed <=>
           /\ c \in sides[1].suppressed
           /\ Everywhere(domain, sides, c) /\ ~KeptSomewhere(domain, sides, c)
  BY SharedIs
<1> HIDE DEF shared
<1>2. ASSUME NEW c \in Told(shared) PROVE \A each \in tellings : MatchedIn(domain, each, c)
  BY <1>1 DEF Told, Everywhere
<1>3. ASSUME NEW c \in UNION tellings, \A each \in tellings : MatchedIn(domain, each, c)
      PROVE  MatchedIn(domain, Told(shared), c)
  <2>1. Everywhere(domain, sides, c)
    BY <1>3 DEF Everywhere
  <2>2. CASE KeptSomewhere(domain, sides, c)
    BY <1>1, <2>1, <2>2 DEF MatchedIn, Told
  <2>3. CASE ~KeptSomewhere(domain, sides, c)
    <3>1. PICK x \in Told(sides[1]) : MatchedBy(domain, x) = MatchedBy(domain, c)
      BY <2>1 DEF Everywhere, MatchedIn
    <3>2. x \in sides[1].suppressed
      BY <2>3, <3>1 DEF KeptSomewhere, MatchedIn, Told
    <3>3. Everywhere(domain, sides, x) /\ ~KeptSomewhere(domain, sides, x)
      BY <2>1, <2>3, <3>1 DEF Everywhere, KeptSomewhere, MatchedIn
    <3>4. x \in shared.suppressed
      BY <1>1, <3>2, <3>3
    <3> QED BY <3>1, <3>4 DEF MatchedIn, Told
  <2> QED BY <2>2, <2>3
<1>4. IsShared(domain, Told(shared), tellings)
  BY <1>2, <1>3 DEF IsShared
<1> QED BY <1>4 DEF shared

(* What no diff both keeps and sets aside is set aside by all or not at all.*)
Apart(domain, side) ==
  \A c \in side.kept, x \in side.suppressed : MatchedBy(domain, c) # MatchedBy(domain, x)

LEMMA NoiseIsShared ==
  ASSUME NEW domain, NEW sides, NEW m \in Nat, m >= 1, DOMAIN sides = 1..m,
         \A n \in DOMAIN sides : Apart(domain, sides[n])
  PROVE  IsShared(domain, Shared(domain, sides).suppressed, {sides[n].suppressed : n \in DOMAIN sides})
<1> DEFINE shared == Shared(domain, sides)
           tellings == {sides[n].suppressed : n \in DOMAIN sides}
<1>1. \A c : c \in shared.suppressed <=>
           /\ c \in sides[1].suppressed
           /\ Everywhere(domain, sides, c) /\ ~KeptSomewhere(domain, sides, c)
  BY SharedIs
<1> HIDE DEF shared
<1>2. ASSUME NEW c \in shared.suppressed, NEW each \in tellings PROVE MatchedIn(domain, each, c)
  BY <1>1 DEF Told, Everywhere, KeptSomewhere, MatchedIn
<1>3. ASSUME NEW c \in UNION tellings, \A each \in tellings : MatchedIn(domain, each, c)
      PROVE  MatchedIn(domain, shared.suppressed, c)
  <2>1. 1 \in DOMAIN sides /\ \A n \in DOMAIN sides : MatchedIn(domain, sides[n].suppressed, c)
    BY <1>3
  <2>2. Everywhere(domain, sides, c)
    BY <2>1 DEF Everywhere, MatchedIn, Told
  <2>3. ~KeptSomewhere(domain, sides, c)
    BY <2>1 DEF KeptSomewhere, MatchedIn, Apart
  <2>4. PICK x \in sides[1].suppressed : MatchedBy(domain, x) = MatchedBy(domain, c)
    BY <2>1 DEF MatchedIn
  <2>5. Everywhere(domain, sides, x) /\ ~KeptSomewhere(domain, sides, x)
    BY <2>2, <2>3, <2>4 DEF Everywhere, KeptSomewhere, MatchedIn
  <2>6. x \in shared.suppressed
    BY <1>1, <2>4, <2>5
  <2> QED BY <2>4, <2>6 DEF MatchedIn
<1>4. IsShared(domain, shared.suppressed, tellings)
  BY <1>2, <1>3 DEF IsShared
<1> QED BY <1>4 DEF shared

LEMMA SharedByTellsAll ==
  ASSUME NEW fs
  PROVE  LET d == SharedBy(fs)
             services == Shared("services", [n \in DOMAIN fs |->
                           [kept |-> fs[n].services, suppressed |-> fs[n].suppressed]])
             files    == Shared("filesystem", [n \in DOMAIN fs |->
                           [kept |-> fs[n].files, suppressed |-> fs[n].suppressed_files]])
             registry == Shared("registry", [n \in DOMAIN fs |->
                           [kept |-> fs[n].registry, suppressed |-> {}]])
         IN  /\ d.services = services.kept /\ d.suppressed = services.suppressed
             /\ d.files = files.kept /\ d.suppressed_files = files.suppressed
             /\ d.registry = registry.kept
BY DEF SharedBy

NoiseApart(d) ==
  \A c \in d.services, x \in d.suppressed : MatchedBy("services", c) # MatchedBy("services", x)

LEMMA SharedByShares ==
  ASSUME NEW fs, NEW m \in Nat, m >= 1, DOMAIN fs = 1..m,
         \A n \in DOMAIN fs : NoiseApart(fs[n])
  PROVE  ChangesAreShared(SharedBy(fs), {fs[n] : n \in DOMAIN fs})
<1> DEFINE d == SharedBy(fs)
           given == {fs[n] : n \in DOMAIN fs}
           services == [n \in DOMAIN fs |-> [kept |-> fs[n].services, suppressed |-> fs[n].suppressed]]
           files == [n \in DOMAIN fs |-> [kept |-> fs[n].files, suppressed |-> fs[n].suppressed_files]]
           registry == [n \in DOMAIN fs |-> [kept |-> fs[n].registry, suppressed |-> {}]]
<1>1. /\ d.services = Shared("services", services).kept
      /\ d.suppressed = Shared("services", services).suppressed
      /\ d.files = Shared("filesystem", files).kept
      /\ d.suppressed_files = Shared("filesystem", files).suppressed
      /\ d.registry = Shared("registry", registry).kept
  BY SharedByTellsAll
<1>2. /\ DOMAIN services = 1..m /\ DOMAIN files = 1..m /\ DOMAIN registry = 1..m
      /\ \A n \in DOMAIN fs :
           /\ Told(services[n]) = ServicesTold(fs[n]) /\ services[n].suppressed = fs[n].suppressed
           /\ Told(files[n]) = FilesTold(fs[n])
           /\ Told(registry[n]) = fs[n].registry /\ registry[n].suppressed = {}
           /\ Apart("services", services[n])
  BY DEF Told, ServicesTold, FilesTold, Apart, NoiseApart
<1> HIDE DEF d, services, files, registry
<1>3. IsShared("services", ServicesTold(d), {ServicesTold(x) : x \in given})
  <2>1. IsShared("services", Told(Shared("services", services)),
                 {Told(services[n]) : n \in DOMAIN services})
    BY <1>2, SharedIsShared
  <2>2. Told(Shared("services", services)) = ServicesTold(d)
    BY <1>1 DEF Told, ServicesTold
  <2>3. {Told(services[n]) : n \in DOMAIN services} = {ServicesTold(x) : x \in given}
    BY <1>2
  <2> QED BY <2>1, <2>2, <2>3
<1>4. IsShared("filesystem", FilesTold(d), {FilesTold(x) : x \in given})
  <2>1. IsShared("filesystem", Told(Shared("filesystem", files)),
                 {Told(files[n]) : n \in DOMAIN files})
    BY <1>2, SharedIsShared
  <2>2. Told(Shared("filesystem", files)) = FilesTold(d)
    BY <1>1 DEF Told, FilesTold
  <2>3. {Told(files[n]) : n \in DOMAIN files} = {FilesTold(x) : x \in given}
    BY <1>2
  <2> QED BY <2>1, <2>2, <2>3
<1>5. IsShared("registry", d.registry, {x.registry : x \in given})
  <2>1. IsShared("registry", Told(Shared("registry", registry)),
                 {Told(registry[n]) : n \in DOMAIN registry})
    BY <1>2, SharedIsShared
  <2>2. Told(Shared("registry", registry)) = d.registry
    <3>1. Shared("registry", registry).suppressed \subseteq registry[1].suppressed
      BY SharedAside
    <3>2. registry[1].suppressed = {}
      BY <1>2
    <3> QED BY <1>1, <3>1, <3>2 DEF Told
  <2>3. {Told(registry[n]) : n \in DOMAIN registry} = {x.registry : x \in given}
    BY <1>2
  <2> QED BY <2>1, <2>2, <2>3
<1>6. IsShared("services", d.suppressed, {x.suppressed : x \in given})
  <2>1. IsShared("services", Shared("services", services).suppressed,
                 {services[n].suppressed : n \in DOMAIN services})
    <3>1. DOMAIN services = 1..m /\ \A n \in DOMAIN services : Apart("services", services[n])
      BY <1>2
    <3> QED BY <3>1, NoiseIsShared
  <2>2. {services[n].suppressed : n \in DOMAIN services} = {x.suppressed : x \in given}
    BY <1>2
  <2> QED BY <1>1, <2>1, <2>2
<1>7. ChangesAreShared(d, given)
  BY <1>3, <1>4, <1>5, <1>6 DEF ChangesAreShared
<1> QED BY <1>7 DEF d

LEMMA ComparedApart ==
  ASSUME NEW b, NEW f, NEW x, NEW y
  PROVE  NoiseApart(Compare(b, f, x, y))
<1> DEFINE d == Compare(b, f, x, y)
<1>1. /\ \A c \in d.services : ~RuleFor(f, c)
      /\ \A c \in d.suppressed : RuleFor(f, c)
  BY DEF Compare
<1> HIDE DEF d
<1>2. NoiseApart(d)
  BY <1>1 DEF NoiseApart, MatchedBy, RuleFor
<1> QED BY <1>2 DEF d

LEMMA RefilteredApart ==
  ASSUME NEW policy, NEW d, DOMAIN d = DiffFields, NoiseApart(d)
  PROVE  NoiseApart(Refilter(policy, d))
<1>1. Refilter(policy, d).services = d.services /\ Refilter(policy, d).suppressed = d.suppressed
  BY DEF Refilter, DiffFields
<1> QED BY <1>1 DEF NoiseApart

Listed(given, m) == given = [n \in 1..m |-> given[n]]
RefilteredEach(policy, given, m) == [n \in 1..m |-> Refilter(policy, given[n])]

LEMMA RefilteredInOrder ==
  ASSUME NEW policy, NEW m \in Nat, NEW given, Listed(given, m)
  PROVE  AllRefiltered(policy, given) = RefilteredEach(policy, given, m)
<1> DEFINE fs == [n \in 1..m |-> Refilter(policy, given[n])]
<1>1. AllRefiltered(policy, given) = <<>> \o fs
  <2>1. [n \in DOMAIN given |-> Refilter(policy, given[n])] = fs
    BY DEF Listed
  <2> QED BY <2>1 DEF AllRefiltered
<1>2. DOMAIN fs = 1..m /\ fs = [n \in 1..m |-> fs[n]]
  OBVIOUS
<1> HIDE DEF fs
<1>3. fs \in Seq(Range(fs))
  <2>1. \A n \in 1..m : fs[n] \in Range(fs)
    BY <1>2 DEF Range
  <2> QED BY <1>2, <2>1, SeqListed
<1>4. AllRefiltered(policy, given) = fs
  BY <1>1, <1>3, ConcatEmptySeq
<1> QED BY <1>4 DEF fs, RefilteredEach

LEMMA CoverageOfTheSame ==
  ASSUME NEW fs, NEW gs, NEW m \in Nat, m >= 1, DOMAIN fs = 1..m, DOMAIN gs = 1..m,
         {fs[n] : n \in DOMAIN fs} = {gs[n] : n \in DOMAIN gs}
  PROVE  SharedBy(fs).coverage = SharedBy(gs).coverage
<1> DEFINE Of(hs) == [n \in DOMAIN hs |-> hs[n]["coverage"]]
           x == CoverageOfAll(Of(fs))
           y == CoverageOfAll(Of(gs))
<1>1. SharedBy(fs).coverage = x /\ SharedBy(gs).coverage = y
  BY SharedByTells
<1>2. 1 \in DOMAIN fs /\ 1 \in DOMAIN gs
  OBVIOUS
<1>3. /\ \A n \in DOMAIN fs : \E k \in DOMAIN gs : gs[k] = fs[n]
      /\ \A n \in DOMAIN gs : \E k \in DOMAIN fs : fs[k] = gs[n]
  BY Zenon
<1>4. /\ DOMAIN Of(fs) = DOMAIN fs /\ DOMAIN Of(gs) = DOMAIN gs
      /\ \A n \in DOMAIN fs : Of(fs)[n] = fs[n].coverage
      /\ \A n \in DOMAIN gs : Of(gs)[n] = gs[n].coverage
  OBVIOUS
<1> DEFINE captured(hs) == {c \in Of(hs)[1].captured : \A n \in DOMAIN hs : c \in Of(hs)[n].captured}
           denied(hs)   == UNION {Of(hs)[n].access_denied : n \in DOMAIN hs}
<1>5. captured(fs) = captured(gs) /\ denied(fs) = denied(gs)
  <2> HIDE DEF Of
  <2>1. \A c : c \in captured(fs) <=> \A n \in DOMAIN fs : c \in fs[n].coverage.captured
    BY <1>2, <1>4
  <2>2. \A c : c \in captured(gs) <=> \A n \in DOMAIN gs : c \in gs[n].coverage.captured
    BY <1>2, <1>4
  <2>3. \A c : c \in denied(fs) <=> \E n \in DOMAIN fs : c \in fs[n].coverage.access_denied
    BY <1>4
  <2>4. \A c : c \in denied(gs) <=> \E n \in DOMAIN gs : c \in gs[n].coverage.access_denied
    BY <1>4
  <2> HIDE DEF captured, denied
  <2>5. \A c : c \in captured(fs) <=> c \in captured(gs)
    BY <1>3, <2>1, <2>2
  <2>6. \A c : c \in denied(fs) <=> c \in denied(gs)
    BY <1>3, <2>3, <2>4
  <2> QED BY <2>5, <2>6
<1>6. x = y
  BY <1>4, <1>5 DEF CoverageOfAll
<1> QED BY <1>1, <1>6

-------------------------------------------------------------------------------
(* An intersection is that of the diffs which are there: none is taken or   *)
(* refiltered any more once there is one (run_intersect).                   *)

NoiseKept  == \A n \in DOMAIN diffs : NoiseApart(diffs[n].diff)
CommonHeld == common # None => Len(diffs) >= 2 /\ common = Some(Intersect(Policy, Given))
SharedInv  == NoiseKept /\ CommonHeld

LEMMA GivenIs ==
  ASSUME Held
  PROVE  /\ Len(diffs) \in Nat /\ DOMAIN diffs = 1..Len(diffs)
         /\ Given = [n \in 1..Len(diffs) |-> diffs[n].diff]
         /\ Len(Given) = Len(diffs)
<1> DEFINE m == Len(diffs)
<1>1. m \in Nat /\ DOMAIN diffs = 1..m
  BY SeqShape DEF Held, DiffsHeld
<1>2. Given = [n \in 1..m |-> diffs[n].diff]
  BY <1>1 DEF Given
<1>3. DOMAIN Given = 1..m /\ Given = [n \in 1..m |-> Given[n]]
  BY <1>2
<1> HIDE DEF m
<1>4. Given \in Seq(Range(Given))
  <2>1. \A n \in 1..m : Given[n] \in Range(Given)
    BY <1>3 DEF Range
  <2> QED BY <1>1, <1>3, <2>1, SeqListed
<1>5. Len(Given) = m
  BY <1>1, <1>3, <1>4
<1> QED BY <1>1, <1>2, <1>5 DEF m

LEMMA SharedInvStays ==
  ASSUME SharedInv, diffs' = diffs, common' = common
  PROVE  SharedInv'
BY DEF SharedInv, NoiseKept, CommonHeld, Given

LEMMA SharedInvStep ==
  ASSUME Held, SharedInv, [Next]_vars
  PROVE  SharedInv'
<1>1. ASSUME NEW r \in DOMAIN DiffRuns, RunDiff(r) PROVE SharedInv'
  <2> DEFINE run == DiffRuns[r]
             e == [run |-> run, by |-> run.build, diff |-> DiffOf(run)]
  <2>1. diffs' = Append(diffs, e) /\ common' = None
    BY <1>1 DEF RunDiff
  <2>2. e.diff = DiffOf(run) /\ NoiseApart(DiffOf(run))
    BY ComparedApart DEF DiffOf
  <2> HIDE DEF e
  <2>3. /\ DOMAIN diffs' = 1..(Len(diffs) + 1)
        /\ \A i \in DOMAIN diffs : diffs'[i] = diffs[i]
    <3>1. IsSeq(diffs)
      BY DEF Held, DiffsHeld
    <3>2. DOMAIN diffs' = 1..(Len(diffs) + 1)
      BY <2>1, <3>1, SeqAppend
    <3>3. \A i \in DOMAIN diffs : diffs'[i] = diffs[i]
      BY <2>1, <3>1, SeqAppend
    <3> QED BY <3>2, <3>3
  <2>4. diffs'[Len(diffs) + 1] = e
    <3>1. IsSeq(diffs)
      BY DEF Held, DiffsHeld
    <3> QED BY <2>1, <3>1, SeqAppend
  <2>5. \A n \in DOMAIN diffs' : n \in DOMAIN diffs \/ n = Len(diffs) + 1
    BY <2>3, GivenIs
  <2>6. NoiseKept'
    BY <2>2, <2>3, <2>4, <2>5 DEF SharedInv, NoiseKept
  <2> QED BY <2>1, <2>6 DEF SharedInv, CommonHeld
<1>2. ASSUME NEW n \in DOMAIN diffs, RunRefilter(n) PROVE SharedInv'
  <2> DEFINE x == [diffs[n] EXCEPT !.by = CurrentBuild, !.diff = Refilter(Policy, @)]
  <2>1. diffs' = [diffs EXCEPT ![n] = x] /\ common' = None
    BY <1>2 DEF RunRefilter
  <2>2. DOMAIN diffs[n] = {"run", "by", "diff"} /\ DOMAIN diffs[n].diff = DiffFields
    BY DEF Held, DiffsHeld, DiffHeld, DiffShape
  <2>3. x.diff = Refilter(Policy, diffs[n].diff)
    BY <2>2
  <2>4. NoiseApart(x.diff)
    BY <2>2, <2>3, RefilteredApart DEF SharedInv, NoiseKept
  <2> HIDE DEF x
  <2>5. NoiseKept'
    BY <2>1, <2>4 DEF SharedInv, NoiseKept
  <2> QED BY <2>1, <2>5 DEF SharedInv, CommonHeld
<1>3. ASSUME RunIntersect PROVE SharedInv'
  <2>1. diffs' = diffs /\ Given' = Given /\ common' = Some(Intersect(Policy, Given))
    BY <1>3 DEF RunIntersect, Given
  <2>2. Len(Given) >= 2
    <3>1. IntersectionFails(Given) = "no"
      BY <1>3 DEF RunIntersect
    <3>2. ~(Len(Given) < 2)
      BY <3>1 DEF IntersectionFails
    <3> QED BY <3>2, GivenIs
  <2>3. Len(diffs) >= 2
    BY <2>2, GivenIs
  <2>4. Intersect(Policy, Given)' = Intersect(Policy, Given)
    BY <2>1
  <2> QED BY <2>1, <2>3, <2>4 DEF SharedInv, NoiseKept, CommonHeld
<1>4. CASE UNCHANGED <<diffs, common>>
  BY <1>4, SharedInvStays
<1>5. CASE Next
  <2>1. \/ \E r \in DOMAIN DiffRuns : RunDiff(r)
        \/ \E n \in DOMAIN diffs : RunRefilter(n)
        \/ RunIntersect
        \/ UNCHANGED <<diffs, common>>
    BY <1>5 DEF Next, MachineChanges, Restart, BeginSnapshot, ServicesFail, TakeServices,
                WalkFilesystem, ReadContents, FinishSnapshot, RunSuggest, written
  <2> QED BY <1>1, <1>2, <1>3, <1>4, <2>1
<1>6. CASE UNCHANGED vars
  BY <1>4, <1>6 DEF vars, written
<1> QED BY <1>5, <1>6

LEMMA IntersectionShares ==
  ASSUME Held, SharedInv
  PROVE  IntersectionIsShared
<1> DEFINE m == Len(diffs)
           given == {Refilter(Policy, diffs[n].diff) : n \in DOMAIN diffs}
           fs == [n \in 1..m |-> Refilter(Policy, Given[n])]
           back == [n \in 1..m |-> Given[(m - n) + 1]]
           gs == [n \in 1..m |-> Refilter(Policy, back[n])]
<1> SUFFICES ASSUME common # None
             PROVE  /\ ChangesAreShared(common[1], given) /\ ChangesAreShared(InOtherOrder, given)
                    /\ common[1].coverage = InOtherOrder.coverage
  BY DEF IntersectionIsShared
<1>1. m \in Nat /\ m >= 1 /\ DOMAIN diffs = 1..m /\ Given = [n \in 1..m |-> diffs[n].diff]
      /\ Len(Given) = m /\ common[1] = Intersect(Policy, Given)
  BY GivenIs, SomeIsNotNone DEF SharedInv, CommonHeld
<1> HIDE DEF m
<1>2. Intersect(Policy, Given) = SharedBy(fs)
  <2>1. Listed(Given, m)
    BY <1>1 DEF Listed
  <2>2. AllRefiltered(Policy, Given) = RefilteredEach(Policy, Given, m)
    BY <1>1, <2>1, RefilteredInOrder
  <2> QED BY <2>2 DEF Intersect, RefilteredEach
<1>3. InOtherOrder = SharedBy(gs)
  <2>1. Reverse(Given) = back
    BY <1>1 DEF Reverse
  <2>2. Listed(back, m)
    BY DEF Listed
  <2> HIDE DEF back
  <2>3. AllRefiltered(Policy, back) = RefilteredEach(Policy, back, m)
    BY <1>1, <2>2, RefilteredInOrder
  <2> QED BY <2>1, <2>3 DEF InOtherOrder, Intersect, RefilteredEach
<1>4. \A n \in 1..m : Given[n] = diffs[n].diff /\ fs[n] = Refilter(Policy, diffs[n].diff)
  BY <1>1
<1>5. \A n \in 1..m : (m - n) + 1 \in 1..m /\ (m - ((m - n) + 1)) + 1 = n
  BY <1>1
<1>6. \A n \in 1..m : gs[n] = Refilter(Policy, diffs[(m - n) + 1].diff)
  BY <1>1, <1>5
<1>7. {fs[n] : n \in DOMAIN fs} = given
  BY <1>1, <1>4
<1>8. {gs[n] : n \in DOMAIN gs} = given
  <2>1. DOMAIN gs = 1..m
    OBVIOUS
  <2> HIDE DEF gs
  <2>2. \A x \in given : \E n \in 1..m : x = gs[n]
    <3> TAKE x \in given
    <3>1. PICK n \in 1..m : x = Refilter(Policy, diffs[n].diff)
      BY <1>1
    <3>2. (m - n) + 1 \in 1..m /\ (m - ((m - n) + 1)) + 1 = n
      BY <1>5
    <3>3. gs[(m - n) + 1] = x
      BY <1>6, <3>1, <3>2
    <3> QED BY <3>2, <3>3
  <2>3. \A n \in 1..m : gs[n] \in given
    BY <1>1, <1>5, <1>6
  <2> HIDE DEF given
  <2> QED BY <2>1, <2>2, <2>3
<1>9. \A x \in given : NoiseApart(x)
  BY RefilteredApart DEF Held, DiffsHeld, DiffHeld, DiffShape, SharedInv, NoiseKept
<1>10. DOMAIN fs = 1..m /\ DOMAIN gs = 1..m
  OBVIOUS
<1> HIDE DEF fs, gs, given
<1>11. ChangesAreShared(SharedBy(fs), given)
  <2>1. \A n \in DOMAIN fs : NoiseApart(fs[n])
    BY <1>7, <1>9
  <2> QED BY <1>1, <1>7, <1>10, <2>1, SharedByShares
<1>12. ChangesAreShared(SharedBy(gs), given)
  <2>1. \A n \in DOMAIN gs : NoiseApart(gs[n])
    BY <1>8, <1>9
  <2> QED BY <1>1, <1>8, <1>10, <2>1, SharedByShares
<1>13. SharedBy(fs).coverage = SharedBy(gs).coverage
  BY <1>1, <1>7, <1>8, <1>10, CoverageOfTheSame
<1> QED BY <1>1, <1>2, <1>3, <1>11, <1>12, <1>13

(* Whatever the diffs hold and in whichever order they are given, what they *)
(* have in common is what each of them tells, set aside only where each of  *)
(* them set it aside, and covers what all of them cover (intersect).        *)
THEOREM WhatAllTellIsShared == Spec => []IntersectionIsShared
<1>1. Init => SharedInv
  BY SeqOfNothing DEF Init, SharedInv, NoiseKept, CommonHeld
<1>2. Held /\ SharedInv /\ [Next]_vars => SharedInv'
  BY SharedInvStep
<1>3. Held /\ SharedInv => IntersectionIsShared
  BY IntersectionShares
<1> QED BY <1>1, <1>2, <1>3, AlwaysHeld, PTL DEF Spec

-------------------------------------------------------------------------------
(* Paths: what a prefix is, and that what excludes a path or a key excludes *)
(* everything below it.                                                     *)

LEMMA PathShape ==
  ASSUME NEW p, p \in Seq(Range(p))
  PROVE  Len(p) \in Nat /\ DOMAIN p = 1..Len(p)
OBVIOUS

LEMMA PrefixIs ==
  ASSUME NEW p, p \in Seq(Range(p)), NEW q, q \in Seq(Range(q))
  PROVE  IsPrefix(p, q) <=> Len(p) <= Len(q) /\ \A i \in 1..Len(p) : p[i] = q[i]
<1> DEFINE S == Range(p) \cup Range(q)
           m == Len(p)
<1>1. m \in Nat /\ Len(q) \in Nat /\ DOMAIN p = 1..m /\ DOMAIN q = 1..Len(q)
  BY PathShape
<1>2. p \in Seq(S) /\ q \in Seq(S)
  OBVIOUS
<1>3. ASSUME m <= Len(q)
      PROVE  SubSeq(p, 1, m) = SubSeq(q, 1, m) <=> \A i \in 1..m : p[i] = q[i]
  <2> DEFINE s == SubSeq(p, 1, m)
             t == SubSeq(q, 1, m)
  <2>1. \A i \in 1..m : p[i] \in S /\ q[i] \in S
    BY <1>1, <1>3 DEF Range
  <2>2. s = [i \in 1..m |-> p[i]] /\ t = [i \in 1..m |-> q[i]]
    <3> HIDE DEF S
    <3>1. m <= Len(p)
      BY <1>1
    <3> HIDE DEF m
    <3> QED BY <1>1, <1>2, <1>3, <3>1
  <2> QED BY <2>2
<1> QED BY <1>1, <1>3 DEF IsPrefix

LEMMA PrefixOfPrefix ==
  ASSUME NEW p, p \in Seq(Range(p)), NEW q, q \in Seq(Range(q)), NEW r, r \in Seq(Range(r)),
         IsPrefix(p, q)
  PROVE  /\ IsPrefix(q, r) => IsPrefix(p, r)
         /\ IsPrefix(q, r) /\ p # q => p # r
         /\ p # q => Len(p) < Len(q)
<1>1. Len(p) \in Nat /\ Len(q) \in Nat /\ Len(r) \in Nat
  BY PathShape
<1>2. Len(p) <= Len(q) /\ \A i \in 1..Len(p) : p[i] = q[i]
  BY PrefixIs
<1>3. p # q => Len(p) < Len(q)
  <2>1. ASSUME Len(p) = Len(q) PROVE p = q
    <3>1. DOMAIN p = DOMAIN q /\ \A i \in DOMAIN p : p[i] = q[i]
      BY <1>2, <2>1, PathShape
    <3>2. p = [i \in DOMAIN p |-> p[i]] /\ q = [i \in DOMAIN q |-> q[i]]
      OBVIOUS
    <3> QED BY <3>1, <3>2
  <2> QED BY <1>1, <1>2, <2>1
<1>4. ASSUME IsPrefix(q, r) PROVE IsPrefix(p, r) /\ (p # q => p # r)
  <2>1. Len(q) <= Len(r) /\ \A i \in 1..Len(q) : q[i] = r[i]
    BY <1>4, PrefixIs
  <2>2. Len(p) <= Len(r) /\ \A i \in 1..Len(p) : p[i] = r[i]
    BY <1>1, <1>2, <2>1
  <2>3. IsPrefix(p, r)
    BY <2>2, PrefixIs
  <2>4. p # q => Len(p) < Len(r)
    BY <1>1, <1>3, <2>1
  <2>5. p # q => p # r
    BY <1>1, <2>4
  <2> QED BY <2>3, <2>5
<1> QED BY <1>3, <1>4

LEMMA FoldedIs ==
  ASSUME NEW p, p \in Seq(Range(p))
  PROVE  /\ Folded(p) \in Seq(Range(Folded(p))) /\ Len(Folded(p)) = Len(p)
         /\ \A i \in 1..Len(p) : Folded(p)[i] = Fold(p[i])
<1> DEFINE q == Folded(p)
           m == Len(p)
<1>1. m \in Nat /\ DOMAIN p = 1..m
  BY PathShape
<1>2. q = [i \in 1..m |-> Fold(p[i])]
  BY <1>1 DEF Folded
<1>3. q = [i \in 1..m |-> q[i]] /\ \A i \in 1..m : q[i] \in Range(q)
  BY <1>2 DEF Range
<1> HIDE DEF q, m
<1>4. q \in Seq(Range(q)) /\ Len(q) = m
  <2> DEFINE S == Range(q)
  <2>1. \A i \in 1..m : q[i] \in S
    BY <1>3
  <2> HIDE DEF S
  <2>2. q \in Seq(S)
    BY <1>1, <1>3, <2>1, SeqListed
  <2>3. Len(q) = m
    BY <1>1, <1>2, <2>2
  <2> QED BY <2>2, <2>3 DEF S
<1>5. \A i \in 1..m : q[i] = Fold(p[i])
  BY <1>2
<1> QED BY <1>4, <1>5 DEF q, m

LEMMA FoldedPrefix ==
  ASSUME NEW p, p \in Seq(Range(p)), NEW q, q \in Seq(Range(q)), IsPrefix(p, q)
  PROVE  IsPrefix(Folded(p), Folded(q))
<1>1. Len(p) \in Nat /\ Len(q) \in Nat /\ Len(p) <= Len(q) /\ \A i \in 1..Len(p) : p[i] = q[i]
  BY PathShape, PrefixIs
<1> DEFINE fp == Folded(p)
           fq == Folded(q)
<1>2. fp \in Seq(Range(fp)) /\ Len(fp) = Len(p) /\ \A i \in 1..Len(p) : fp[i] = Fold(p[i])
  BY FoldedIs
<1>3. fq \in Seq(Range(fq)) /\ Len(fq) = Len(q) /\ \A i \in 1..Len(q) : fq[i] = Fold(q[i])
  BY FoldedIs
<1> HIDE DEF fp, fq
<1>4. \A i \in 1..Len(p) : fp[i] = fq[i]
  BY <1>1, <1>2, <1>3
<1>5. IsPrefix(fp, fq)
  BY <1>1, <1>2, <1>3, <1>4, PrefixIs
<1> QED BY <1>5 DEF fp, fq

(* A fragment that occurs in a path occurs in whatever is below it.         *)
LEMMA FragmentBelow ==
  ASSUME NEW p, p \in Seq(Range(p)), NEW q, q \in Seq(Range(q)), IsPrefix(p, q),
         NEW fragment, fragment \in Seq(Range(fragment)), NEW first \in Nat \ {0},
         HasFragment(p, fragment, first)
  PROVE  HasFragment(q, fragment, first)
<1> DEFINE m == Len(fragment)
<1>1. Len(p) \in Nat /\ Len(q) \in Nat /\ m \in Nat
  BY PathShape
<1>2. Len(p) <= Len(q) /\ \A i \in 1..Len(p) : p[i] = q[i]
  BY PrefixIs
<1> HIDE DEF m
<1>3. PICK i \in first..(Len(p) - m + 1) : SubSeq(p, i, i + m - 1) = fragment
  BY DEF HasFragment, m
<1>4. i \in first..(Len(q) - m + 1)
  BY <1>1, <1>2
<1>5. SubSeq(q, i, i + m - 1) = SubSeq(p, i, i + m - 1)
  <2> DEFINE S == Range(p) \cup Range(q)
  <2>1. i \in Nat /\ i >= 1 /\ i + m - 1 <= Len(p)
    BY <1>1, <1>3
  <2>2. \A k \in i..(i + m - 1) : p[k] \in S /\ q[k] \in S /\ p[k] = q[k]
    <3> SUFFICES ASSUME NEW k \in i..(i + m - 1) PROVE p[k] \in S /\ q[k] \in S /\ p[k] = q[k]
      OBVIOUS
    <3>1. k \in 1..Len(p) /\ k \in 1..Len(q)
      BY <1>1, <1>2, <2>1
    <3>2. k \in DOMAIN p /\ k \in DOMAIN q
      BY <3>1, PathShape
    <3> QED BY <1>2, <3>1, <3>2 DEF Range
  <2> HIDE DEF S
  <2> DEFINE last == i + m - 1
             s == SubSeq(p, i, last)
             t == SubSeq(q, i, last)
  <2>3. last \in Int /\ i \in Int
    BY <1>1, <2>1
  <2> HIDE DEF last
  <2>4. /\ s \in Seq(S) /\ Len(s) = (IF i <= last THEN last - i + 1 ELSE 0)
        /\ \A k \in 1..(last - i + 1) : s[k] = p[i + k - 1]
    <3>1. \A k \in i..last : p[k] \in S
      BY <2>2 DEF last
    <3> QED BY <2>3, <3>1, SubSeqProperties
  <2>5. /\ t \in Seq(S) /\ Len(t) = (IF i <= last THEN last - i + 1 ELSE 0)
        /\ \A k \in 1..(last - i + 1) : t[k] = q[i + k - 1]
    <3>1. \A k \in i..last : q[k] \in S
      BY <2>2 DEF last
    <3> QED BY <2>3, <3>1, SubSeqProperties
  <2> HIDE DEF s, t
  <2>6. \A k \in 1..Len(s) : s[k] = t[k]
    <3> SUFFICES ASSUME NEW k \in 1..Len(s) PROVE s[k] = t[k]
      OBVIOUS
    <3>1. k \in 1..(last - i + 1)
      BY <2>3, <2>4
    <3>2. i + k - 1 \in i..last
      BY <2>3, <3>1
    <3>3. p[i + k - 1] = q[i + k - 1]
      BY <2>2, <3>2 DEF last
    <3> QED BY <2>4, <2>5, <3>1, <3>3
  <2>7. s = t
    <3>1. Len(s) = Len(t)
      BY <2>4, <2>5
    <3> QED BY <2>4, <2>5, <2>6, <3>1, SeqEqual
  <2> QED BY <2>7 DEF s, t, last
<1> QED BY <1>3, <1>4, <1>5 DEF HasFragment, m

Fragments(policy) ==
  \A fragment \in policy.keys \cup policy.directories : fragment \in Seq(Range(fragment))

LEMMA ExcludedBelow ==
  ASSUME NEW policy, Fragments(policy),
         NEW p, p \in Seq(Range(p)), NEW q, q \in Seq(Range(q)), IsPrefix(Folded(p), Folded(q))
  PROVE  /\ IsExcludedPath(policy, p) => IsExcludedPath(policy, q)
         /\ IsExcludedKey(policy, p) => IsExcludedKey(policy, q)
<1> DEFINE fp == Folded(p)
           fq == Folded(q)
<1>1. fp \in Seq(Range(fp)) /\ fq \in Seq(Range(fq)) /\ IsPrefix(fp, fq)
  BY FoldedIs
<1> HIDE DEF fp, fq
<1>2. 1 \in Nat \ {0} /\ 2 \in Nat \ {0}
  OBVIOUS
<1>3. ASSUME NEW fragment \in policy.keys \cup policy.directories, NEW first \in {1, 2},
             HasFragment(fp, fragment, first)
      PROVE  HasFragment(fq, fragment, first)
  <2>1. fragment \in Seq(Range(fragment)) /\ first \in Nat \ {0}
    BY DEF Fragments
  <2> QED BY <1>1, <1>3, <2>1, FragmentBelow
<1>4. IsExcludedPath(policy, p) => IsExcludedPath(policy, q)
  BY <1>3 DEF IsExcludedPath, fp, fq
<1>5. IsExcludedKey(policy, p) => IsExcludedKey(policy, q)
  BY <1>3 DEF IsExcludedKey, fp, fq
<1> QED BY <1>4, <1>5

-------------------------------------------------------------------------------
(* What a snapshot says of the machine is what its steps found it to be.    *)

(* The roots a walk of the nodes starts from, and what a step makes of what *)
(* it finds.                                                                *)
RootsOf(nodes) ==
  WalkRoots({r \in DefaultRoots : HasDirectory(nodes, r)},
            LibrariesToWalk(nodes, LibraryFolders).present)
Listing(build, nodes) == ListFiles(build.policy, nodes, RootsOf(nodes))
Recorded(opened, files) == {RecordFile(opened, f) : f \in files}

ShowsServices(s, x) ==
  LET read == ReadServices(EnumerateServices(x.enumerated), x.configured)
  IN  s.services = read.services /\ read.access_denied \subseteq s.coverage.access_denied
ShowsFiles(s, x) ==
  /\ s.files = Recorded(x.opened, Listing(x.build, x.listed).files)
  /\ Listing(x.build, x.listed).access_denied \subseteq s.coverage.access_denied
  /\ \E libraries : s.filesystem_policy =
       Some([roots |-> RootsOf(x.listed), excluded |-> x.build.policy.directories,
             libraries |-> libraries])
  /\ s.file_empty_directories \in {None, Some(Listing(x.build, x.listed).empty)}
ShowsKeys(s, x) ==
  LET read == CaptureRegistry(x.build.policy, x.keys)
  IN  /\ s.registry = read.records /\ read.access_denied \subseteq s.coverage.access_denied
      /\ s.registry_policy = Some(x.build.policy.keys)

OfMachines(x) ==
  /\ x.build \in Range(Builds)
  /\ \E m \in Machines : x.listed = m.nodes
  /\ \E m \in Machines : x.keys = m.keys

Shows(s, x) ==
  /\ OfMachines(x)
  /\ s.coverage.captured = x.build.domains
  /\ s.boot_session \in {None, Some(x.started)}
  /\ "services" \in x.build.domains => ShowsServices(s, x)
  /\ "filesystem" \in x.build.domains => ShowsFiles(s, x)
  /\ "registry" \in x.build.domains => ShowsKeys(s, x)

(* So does one being taken, of the steps it has made.                       *)
BegunShows ==
  /\ capture.boot \in {None, Some(started)} /\ capture.build \in Range(Builds)
  /\ capture.entries = EnumerateServices(capture.enumerated)
ServicesShow == capture.services = ReadServices(capture.entries, capture.configured)
WalkShows ==
  /\ \E m \in Machines : capture.listed = m.nodes
  /\ capture.roots = RootsOf(capture.listed)
  /\ capture.files = Listing(capture.build, capture.listed)
ContentsShow == capture.records = Recorded(capture.opened, capture.files.files)

CaptureShows ==
  /\ started <= now
  /\ phase \in Steps => BegunShows
  /\ phase \in AfterServices => ServicesShow
  /\ phase \in AfterFilesystem => WalkShows
  /\ phase = "registry" => ContentsShow

SnapshotsShow == \A n \in DOMAIN snapshots : Shows(snapshots[n], seen[n])

(* A diff the current build wrote over is the one compare made, refiltered. *)
AsCompared(e) == e.by # e.run.build => e.diff = Refilter(Policy, DiffOf(e.run))
DiffsCompared == \A n \in DOMAIN diffs : AsCompared(diffs[n])

ShowInv == CaptureShows /\ SnapshotsShow /\ DiffsCompared

LEMMA InitShows ==
  ASSUME Init
  PROVE  ShowInv
<1>1. CaptureShows
  BY DEF Init, CaptureShows, Steps, AfterServices, AfterFilesystem
<1>2. snapshots = <<>> /\ diffs = <<>>
  BY DEF Init
<1>3. DOMAIN snapshots = {} /\ DOMAIN diffs = {}
  BY <1>2, SeqOfNothing, Zenon
<1> QED BY <1>1, <1>3 DEF ShowInv, SnapshotsShow, DiffsCompared

LEMMA ShownStays ==
  ASSUME SnapshotsShow, UNCHANGED <<snapshots, seen>>
  PROVE  SnapshotsShow'
BY DEF SnapshotsShow

LEMMA ComparedStays ==
  ASSUME DiffsCompared, UNCHANGED <<snapshots, diffs>>
  PROVE  DiffsCompared'
<1>1. \A e : AsCompared(e)' <=> AsCompared(e)
  BY DEF AsCompared, DiffOf, Policy
<1> QED BY <1>1 DEF DiffsCompared

LEMMA CaptureShowsStays ==
  ASSUME CaptureShows, UNCHANGED <<phase, capture, started>>, started <= now'
  PROVE  CaptureShows'
BY DEF CaptureShows, BegunShows, ServicesShow, WalkShows, ContentsShow

LEMMA NothingShown ==
  ASSUME phase' = "idle", started' <= now'
  PROVE  CaptureShows'
BY DEF CaptureShows, Steps, AfterServices, AfterFilesystem

LEMMA BeginSnapshotShows ==
  ASSUME Held, ShowInv, NEW b \in DOMAIN Builds, BeginSnapshot(b)
  PROVE  CaptureShows'
<1>1. phase' = "services" /\ started' = started /\ now' = now
  BY DEF BeginSnapshot, machineVars
<1> DEFINE boot == IF Builds[b].keeps_boot THEN Some(BootInstant(now, now - started)) ELSE None
<1>2. boot \in {None, Some(started)}
  <2>1. now \in Nat /\ started \in Nat /\ started <= now
    BY DEF Held, MachineHeld, ShowInv, CaptureShows
  <2>2. BootInstant(now, now - started) = started
    BY <2>1 DEF BootInstant
  <2> QED BY <2>2
<1>3. capture' = [build |-> Builds[b], taken |-> now, boot |-> boot,
                  entries |-> EnumerateServices(machine.services),
                  enumerated |-> machine.services]
  BY DEF BeginSnapshot
<1> HIDE DEF boot
<1>4. /\ capture'.build = Builds[b] /\ capture'.boot = boot
      /\ capture'.entries = EnumerateServices(machine.services)
      /\ capture'.enumerated = machine.services
  BY <1>3
<1>5. Builds[b] \in Range(Builds)
  BY DEF Range
<1>6. BegunShows'
  BY <1>1, <1>2, <1>4, <1>5 DEF BegunShows
<1> QED BY <1>1, <1>6 DEF ShowInv, CaptureShows, Steps, AfterServices, AfterFilesystem

LEMMA TakeServicesShows ==
  ASSUME Held, ShowInv, TakeServices
  PROVE  CaptureShows'
<1> DEFINE read == ReadServices(capture.entries, machine.services)
           found == [services |-> read, configured |-> machine.services]
<1>1. phase = "services" /\ phase' = "filesystem" /\ started' = started /\ now' = now
      /\ capture' = Step(found)
  BY DEF TakeServices, machineVars
<1>2. Begun /\ BegunShows
  BY <1>1 DEF Held, CaptureHeld, ShowInv, CaptureShows, Steps
<1>3. DOMAIN found = {"services", "configured"} /\ found.services = read
      /\ found.configured = machine.services
  OBVIOUS
<1> HIDE DEF found, read
<1>4. /\ capture'.services = read /\ capture'.configured = machine.services
      /\ capture'.boot = capture.boot /\ capture'.build = capture.build
      /\ capture'.entries = capture.entries /\ capture'.enumerated = capture.enumerated
  <2>1. /\ \A part \in DOMAIN found : capture'[part] = found[part]
        /\ \A part \in DOMAIN capture \ DOMAIN found : capture'[part] = capture[part]
    BY <1>1, FoundIsKept
  <2>2. capture'.services = read /\ capture'.configured = machine.services
    BY <1>3, <2>1
  <2>3. /\ capture'.boot = capture.boot /\ capture'.build = capture.build
        /\ capture'.entries = capture.entries /\ capture'.enumerated = capture.enumerated
    BY <1>2, <1>3, <2>1 DEF Begun
  <2> QED BY <2>2, <2>3
<1>5. BegunShows'
  BY <1>1, <1>2, <1>4 DEF BegunShows
<1>6. ServicesShow'
  BY <1>4 DEF ServicesShow, read
<1> QED BY <1>1, <1>5, <1>6 DEF ShowInv, CaptureShows, Steps, AfterServices, AfterFilesystem

LEMMA WalkFilesystemShows ==
  ASSUME Held, ShowInv, WalkFilesystem
  PROVE  CaptureShows'
<1> DEFINE libraries == LibrariesToWalk(machine.nodes, LibraryFolders)
           roots == RootsOf(machine.nodes)
           files == Listing(capture.build, machine.nodes)
           found == [files |-> files, gaps |-> libraries.gaps, roots |-> roots,
                     libraries |-> libraries.present, listed |-> machine.nodes]
<1>1. phase = "filesystem" /\ phase' = "contents" /\ started' = started
      /\ now' = now + WalkMinutes
  BY DEF WalkFilesystem
<1>2. capture' = Step(found)
  BY DEF WalkFilesystem, RootsOf, Listing
<1>3. Begun /\ ServicesTaken /\ BegunShows /\ ServicesShow
  BY <1>1 DEF Held, CaptureHeld, ShowInv, CaptureShows, Steps, AfterServices
<1> HIDE DEF libraries, roots, files
<1>4. /\ DOMAIN found = {"files", "gaps", "roots", "libraries", "listed"}
      /\ found.files = files /\ found.roots = roots /\ found.listed = machine.nodes
  OBVIOUS
<1> HIDE DEF found
<1>5. /\ \A part \in DOMAIN found : capture'[part] = found[part]
      /\ \A part \in DOMAIN capture \ DOMAIN found : capture'[part] = capture[part]
  BY <1>2, FoundIsKept
<1>6. capture'.files = files /\ capture'.roots = roots /\ capture'.listed = machine.nodes
  BY <1>4, <1>5
<1>7. /\ capture'.boot = capture.boot /\ capture'.build = capture.build
      /\ capture'.entries = capture.entries /\ capture'.enumerated = capture.enumerated
  BY <1>3, <1>4, <1>5 DEF Begun
<1>8. capture'.services = capture.services /\ capture'.configured = capture.configured
  BY <1>3, <1>4, <1>5 DEF ServicesTaken
<1>9. BegunShows' /\ ServicesShow'
  BY <1>1, <1>3, <1>7, <1>8 DEF BegunShows, ServicesShow
<1>10. WalkShows'
  BY <1>6, <1>7 DEF WalkShows, Held, MachineHeld, roots, files
<1>11. started' <= now'
  BY <1>1, Bounds DEF Held, MachineHeld, ShowInv, CaptureShows
<1> QED BY <1>1, <1>9, <1>10, <1>11 DEF CaptureShows, Steps, AfterServices, AfterFilesystem

LEMMA ReadContentsShows ==
  ASSUME Held, ShowInv, ReadContents
  PROVE  CaptureShows'
<1> DEFINE records == Recorded(machine.nodes, capture.files.files)
           found == [opened |-> machine.nodes, records |-> records]
<1>1. phase = "contents" /\ phase' = "registry" /\ started' = started /\ now' = now
      /\ capture' = Step(found)
  BY DEF ReadContents, machineVars, Recorded
<1>2. Begun /\ ServicesTaken /\ Walked /\ BegunShows /\ ServicesShow /\ WalkShows
  BY <1>1 DEF Held, CaptureHeld, ShowInv, CaptureShows, Steps, AfterServices, AfterFilesystem
<1> HIDE DEF records
<1>3. /\ DOMAIN found = {"opened", "records"} /\ found.opened = machine.nodes
      /\ found.records = records
  OBVIOUS
<1> HIDE DEF found
<1>4. /\ \A part \in DOMAIN found : capture'[part] = found[part]
      /\ \A part \in DOMAIN capture \ DOMAIN found : capture'[part] = capture[part]
  BY <1>1, FoundIsKept
<1>5. capture'.opened = machine.nodes /\ capture'.records = records
  BY <1>3, <1>4
<1>6. /\ capture'.boot = capture.boot /\ capture'.build = capture.build
      /\ capture'.entries = capture.entries /\ capture'.enumerated = capture.enumerated
  BY <1>2, <1>3, <1>4 DEF Begun
<1>7. capture'.services = capture.services /\ capture'.configured = capture.configured
  BY <1>2, <1>3, <1>4 DEF ServicesTaken
<1>8. capture'.files = capture.files /\ capture'.roots = capture.roots
      /\ capture'.listed = capture.listed
  BY <1>2, <1>3, <1>4 DEF Walked
<1>9. BegunShows' /\ ServicesShow'
  BY <1>1, <1>2, <1>6, <1>7 DEF BegunShows, ServicesShow
<1>10. WalkShows'
  BY <1>2, <1>6, <1>8 DEF WalkShows
<1>11. ContentsShow'
  BY <1>5, <1>8 DEF ContentsShow, records
<1> QED BY <1>1, <1>9, <1>10, <1>11 DEF ShowInv, CaptureShows, Steps, AfterServices, AfterFilesystem

LEMMA WrittenShows ==
  ASSUME NEW registry, NEW s, s = Written(registry)
  PROVE  LET denied == s.coverage.access_denied
         IN  /\ s.coverage.captured = capture.build.domains
             /\ s.boot_session = capture.boot
             /\ Captures("services") =>
                  /\ s.services = capture.services.services
                  /\ capture.services.access_denied \subseteq denied
             /\ Captures("filesystem") =>
                  /\ s.files = capture.records /\ capture.files.access_denied \subseteq denied
                  /\ s.filesystem_policy = Some([roots |-> capture.roots,
                       excluded |-> capture.build.policy.directories,
                       libraries |-> capture.libraries])
                  /\ s.file_empty_directories \in {None, Some(capture.files.empty)}
             /\ Captures("registry") =>
                  /\ s.registry = registry.records /\ registry.access_denied \subseteq denied
                  /\ s.registry_policy = Some(capture.build.policy.keys)
<1>1. /\ s.coverage.captured = capture.build.domains
      /\ s.boot_session = capture.boot
  BY DEF Written
<1>2. s.coverage.access_denied =
        (IF Captures("services") THEN capture.services.access_denied ELSE {})
        \cup (IF Captures("filesystem") THEN capture.gaps \cup capture.files.access_denied ELSE {})
        \cup (IF Captures("registry") THEN registry.access_denied ELSE {})
  BY DEF Written
<1>3. Captures("services") => s.services = capture.services.services
  BY DEF Written
<1>4. Captures("filesystem") =>
        /\ s.files = capture.records
        /\ s.filesystem_policy = Some([roots |-> capture.roots,
             excluded |-> capture.build.policy.directories, libraries |-> capture.libraries])
        /\ s.file_empty_directories \in {None, Some(capture.files.empty)}
  BY DEF Written
<1>5. Captures("registry") =>
        /\ s.registry = registry.records /\ s.registry_policy = Some(capture.build.policy.keys)
  BY DEF Written
<1> QED BY <1>1, <1>2, <1>3, <1>4, <1>5

LEMMA FinishSnapshotShows ==
  ASSUME Held, ShowInv, FinishSnapshot
  PROVE  SnapshotsShow'
<1> DEFINE registry == CaptureRegistry(capture.build.policy, machine.keys)
           s == Written(registry)
           x == [enumerated |-> capture.enumerated, configured |-> capture.configured,
                 listed |-> capture.listed, opened |-> capture.opened,
                 keys |-> machine.keys, started |-> started, build |-> capture.build]
<1>1. /\ phase = "registry"
      /\ snapshots' = Append(snapshots, s) /\ seen' = Append(seen, x)
  BY DEF FinishSnapshot
<1>2. BegunShows /\ ServicesShow /\ WalkShows /\ ContentsShow
  BY <1>1 DEF ShowInv, CaptureShows, Steps, AfterServices, AfterFilesystem
<1>3. /\ x.enumerated = capture.enumerated /\ x.configured = capture.configured
      /\ x.listed = capture.listed /\ x.opened = capture.opened /\ x.keys = machine.keys
      /\ x.started = started /\ x.build = capture.build
  OBVIOUS
<1> HIDE DEF x
<1>4. Shows(s, x)
  <2> DEFINE denied == s.coverage.access_denied
  <2>1. /\ s.coverage.captured = capture.build.domains
        /\ s.boot_session = capture.boot
        /\ Captures("services") =>
             /\ s.services = capture.services.services
             /\ capture.services.access_denied \subseteq denied
        /\ Captures("filesystem") =>
             /\ s.files = capture.records /\ capture.files.access_denied \subseteq denied
             /\ s.filesystem_policy = Some([roots |-> capture.roots,
                  excluded |-> capture.build.policy.directories,
                  libraries |-> capture.libraries])
             /\ s.file_empty_directories \in {None, Some(capture.files.empty)}
        /\ Captures("registry") =>
             /\ s.registry = registry.records /\ registry.access_denied \subseteq denied
             /\ s.registry_policy = Some(capture.build.policy.keys)
    <3> HIDE DEF registry
    <3> QED BY WrittenShows
  <2> HIDE DEF s
  <2>2. OfMachines(x)
    BY <1>2, <1>3 DEF OfMachines, BegunShows, WalkShows, Held, MachineHeld
  <2>3. "services" \in x.build.domains => ShowsServices(s, x)
    <3>1. ReadServices(EnumerateServices(x.enumerated), x.configured) = capture.services
      BY <1>2, <1>3 DEF BegunShows, ServicesShow
    <3> QED BY <1>3, <2>1, <3>1 DEF ShowsServices, Captures
  <2>4. "filesystem" \in x.build.domains => ShowsFiles(s, x)
    <3>1. Listing(x.build, x.listed) = capture.files /\ RootsOf(x.listed) = capture.roots
      BY <1>2, <1>3 DEF WalkShows
    <3>2. Recorded(x.opened, capture.files.files) = capture.records
      BY <1>2, <1>3 DEF ContentsShow
    <3> QED BY <1>3, <2>1, <3>1, <3>2 DEF ShowsFiles, Captures
  <2>5. "registry" \in x.build.domains => ShowsKeys(s, x)
    BY <1>3, <2>1 DEF ShowsKeys, Captures
  <2>6. s.coverage.captured = x.build.domains /\ s.boot_session \in {None, Some(x.started)}
    BY <1>2, <1>3, <2>1 DEF BegunShows
  <2> QED BY <2>2, <2>3, <2>4, <2>5, <2>6 DEF Shows
<1> HIDE DEF s
<1>5. IsSeq(snapshots) /\ IsSeq(seen) /\ Len(snapshots) = Len(seen) /\ Len(snapshots) \in Nat
      /\ DOMAIN snapshots = 1..Len(snapshots) /\ DOMAIN seen = 1..Len(seen)
  BY SeqShape DEF Held, SnapshotsHeld
<1>6. DOMAIN snapshots' = 1..(Len(snapshots) + 1)
  BY <1>1, <1>5, SeqAppend
<1>7. \A i \in DOMAIN snapshots : snapshots'[i] = snapshots[i]
  BY <1>1, <1>5, SeqAppend
<1>8. snapshots'[Len(snapshots) + 1] = s
  BY <1>1, <1>5, SeqAppend
<1>9. \A i \in DOMAIN seen : seen'[i] = seen[i]
  BY <1>1, <1>5, SeqAppend
<1>10. seen'[Len(seen) + 1] = x
  BY <1>1, <1>5, SeqAppend
<1>11. \A n \in DOMAIN snapshots' : n \in DOMAIN snapshots \/ n = Len(snapshots) + 1
  BY <1>5, <1>6
<1>12. \A n \in DOMAIN snapshots' : Shows(snapshots'[n], seen'[n])
  BY <1>4, <1>5, <1>7, <1>8, <1>9, <1>10, <1>11 DEF ShowInv, SnapshotsShow
<1> QED BY <1>12 DEF SnapshotsShow

LEMMA RunDiffCompared ==
  ASSUME Held, ShowInv, NEW r \in DOMAIN DiffRuns, RunDiff(r)
  PROVE  DiffsCompared'
<1> DEFINE run == DiffRuns[r]
           e == [run |-> run, by |-> run.build, diff |-> DiffOf(run)]
<1>1. diffs' = Append(diffs, e) /\ snapshots' = snapshots
  BY DEF RunDiff
<1>2. e.run = run /\ e.by = run.build
  OBVIOUS
<1> HIDE DEF e, run
<1>3. AsCompared(e)
  BY <1>2 DEF AsCompared
<1>4. IsSeq(diffs) /\ Len(diffs) \in Nat /\ DOMAIN diffs = 1..Len(diffs)
  BY SeqShape DEF Held, DiffsHeld
<1>5. DOMAIN diffs' = 1..(Len(diffs) + 1)
  BY <1>1, <1>4, SeqAppend
<1>6. \A i \in DOMAIN diffs : diffs'[i] = diffs[i]
  BY <1>1, <1>4, SeqAppend
<1>7. diffs'[Len(diffs) + 1] = e
  BY <1>1, <1>4, SeqAppend
<1>8. \A n \in DOMAIN diffs' : n \in DOMAIN diffs \/ n = Len(diffs) + 1
  BY <1>4, <1>5
<1>9. \A n \in DOMAIN diffs' : AsCompared(diffs'[n])
  BY <1>3, <1>6, <1>7, <1>8 DEF ShowInv, DiffsCompared
<1>10. \A n \in DOMAIN diffs' : AsCompared(diffs[n])'
  BY <1>1, <1>9 DEF AsCompared, DiffOf, Policy
<1> QED BY <1>10 DEF DiffsCompared

LEMMA RunRefilterCompared ==
  ASSUME Held, ShowInv, NEW n \in DOMAIN diffs, RunRefilter(n)
  PROVE  DiffsCompared'
<1> DEFINE e == diffs[n]
           x == [e EXCEPT !.by = CurrentBuild, !.diff = Refilter(Policy, @)]
<1>1. diffs' = [diffs EXCEPT ![n] = x] /\ snapshots' = snapshots /\ e.by # CurrentBuild
  BY DEF RunRefilter
<1>2. DiffHeld(e)
  BY DEF Held, DiffsHeld
<1> HIDE DEF e
<1>3. /\ DOMAIN e = {"run", "by", "diff"} /\ e.by = e.run.build
      /\ e.diff = DiffOf(e.run)
  BY <1>1, <1>2 DEF DiffHeld
<1>4. x.run = e.run /\ x.by = CurrentBuild /\ x.diff = Refilter(Policy, e.diff)
  BY <1>3
<1> HIDE DEF x
<1>5. AsCompared(x)
  BY <1>3, <1>4 DEF AsCompared
<1>6. DOMAIN diffs' = DOMAIN diffs
  BY <1>1
<1>7. \A i \in DOMAIN diffs' : diffs'[i] = x \/ diffs'[i] = diffs[i]
  BY <1>1
<1>8. \A i \in DOMAIN diffs' : AsCompared(diffs'[i])
  BY <1>5, <1>6, <1>7 DEF ShowInv, DiffsCompared
<1>9. \A i \in DOMAIN diffs' : AsCompared(diffs[i])'
  BY <1>1, <1>8 DEF AsCompared, DiffOf, Policy
<1> QED BY <1>9 DEF DiffsCompared

LEMMA ShowInvStep ==
  ASSUME Held, ShowInv, [Next]_vars
  PROVE  ShowInv'
<1>1. started \in Nat /\ now \in Nat /\ started <= now
  BY DEF Held, MachineHeld, ShowInv, CaptureShows
<1>2. CASE MachineChanges
  <2>1. UNCHANGED <<phase, capture, started, now, snapshots, seen, diffs>>
    BY <1>2 DEF MachineChanges, written
  <2> QED BY <1>1, <2>1, CaptureShowsStays, ShownStays, ComparedStays DEF ShowInv
<1>3. CASE Restart
  <2>1. phase' = "idle" /\ started' = now' /\ now' = now + 1 /\ UNCHANGED <<snapshots, seen, diffs>>
    BY <1>3 DEF Restart, written
  <2>2. started' <= now'
    BY <1>1, <2>1
  <2> QED BY <2>1, <2>2, NothingShown, ShownStays, ComparedStays DEF ShowInv
<1>4. ASSUME NEW b \in DOMAIN Builds, BeginSnapshot(b) PROVE ShowInv'
  <2>1. UNCHANGED <<snapshots, seen, diffs>>
    BY <1>4 DEF BeginSnapshot, written
  <2> QED BY <1>4, <2>1, BeginSnapshotShows, ShownStays, ComparedStays DEF ShowInv
<1>5. CASE ServicesFail
  <2>1. phase' = "idle" /\ UNCHANGED <<started, now, snapshots, seen, diffs>>
    BY <1>5 DEF ServicesFail, machineVars, written
  <2> QED BY <1>1, <2>1, NothingShown, ShownStays, ComparedStays DEF ShowInv
<1>6. CASE TakeServices
  <2>1. UNCHANGED <<snapshots, seen, diffs>>
    BY <1>6 DEF TakeServices, written
  <2> QED BY <1>6, <2>1, TakeServicesShows, ShownStays, ComparedStays DEF ShowInv
<1>7. CASE WalkFilesystem
  <2>1. UNCHANGED <<snapshots, seen, diffs>>
    BY <1>7 DEF WalkFilesystem, written
  <2> QED BY <1>7, <2>1, WalkFilesystemShows, ShownStays, ComparedStays DEF ShowInv
<1>8. CASE ReadContents
  <2>1. UNCHANGED <<snapshots, seen, diffs>>
    BY <1>8 DEF ReadContents, written
  <2> QED BY <1>8, <2>1, ReadContentsShows, ShownStays, ComparedStays DEF ShowInv
<1>9. CASE FinishSnapshot
  <2>1. phase' = "idle" /\ started' = started /\ now' = now + 1
    BY <1>9 DEF FinishSnapshot
  <2>2. CaptureShows'
    BY <1>1, <2>1, NothingShown
  <2>3. diffs = <<>> /\ diffs' = <<>>
    BY <1>9 DEF FinishSnapshot, Held, CaptureHeld, Steps
  <2>4. DOMAIN diffs' = {}
    BY <2>3, SeqOfNothing, Zenon
  <2>5. DiffsCompared'
    BY <2>4 DEF DiffsCompared
  <2> QED BY <1>9, <2>2, <2>5, FinishSnapshotShows DEF ShowInv
<1>10. ASSUME UNCHANGED <<machineVars, phase, capture, snapshots, seen>>, DiffsCompared'
       PROVE  ShowInv'
  BY <1>1, <1>10, CaptureShowsStays, ShownStays DEF ShowInv, machineVars
<1>11. ASSUME NEW r \in DOMAIN DiffRuns, RunDiff(r) PROVE ShowInv'
  <2>1. UNCHANGED <<machineVars, phase, capture, snapshots, seen>>
    BY <1>11 DEF RunDiff
  <2> QED BY <1>10, <1>11, <2>1, RunDiffCompared
<1>12. ASSUME NEW n \in DOMAIN diffs, RunRefilter(n) PROVE ShowInv'
  <2>1. UNCHANGED <<machineVars, phase, capture, snapshots, seen>>
    BY <1>12 DEF RunRefilter
  <2> QED BY <1>10, <1>12, <2>1, RunRefilterCompared
<1>13. ASSUME UNCHANGED <<machineVars, phase, capture, snapshots, seen, diffs>> PROVE ShowInv'
  <2>1. DiffsCompared'
    BY <1>13, ComparedStays DEF ShowInv
  <2> QED BY <1>10, <1>13, <2>1
<1>14. CASE Next
  <2>1. RunIntersect => UNCHANGED <<machineVars, phase, capture, snapshots, seen, diffs>>
    BY DEF RunIntersect
  <2>2. \A asked : RunSuggest(asked) => UNCHANGED <<machineVars, phase, capture, snapshots, seen, diffs>>
    BY DEF RunSuggest
  <2> QED BY <1>2, <1>3, <1>4, <1>5, <1>6, <1>7, <1>8, <1>9, <1>11, <1>12, <1>13, <1>14, <2>1, <2>2
          DEF Next
<1>15. CASE UNCHANGED vars
  BY <1>13, <1>15 DEF vars, written
<1> QED BY <1>14, <1>15

(* What a snapshot says of the machine is what its steps found it to be,    *)
(* and every diff is what compare made of two snapshots, refiltered if the  *)
(* current build wrote it over (take_snapshot, run_diff, run_refilter).     *)
THEOREM AlwaysShown == Spec => []ShowInv
<1>1. Init => ShowInv
  BY InitShows
<1>2. Held /\ ShowInv /\ [Next]_vars => ShowInv'
  BY ShowInvStep
<1> QED BY <1>1, <1>2, AlwaysHeld, PTL DEF Spec

-------------------------------------------------------------------------------
(* A walk of the filesystem, a node at a time.                              *)

WalkLists(n) == n.kind = "directory" /\ n.fault = "none"
WalkEnters(policy, roots, n) ==
  \/ n.path \in roots
  \/ n.fault \notin {"unlisted", "metadata"} /\ ~IsExcludedPath(policy, n.path)
WalkReaches(policy, nodes, roots, n) ==
  \E root \in roots :
    /\ IsPrefix(root, n.path)
    /\ \A m \in nodes : IsPrefix(root, m.path) /\ IsStrictPrefix(m.path, n.path) =>
         WalkEnters(policy, roots, m) /\ WalkLists(m)
WalkSees(policy, nodes, roots, n) ==
  /\ n \in nodes /\ WalkReaches(policy, nodes, roots, n)
  /\ n.fault # "unlisted" \/ n.path \in roots

FileOf(n) == [path |-> n.path, size |-> n.size, modified_utc |-> n.modified]

LEMMA WalkIs ==
  ASSUME NEW policy, NEW nodes, NEW roots
  PROVE  LET walk == ListFiles(policy, nodes, roots)
         IN  /\ \A f : f \in walk.files <=>
                  \E n : /\ WalkSees(policy, nodes, roots, n) /\ WalkEnters(policy, roots, n)
                         /\ n.kind = "file" /\ f = FileOf(n)
             /\ \A n : /\ WalkSees(policy, nodes, roots, n)
                       /\ \/ ~WalkEnters(policy, roots, n) /\ ~IsExcludedPath(policy, n.path)
                          \/ WalkEnters(policy, roots, n) /\ n.kind = "link"
                          \/ WalkEnters(policy, roots, n) /\ n.kind = "directory" /\ ~WalkLists(n)
                       => DeniedPath(n.path) \in walk.access_denied
<1> DEFINE walk == ListFiles(policy, nodes, roots)
           Enters(n) == WalkEnters(policy, roots, n)
           reached == {n \in nodes : \E root \in roots :
                         /\ IsPrefix(root, n.path)
                         /\ \A m \in {m \in nodes : IsPrefix(root, m.path)
                                                    /\ IsStrictPrefix(m.path, n.path)} :
                              Enters(m) /\ WalkLists(m)}
           visible == {n \in reached : n.fault # "unlisted" \/ n.path \in roots}
           entered == {n \in visible : Enters(n)}
           closed  == {n \in entered : n.kind = "directory"} \ {n \in entered : WalkLists(n)}
           refused == {n \in visible \ entered : ~IsExcludedPath(policy, n.path)}
           links   == {n \in entered : n.kind = "link"}
           files   == {n \in entered : n.kind = "file"}
<1>1. walk.files = {FileOf(n) : n \in files}
  BY DEF ListFiles, WalkEnters, WalkLists, FileOf
<1>2. walk.access_denied = {DeniedPath(n.path) : n \in closed \cup refused \cup links}
  BY DEF ListFiles, WalkEnters, WalkLists
<1>3. \A n : n \in reached <=> n \in nodes /\ WalkReaches(policy, nodes, roots, n)
  BY DEF WalkReaches
<1>4. \A n : n \in visible <=> WalkSees(policy, nodes, roots, n)
  <2> HIDE DEF reached
  <2> QED BY <1>3 DEF WalkSees
<1> HIDE DEF walk, visible
<1>5. \A f : f \in walk.files <=>
        \E n : WalkSees(policy, nodes, roots, n) /\ Enters(n) /\ n.kind = "file" /\ f = FileOf(n)
  <2> HIDE DEF Enters
  <2> QED BY <1>1, <1>4
<1>6. ASSUME NEW n, WalkSees(policy, nodes, roots, n),
             \/ ~Enters(n) /\ ~IsExcludedPath(policy, n.path)
             \/ Enters(n) /\ n.kind = "link"
             \/ Enters(n) /\ n.kind = "directory" /\ ~WalkLists(n)
      PROVE  DeniedPath(n.path) \in walk.access_denied
  <2> HIDE DEF Enters
  <2>1. n \in visible
    BY <1>4, <1>6
  <2>2. n \in closed \cup refused \cup links
    BY <1>6, <2>1
  <2> QED BY <1>2, <2>2
<1> QED BY <1>5, <1>6 DEF walk

(* A node below a root that the policy does not exclude is reached, or it   *)
(* is below what was refused or what its own directory could not list.      *)
LEMMA NodeReached ==
  ASSUME NEW policy, Fragments(policy), NEW nodes, IsFileTree(nodes),
         NEW roots, NEW root \in roots, IsPath(root),
         NEW m \in nodes, IsPrefix(root, m.path), ~IsExcludedPath(policy, m.path)
  PROVE  LET walk == ListFiles(policy, nodes, roots)
         IN  \/ WalkReaches(policy, nodes, roots, m)
             \/ \E n \in nodes : IsPrefix(n.path, m.path) /\ n.fault = "unlisted"
             \/ \E n \in nodes : IsPrefix(n.path, m.path) /\ DeniedPath(n.path) \in walk.access_denied
<1> DEFINE walk == ListFiles(policy, nodes, roots)
           Passes(n) == WalkEnters(policy, roots, n) /\ WalkLists(n)
           Above(n) == n \in nodes /\ IsPrefix(root, n.path) /\ IsPrefix(n.path, m.path)
           stopping == {n \in nodes : Above(n) /\ (n = m \/ ~Passes(n))}
           lengths == {Len(n.path) : n \in stopping}
<1>1. root \in Seq(Range(root)) /\ \A n \in nodes : n.path \in Seq(Range(n.path))
  BY DEF IsFileTree, IsPath
<1>2. \A n \in nodes : Len(n.path) \in Nat
  BY <1>1, PathShape
<1>3. IsPrefix(m.path, m.path)
  <2>1. Len(m.path) <= Len(m.path)
    BY <1>2
  <2> QED BY <1>1, <2>1, PrefixIs
<1>4. m \in stopping
  BY <1>3
<1>5. PICK n \in stopping : \A k \in stopping : Len(n.path) <= Len(k.path)
  <2>1. lengths \in SUBSET Nat /\ lengths # {}
    BY <1>2, <1>4
  <2>2. PICK l \in lengths : \A k \in lengths : l <= k
    <3> HIDE DEF lengths
    <3> QED BY <2>1, LeastNatural
  <2> QED BY <2>2
<1>6. n \in nodes /\ IsPrefix(root, n.path) /\ IsPrefix(n.path, m.path) /\ (n = m \/ ~Passes(n))
  OBVIOUS
<1>7. ASSUME NEW k \in nodes, IsPrefix(root, k.path), IsStrictPrefix(k.path, n.path)
      PROVE  Passes(k)
  <2> SUFFICES ASSUME ~Passes(k) PROVE FALSE
    OBVIOUS
  <2>1. IsPrefix(k.path, n.path) /\ k.path # n.path
    BY <1>7 DEF IsStrictPrefix
  <2>2. IsPrefix(k.path, m.path)
    BY <1>1, <1>6, <2>1, PrefixOfPrefix
  <2>3. k \in stopping
    BY <1>7, <2>2
  <2>4. Len(k.path) < Len(n.path)
    BY <1>1, <1>6, <2>1, PrefixOfPrefix
  <2> QED BY <1>2, <1>5, <1>6, <2>3, <2>4
<1>8. WalkReaches(policy, nodes, roots, n)
  BY <1>6, <1>7 DEF WalkReaches
<1>9. ~IsExcludedPath(policy, n.path)
  <2>1. IsPrefix(Folded(n.path), Folded(m.path))
    BY <1>1, <1>6, FoldedPrefix
  <2> QED BY <1>1, <1>6, <2>1, ExcludedBelow
<1>10. CASE n = m
  BY <1>8, <1>10
<1>11. CASE n # m /\ n.fault = "unlisted"
  BY <1>6, <1>11
<1>12. CASE n # m /\ n.fault # "unlisted"
  <2>1. WalkSees(policy, nodes, roots, n)
    BY <1>6, <1>8, <1>12 DEF WalkSees
  <2>2. CASE ~WalkEnters(policy, roots, n)
    BY <1>6, <1>9, <2>1, <2>2, WalkIs
  <2>3. CASE WalkEnters(policy, roots, n)
    <3>1. ~WalkLists(n)
      BY <1>6, <1>12, <2>3
    <3>2. n.path # m.path
      BY <1>6, <1>12 DEF IsFileTree
    <3>3. IsStrictPrefix(n.path, m.path)
      BY <1>6, <3>2 DEF IsStrictPrefix
    <3>4. n.kind \in {"directory", "link"}
      BY <1>6, <3>3 DEF IsFileTree
    <3>5. DeniedPath(n.path) \in walk.access_denied
      BY <2>1, <2>3, <3>1, <3>4, WalkIs
    <3> QED BY <1>6, <3>5
  <2> QED BY <2>2, <2>3
<1> QED BY <1>10, <1>11, <1>12

(* So a file there is listed.                                               *)
LEMMA FileAccounted ==
  ASSUME NEW policy, Fragments(policy), NEW nodes, IsFileTree(nodes),
         NEW roots, NEW root \in roots, IsPath(root),
         NEW m \in nodes, m.kind = "file",
         IsPrefix(root, m.path), ~IsExcludedPath(policy, m.path)
  PROVE  LET walk == ListFiles(policy, nodes, roots)
         IN  \/ FileOf(m) \in walk.files
             \/ \E n \in nodes : IsPrefix(n.path, m.path) /\ n.fault = "unlisted"
             \/ \E n \in nodes : IsPrefix(n.path, m.path) /\ DeniedPath(n.path) \in walk.access_denied
<1> DEFINE walk == ListFiles(policy, nodes, roots)
<1>1. IsPrefix(m.path, m.path)
  <2>1. m.path \in Seq(Range(m.path))
    BY DEF IsFileTree, IsPath
  <2>2. Len(m.path) <= Len(m.path)
    BY <2>1, PathShape
  <2> QED BY <2>1, <2>2, PrefixIs
<1>2. CASE WalkReaches(policy, nodes, roots, m) /\ m.fault # "unlisted"
  <2>1. WalkSees(policy, nodes, roots, m)
    BY <1>2 DEF WalkSees
  <2>2. CASE WalkEnters(policy, roots, m)
    BY <2>1, <2>2, WalkIs
  <2>3. CASE ~WalkEnters(policy, roots, m)
    BY <1>1, <2>1, <2>3, WalkIs
  <2> QED BY <2>2, <2>3
<1>3. CASE m.fault = "unlisted"
  BY <1>1, <1>3
<1> QED BY <1>2, <1>3, NodeReached

-------------------------------------------------------------------------------
(* What a snapshot says of a file.                                          *)

LEMMA RootsAre ==
  ASSUME NEW nodes, NEW root \in RootsOf(nodes)
  PROVE  /\ root \in DefaultRoots \cup LibraryFolders /\ HasDirectory(nodes, root)
         /\ IsPath(root) /\ root # <<>>
<1>1. root \in DefaultRoots \cup LibraryFolders /\ HasDirectory(nodes, root)
  BY DEF RootsOf, WalkRoots, LibrariesToWalk
<1> QED BY <1>1, MachineAssumption

LEMMA NoFileIsARoot ==
  ASSUME NEW nodes, IsFileTree(nodes), NEW m \in nodes, m.kind = "file"
  PROVE  m.path \notin RootsOf(nodes)
<1> SUFFICES ASSUME m.path \in RootsOf(nodes) PROVE FALSE
  OBVIOUS
<1>1. PICK n \in nodes : n.path = m.path /\ n.kind = "directory"
  BY RootsAre DEF HasDirectory, NodesAt
<1> QED BY <1>1 DEF IsFileTree

(* A path within what a node's path spells is below it, case aside.         *)
LEMMA WithinItsSpelling ==
  ASSUME NEW p, IsPath(p), NEW root, IsPath(root)
  PROVE  /\ IsPath(Folded(p))
         /\ IsWithin(Folded(p), root) <=> IsWithin(p, root)
         /\ IsPrefix(root, p) => IsWithin(Folded(p), root)
         /\ Folded(Folded(p)) = Folded(p)
<1>1. Folded(Folded(p)) = Folded(p) /\ p \in Seq(Range(p)) /\ root \in Seq(Range(root))
  BY DEF IsPath
<1>2. IsPath(Folded(p))
  BY <1>1, FoldedIs DEF IsPath
<1>3. IsPrefix(root, p) => IsWithin(p, root)
  BY <1>1, FoldedPrefix DEF IsWithin
<1> QED BY <1>1, <1>2, <1>3 DEF IsWithin

LEMMA NodesOfMachines ==
  ASSUME NEW x, OfMachines(x)
  PROVE  IsFileTree(x.listed) /\ IsKeyTree(x.keys) /\ Fragments(x.build.policy)
BY MachineAssumption, PolicyAssumption DEF OfMachines, Fragments

DenialOfFile(s, path) ==
  \E item : IsPath(item) /\ IsWithin(path, item) /\ DeniedPath(item) \in s.coverage.access_denied

(* A file within the roots that the build did not exclude is in the         *)
(* snapshot, or lies below what is said to be unread or was never listed.   *)
LEMMA FileSeen ==
  ASSUME NEW s, NEW x, Shows(s, x), "filesystem" \in x.build.domains,
         NEW path, HasFile(x.listed, path), ~IsExcludedPath(x.build.policy, path),
         NEW root \in s.filesystem_policy[1].roots, IsWithin(path, root)
  PROVE  \/ \E r \in s.files : Folded(r.path) = path
         \/ \E n \in x.listed : n.fault = "unlisted" /\ IsWithin(path, n.path)
         \/ DenialOfFile(s, path)
<1> DEFINE nodes == x.listed
           walk == Listing(x.build, x.listed)
<1>1. OfMachines(x) /\ ShowsFiles(s, x)
  BY DEF Shows
<1>2. IsFileTree(nodes) /\ Fragments(x.build.policy)
  BY <1>1, NodesOfMachines
<1>3. PICK m \in nodes : m.kind = "file" /\ Folded(m.path) = path
  BY DEF HasFile
<1>4. root \in RootsOf(nodes)
  BY <1>1, SomeIsNotNone DEF ShowsFiles
<1>5. root \in DefaultRoots \cup LibraryFolders /\ IsPath(root)
  BY <1>4, RootsAre
<1>6. \A n \in nodes : IsPath(n.path)
  BY <1>2 DEF IsFileTree
<1>7. IsWithin(m.path, root)
  BY <1>3, <1>5, <1>6, WithinItsSpelling
<1>8. IsPrefix(root, m.path)
  BY <1>2, <1>5, <1>7 DEF IsFileTree, SpelledFrom
<1>9. ~IsExcludedPath(x.build.policy, m.path)
  <2>1. Folded(m.path) = Folded(path)
    BY <1>3, <1>6, WithinItsSpelling
  <2> QED BY <2>1, FoldedDecides
<1>10. walk = ListFiles(x.build.policy, nodes, RootsOf(nodes))
  BY DEF Listing
<1>11. \A n \in nodes : IsPrefix(n.path, m.path) => IsWithin(path, n.path)
  BY <1>3, <1>6, WithinItsSpelling
<1> HIDE DEF walk, nodes
<1>12. \/ FileOf(m) \in walk.files
       \/ \E n \in nodes : IsPrefix(n.path, m.path) /\ n.fault = "unlisted"
       \/ \E n \in nodes : IsPrefix(n.path, m.path) /\ DeniedPath(n.path) \in walk.access_denied
  BY <1>2, <1>3, <1>4, <1>5, <1>8, <1>9, <1>10, FileAccounted
<1>13. CASE FileOf(m) \in walk.files
  <2> DEFINE r == RecordFile(x.opened, FileOf(m))
  <2>1. r \in s.files
    BY <1>1, <1>13 DEF ShowsFiles, Recorded, walk
  <2>2. r.path = m.path
    BY DEF RecordFile, FileOf
  <2> QED BY <1>3, <2>1, <2>2
<1>14. CASE \E n \in nodes : IsPrefix(n.path, m.path) /\ n.fault = "unlisted"
  BY <1>11, <1>14 DEF nodes
<1>15. CASE \E n \in nodes : IsPrefix(n.path, m.path) /\ DeniedPath(n.path) \in walk.access_denied
  <2>1. walk.access_denied \subseteq s.coverage.access_denied
    BY <1>1 DEF ShowsFiles, walk
  <2> QED BY <1>6, <1>11, <1>15, <2>1 DEF DenialOfFile
<1> QED BY <1>12, <1>13, <1>14, <1>15

(* What a snapshot records as a file was one, within the roots and not      *)
(* excluded.                                                                *)
LEMMA FileRecorded ==
  ASSUME NEW s, NEW x, Shows(s, x), "filesystem" \in x.build.domains, NEW r \in s.files
  PROVE  /\ IsPath(r.path) /\ HasFile(x.listed, Folded(r.path))
         /\ ~IsExcludedPath(x.build.policy, r.path)
         /\ \E root \in s.filesystem_policy[1].roots : IsWithin(Folded(r.path), root)
<1> DEFINE nodes == x.listed
           policy == x.build.policy
           walk == ListFiles(policy, nodes, RootsOf(nodes))
<1>1. OfMachines(x) /\ ShowsFiles(s, x)
  BY DEF Shows
<1>2. IsFileTree(nodes)
  BY <1>1, NodesOfMachines
<1>3. PICK f \in walk.files : r = RecordFile(x.opened, f)
  BY <1>1 DEF ShowsFiles, Recorded, Listing
<1>4. r.path = f.path
  BY <1>3 DEF RecordFile
<1>5. PICK n : /\ WalkSees(policy, nodes, RootsOf(nodes), n)
               /\ WalkEnters(policy, RootsOf(nodes), n)
               /\ n.kind = "file" /\ f = FileOf(n)
  <2> HIDE DEF policy, nodes
  <2> QED BY <1>3, WalkIs
<1>6. n \in nodes /\ r.path = n.path
  BY <1>4, <1>5 DEF WalkSees, FileOf
<1>7. n.path \notin RootsOf(nodes)
  BY <1>2, <1>5, <1>6, NoFileIsARoot
<1>8. ~IsExcludedPath(policy, r.path)
  BY <1>5, <1>6, <1>7 DEF WalkEnters
<1>9. PICK root \in RootsOf(nodes) : IsPrefix(root, n.path)
  BY <1>5 DEF WalkSees, WalkReaches
<1>10. IsPath(n.path)
  BY <1>2, <1>6 DEF IsFileTree
<1>11. IsWithin(Folded(r.path), root)
  BY <1>6, <1>9, <1>10, RootsAre, WithinItsSpelling
<1>12. root \in s.filesystem_policy[1].roots
  BY <1>1, <1>9, SomeIsNotNone DEF ShowsFiles
<1> QED BY <1>5, <1>6, <1>8, <1>10, <1>11, <1>12 DEF HasFile

-------------------------------------------------------------------------------
(* What a diff tells, whether it is as compare made it or written over: by  *)
(* is the build that wrote it last.                                         *)

MadeOf(b, f, x, y, by, told) ==
  LET d == Compare(b, f, x, y)
  IN  (by = b /\ told = d) \/ (by # b /\ told = Refilter(by.policy, d))

LEMMA DiffIsMade ==
  ASSUME Held, ShowInv, NEW n \in DOMAIN diffs, NEW e, e = diffs[n]
  PROVE  /\ MadeOf(e.run.build, e.run.filter, snapshots[e.run.before], snapshots[e.run.after],
                   e.by, e.diff)
         /\ \E r \in DOMAIN DiffRuns : e.run = DiffRuns[r]
         /\ e.by \in {e.run.build, CurrentBuild}
         /\ e.run.before \in DOMAIN snapshots /\ e.run.after \in DOMAIN snapshots
<1>1. DiffHeld(e) /\ AsCompared(e)
  BY DEF Held, DiffsHeld, ShowInv, DiffsCompared
<1>2. PICK r \in DOMAIN DiffRuns : e.run = DiffRuns[r]
  BY <1>1 DEF DiffHeld
<1>3. e.run.before \in DOMAIN snapshots /\ e.run.after \in DOMAIN snapshots
  <2>1. diffs # <<>>
    BY SeqOfNothing, Zenon
  <2>2. DOMAIN snapshots = 1..CycleLength
    BY <2>1, SeqShape DEF Held, DiffsHeld, SnapshotsHeld
  <2> QED BY <1>2, <2>2, ObservationAssumption
<1>4. e.by \in {e.run.build, CurrentBuild} /\ (e.by = e.run.build => e.diff = DiffOf(e.run))
  BY <1>1 DEF DiffHeld
<1>5. e.by # e.run.build => e.by = CurrentBuild /\ e.diff = Refilter(e.by.policy, DiffOf(e.run))
  BY <1>1, <1>4 DEF AsCompared, Policy
<1>6. MadeOf(e.run.build, e.run.filter, snapshots[e.run.before], snapshots[e.run.after],
             e.by, e.diff)
  BY <1>4, <1>5 DEF MadeOf, DiffOf
<1> QED BY <1>2, <1>3, <1>4, <1>6

LEMMA RefilterLeaves ==
  ASSUME NEW policy, NEW d, DOMAIN d = DiffFields, NEW r, r = Refilter(policy, d)
  PROVE  /\ r.rebooted_between = d.rebooted_between
         /\ r.filesystem_policy_changed = d.filesystem_policy_changed
         /\ r.registry_policy_changed = d.registry_policy_changed
         /\ r.services = d.services /\ r.suppressed = d.suppressed
BY DEF Refilter, DiffFields

LEMMA MadeTells ==
  ASSUME NEW b, NEW f, NEW x, NEW y, NEW by, NEW told, MadeOf(b, f, x, y, by, told),
         NEW both, both = CoverageOfBoth(x.coverage, y.coverage)
  PROVE  /\ told.rebooted_between = RebootedBetween(x, y)
         /\ told.filesystem_policy_changed = (x.filesystem_policy # y.filesystem_policy)
         /\ told.registry_policy_changed = (x.registry_policy # y.registry_policy)
         /\ ServicesTold(told) = ToldServices(f, both, x, y)
         /\ FilesTold(told) \subseteq ToldFiles(b.policy, both, x, y)
<1> DEFINE d == Compare(b, f, x, y)
<1>1. /\ d.rebooted_between = RebootedBetween(x, y)
      /\ d.filesystem_policy_changed = (x.filesystem_policy # y.filesystem_policy)
      /\ d.registry_policy_changed = (x.registry_policy # y.registry_policy)
  BY CompareHeader
<1>2. DOMAIN d = DiffFields
  BY CompareIsADiff
<1>3. /\ d.services \cup d.suppressed = ToldServices(f, both, x, y)
      /\ d.files \cup d.suppressed_files = ToldFiles(b.policy, both, x, y)
  <2> HIDE DEF d
  <2>1. d = Compare(b, f, x, y)
    BY DEF d
  <2>2. /\ d.services = {c \in ToldServices(f, both, x, y) : ~RuleFor(f, c)}
        /\ d.suppressed = {c \in ToldServices(f, both, x, y) : RuleFor(f, c)}
        /\ d.files = {c \in ToldFiles(b.policy, both, x, y) : ~FileRuleFor(f, c)}
        /\ d.suppressed_files = {c \in ToldFiles(b.policy, both, x, y) : FileRuleFor(f, c)}
    BY <2>1, CompareParts
  <2> QED BY <2>2
<1>4. told = d \/ told = Refilter(by.policy, d)
  BY DEF MadeOf
<1> HIDE DEF d
<1>5. CASE told = d
  BY <1>1, <1>3, <1>5 DEF ServicesTold, FilesTold
<1>6. CASE told = Refilter(by.policy, d)
  <2>1. /\ told.rebooted_between = d.rebooted_between
        /\ told.filesystem_policy_changed = d.filesystem_policy_changed
        /\ told.registry_policy_changed = d.registry_policy_changed
        /\ told.services = d.services /\ told.suppressed = d.suppressed
    BY <1>2, <1>6, RefilterLeaves
  <2>2. /\ told.files = {c \in d.files : ~IsExcludedPath(by.policy, Later(c).path)}
        /\ told.suppressed_files = {c \in d.suppressed_files : ~IsExcludedPath(by.policy, Later(c).path)}
    BY <1>2, <1>6, RefilterTells
  <2> QED BY <1>1, <1>3, <2>1, <2>2 DEF ServicesTold, FilesTold
<1> QED BY <1>4, <1>5, <1>6

LEMMA DenialStays ==
  ASSUME NEW policy, NEW coverage, IsCoverage(coverage),
         NEW q \in coverage.access_denied, ~ExcludesDenied(policy, q)
  PROVE  q \in WithoutExcludedDenials(policy, coverage).access_denied
<1>1. "access_denied" \in DOMAIN coverage
  BY DEF IsCoverage
<1> QED BY <1>1 DEF WithoutExcludedDenials

(* A denial of either snapshot stays, unless its item is excluded.          *)
LEMMA DenialsStay ==
  ASSUME NEW b, NEW f, NEW x, NEW y, NEW by, NEW told, MadeOf(b, f, x, y, by, told),
         NEW q \in x.coverage.access_denied \cup y.coverage.access_denied,
         ~ExcludesDenied(b.policy, q), ~ExcludesDenied(by.policy, q)
  PROVE  q \in told.coverage.access_denied
<1> DEFINE d == Compare(b, f, x, y)
           both == CoverageOfBoth(x.coverage, y.coverage)
<1>1. DOMAIN d = DiffFields
  BY CompareIsADiff
<1>2. d.coverage = WithoutExcludedDenials(b.policy, both)
  BY CompareLists
<1>3. IsCoverage(both) /\ q \in both.access_denied
  BY DEF IsCoverage, CoverageOfBoth
<1> HIDE DEF d, both
<1>4. IsCoverage(d.coverage) /\ q \in d.coverage.access_denied
  BY <1>2, <1>3, DenialStays, DenialsOfADiff
<1>5. CASE told = d
  BY <1>4, <1>5
<1>6. CASE told = Refilter(by.policy, d)
  <2>1. told.coverage = WithoutExcludedDenials(by.policy, d.coverage)
    BY <1>1, <1>6, RefilterTells
  <2> QED BY <1>4, <2>1, DenialStays
<1> QED BY <1>5, <1>6 DEF MadeOf, d

(* A file a diff tells has a path neither build excludes.                   *)
LEMMA ToldFilesAreKept ==
  ASSUME NEW b, NEW f, NEW x, NEW y, NEW by, NEW told, MadeOf(b, f, x, y, by, told),
         NEW c \in FilesTold(told)
  PROVE  /\ FileChange(c)
         /\ \A s \in Sides(c) : ~IsExcludedPath(b.policy, s[1].path) /\ ~IsExcludedPath(by.policy, s[1].path)
<1> DEFINE d == Compare(b, f, x, y)
<1>1. DOMAIN d = DiffFields
  BY CompareIsADiff
<1>2. ASSUME NEW k \in FilesTold(d)
      PROVE  FileChange(k) /\ CleanFile(b.policy, k)
  <2>1. k \in CompareFiles(b.policy, x.files, y.files)
    BY <1>2, CompareTells
  <2> HIDE DEF d
  <2> QED BY <2>1, ComparedFiles DEF CleanFile
<1> HIDE DEF d
<1>3. CASE by = b /\ told = d
  BY <1>2, <1>3 DEF CleanFile
<1>4. CASE told = Refilter(by.policy, d)
  <2>1. /\ told.files = {k \in d.files : ~IsExcludedPath(by.policy, Later(k).path)}
        /\ told.suppressed_files = {k \in d.suppressed_files : ~IsExcludedPath(by.policy, Later(k).path)}
    BY <1>1, <1>4, RefilterTells
  <2>2. c \in FilesTold(d) /\ ~IsExcludedPath(by.policy, Later(c).path)
    BY <2>1 DEF FilesTold
  <2>3. CleanFile(by.policy, c)
    BY <1>2, <2>2, KeptFileIsClean
  <2> QED BY <1>2, <2>2, <2>3 DEF CleanFile
<1> QED BY <1>3, <1>4 DEF MadeOf, d

-------------------------------------------------------------------------------
(* A file told as new.                                                      *)

(* Neither path of an index nor of the records behind it: what only one side*)
(* has is a record of that side and of none of the other.                   *)
LEMMA OnlyOneSideHasTheFile ==
  ASSUME NEW policy, NEW before, NEW after, NEW c \in CompareFiles(policy, before, after)
  PROVE  /\ KindOf(c) = "added" =>
              /\ \E r \in after : Folded(r.path) = c.identity /\ Some(r) \in Sides(c)
              /\ \A q \in before : Folded(q.path) # c.identity
         /\ KindOf(c) = "removed" =>
              /\ \E r \in before : Folded(r.path) = c.identity /\ Some(r) \in Sides(c)
              /\ \A q \in after : Folded(q.path) # c.identity
<1> DEFINE Kept(side) == {r \in side : ~IsExcludedPath(policy, r.path)}
           Of(side) == [r \in Kept(side) |-> Folded(r.path)]
           was == IndexBy(Of(before))
           is == IndexBy(Of(after))
<1>1. ChangeOf(c, was, is)
  BY ChangesAreOfRecords DEF CompareFiles
<1>2. ASSUME NEW side, NEW i \in DOMAIN IndexBy(Of(side))
      PROVE  /\ IndexBy(Of(side))[i] \in side /\ Folded(IndexBy(Of(side))[i].path) = i
             /\ ~IsExcludedPath(policy, IndexBy(Of(side))[i].path)
  <2>1. IndexBy(Of(side))[i] \in DOMAIN Of(side) /\ Of(side)[IndexBy(Of(side))[i]] = i
    <3> HIDE DEF Of
    <3> QED BY <1>2, IndexedRecords
  <2> DEFINE r == IndexBy(Of(side))[i]
  <2> HIDE DEF r
  <2> QED BY <2>1 DEF r
<1>3. ASSUME NEW side, NEW i, i \notin DOMAIN IndexBy(Of(side)), NEW q \in Kept(side)
      PROVE  Folded(q.path) # i
  <2>1. i \notin Range(Of(side))
    BY <1>3 DEF IndexBy
  <2> QED BY <2>1 DEF Range
<1>4. \A i \in DOMAIN was : /\ was[i] \in before /\ Folded(was[i].path) = i
                            /\ ~IsExcludedPath(policy, was[i].path)
  BY <1>2
<1>5. \A i \in DOMAIN is : /\ is[i] \in after /\ Folded(is[i].path) = i
                           /\ ~IsExcludedPath(policy, is[i].path)
  BY <1>2
<1>6. \A i : i \notin DOMAIN was => \A q \in Kept(before) : Folded(q.path) # i
  BY <1>3
<1>7. \A i : i \notin DOMAIN is => \A q \in Kept(after) : Folded(q.path) # i
  BY <1>3
<1> HIDE DEF was, is
<1>8. CASE KindOf(c) = "added"
  <2>1. /\ c.identity \in DOMAIN is /\ c.identity \notin DOMAIN was
        /\ c.after = Some(is[c.identity])
    BY <1>1, <1>8, SomeIsNotNone DEF ChangeOf, KindOf
  <2>2. Some(is[c.identity]) \in Sides(c)
    BY <2>1, SomeIsNotNone DEF Sides
  <2>3. \A q \in before : Folded(q.path) # c.identity
    <3> SUFFICES ASSUME NEW q \in before, Folded(q.path) = c.identity PROVE FALSE
      OBVIOUS
    <3>1. Folded(is[c.identity].path) = c.identity /\ ~IsExcludedPath(policy, is[c.identity].path)
      BY <1>5, <2>1
    <3>2. ~IsExcludedPath(policy, q.path)
      BY <3>1, FoldedDecides
    <3> QED BY <1>6, <2>1, <3>2
  <2> QED BY <1>5, <1>8, <2>1, <2>2, <2>3
<1>9. CASE KindOf(c) = "removed"
  <2>1. /\ c.identity \in DOMAIN was /\ c.identity \notin DOMAIN is
        /\ c.before = Some(was[c.identity])
    BY <1>1, <1>9, SomeIsNotNone DEF ChangeOf, KindOf
  <2>2. Some(was[c.identity]) \in Sides(c)
    BY <2>1, SomeIsNotNone DEF Sides
  <2>3. \A q \in after : Folded(q.path) # c.identity
    <3> SUFFICES ASSUME NEW q \in after, Folded(q.path) = c.identity PROVE FALSE
      OBVIOUS
    <3>1. Folded(was[c.identity].path) = c.identity /\ ~IsExcludedPath(policy, was[c.identity].path)
      BY <1>4, <2>1
    <3>2. ~IsExcludedPath(policy, q.path)
      BY <3>1, FoldedDecides
    <3> QED BY <1>7, <2>1, <3>2
  <2> QED BY <1>4, <1>9, <2>1, <2>2, <2>3
<1> QED BY <1>8, <1>9

LEMMA PoliciesOfADiff ==
  ASSUME Held, ShowInv, NEW n \in DOMAIN diffs, NEW e, e = diffs[n]
  PROVE  Fragments(e.run.build.policy) /\ Fragments(e.by.policy)
<1>1. PICK r \in DOMAIN DiffRuns : e.run = DiffRuns[r]
  BY DiffIsMade
<1>2. e.by \in {e.run.build, CurrentBuild}
  BY DiffIsMade
<1> QED BY <1>1, <1>2, PolicyAssumption DEF Fragments

(* The two snapshots a way goes between, and what each of them saw.         *)
LEMMA WaysAre ==
  ASSUME Held, ShowInv, NEW n \in DOMAIN diffs, NEW e, e = diffs[n], NEW way \in Ways(e)
  PROVE  /\ way.from \in DOMAIN snapshots /\ way.to \in DOMAIN snapshots
         /\ Shows(snapshots[way.from], seen[way.from]) /\ Shows(snapshots[way.to], seen[way.to])
         /\ \/ way.kind = "added" /\ way.from = e.run.before /\ way.to = e.run.after
            \/ way.kind = "removed" /\ way.from = e.run.after /\ way.to = e.run.before
<1>1. \/ way.kind = "added" /\ way.from = e.run.before /\ way.to = e.run.after
      \/ way.kind = "removed" /\ way.from = e.run.after /\ way.to = e.run.before
  BY DEF Ways
<1>2. e.run.before \in DOMAIN snapshots /\ e.run.after \in DOMAIN snapshots
  BY DiffIsMade
<1> QED BY <1>1, <1>2 DEF ShowInv, SnapshotsShow

(* The denial of a file or directory a snapshot could not read is in the    *)
(* diff, unless a policy excludes the path.                                 *)
LEMMA FileDenialStays ==
  ASSUME Held, ShowInv, NEW n \in DOMAIN diffs, NEW e, e = diffs[n], NEW way \in Ways(e),
         NEW s \in {snapshots[way.from], snapshots[way.to]},
         NEW path, IsPath(path), DenialOfFile(s, path),
         ~IsExcludedPath(e.run.build.policy, path), ~IsExcludedPath(e.by.policy, path)
  PROVE  Unread(e.diff, "filesystem", path, "")
<1> DEFINE x == snapshots[e.run.before]
           y == snapshots[e.run.after]
           b == e.run.build
           by == e.by
<1>1. MadeOf(b, e.run.filter, x, y, by, e.diff) /\ s \in {x, y}
  BY DiffIsMade, WaysAre
<1>2. Fragments(b.policy) /\ Fragments(by.policy)
  BY PoliciesOfADiff
<1>3. PICK item : IsPath(item) /\ IsWithin(path, item) /\ DeniedPath(item) \in s.coverage.access_denied
  BY DEF DenialOfFile
<1> DEFINE q == DeniedPath(item)
<1>4. q.domain = "filesystem" /\ q.item = item /\ q.value = None /\ q.view = ""
  BY DEF DeniedPath, Denied
<1>5. q \in s.coverage.access_denied
  BY <1>3
<1> HIDE DEF q
<1>6. ASSUME NEW policy, Fragments(policy), ~IsExcludedPath(policy, path)
      PROVE  ~ExcludesDenied(policy, q)
  <2>1. IsPrefix(Folded(item), Folded(path))
    BY <1>3 DEF IsWithin
  <2>2. item \in Seq(Range(item)) /\ path \in Seq(Range(path))
    BY <1>3 DEF IsPath
  <2>3. ~IsExcludedPath(policy, item)
    BY <1>6, <2>1, <2>2, ExcludedBelow
  <2> QED BY <1>4, <2>3 DEF ExcludesDenied
<1> HIDE DEF x, y
<1>7. ~ExcludesDenied(b.policy, q) /\ ~ExcludesDenied(by.policy, q)
  BY <1>2, <1>6
<1>8. q \in x.coverage.access_denied \cup y.coverage.access_denied
  BY <1>1, <1>5
<1> HIDE DEF b, by
<1>9. q \in e.diff.coverage.access_denied
  BY <1>1, <1>7, <1>8, DenialsStay
<1> QED BY <1>3, <1>4, <1>9 DEF Unread

LEMMA NewFileTold ==
  ASSUME Held, ShowInv, NEW n \in DOMAIN diffs, NEW e, e = diffs[n], NEW way \in Ways(e),
         NEW c \in OfKind(FilesTold(e.diff), way)
  PROVE  FileIsNew(e, way, c)
<1> DEFINE x == snapshots[e.run.before]
           y == snapshots[e.run.after]
           s == snapshots[way.from]
           t == snapshots[way.to]
           from == seen[way.from]
           to == seen[way.to]
           b == e.run.build
           by == e.by
           path == c.identity
           both == CoverageOfBoth(x.coverage, y.coverage)
<1>1. MadeOf(b, e.run.filter, x, y, by, e.diff)
  BY DiffIsMade
<1>2. /\ Shows(s, from) /\ Shows(t, to)
      /\ \/ way.kind = "added" /\ s = x /\ t = y
         \/ way.kind = "removed" /\ s = y /\ t = x
  BY WaysAre
<1>3. c \in FilesTold(e.diff) /\ KindOf(c) = way.kind
  BY DEF OfKind
<1> HIDE DEF x, y, s, t, from, to, b, by
<1>4. /\ e.diff.filesystem_policy_changed = (x.filesystem_policy # y.filesystem_policy)
      /\ c \in ToldFiles(b.policy, both, x, y)
  BY <1>1, <1>3, MadeTells
<1>5. c \in CompareFiles(b.policy, x.files, y.files)
  BY <1>4 DEF ToldFiles
<1>6. "filesystem" \in from.build.domains /\ "filesystem" \in to.build.domains
  <2>1. "filesystem" \in x.coverage.captured \cap y.coverage.captured
    BY <1>4 DEF ToldFiles, Covers, CoverageOfBoth
  <2> QED BY <1>2, <2>1 DEF Shows
<1>7. /\ KindOf(c) = "added" =>
           /\ \E r \in y.files : Folded(r.path) = c.identity /\ Some(r) \in Sides(c)
           /\ \A q \in x.files : Folded(q.path) # c.identity
      /\ KindOf(c) = "removed" =>
           /\ \E r \in x.files : Folded(r.path) = c.identity /\ Some(r) \in Sides(c)
           /\ \A q \in y.files : Folded(q.path) # c.identity
  BY <1>5, OnlyOneSideHasTheFile
<1>8. PICK r \in t.files : Folded(r.path) = path /\ Some(r) \in Sides(c)
  BY <1>2, <1>3, <1>7
<1>9. \A q \in s.files : Folded(q.path) # path
  BY <1>2, <1>3, <1>7
<1>10. ~IsExcludedPath(b.policy, r.path) /\ ~IsExcludedPath(by.policy, r.path)
  <2>1. \A k \in Sides(c) : ~IsExcludedPath(b.policy, k[1].path) /\ ~IsExcludedPath(by.policy, k[1].path)
    BY <1>1, <1>3, ToldFilesAreKept
  <2> QED BY <1>8, <2>1, SomeIsNotNone
<1>11. /\ IsPath(r.path) /\ HasFile(to.listed, path) /\ ~IsExcludedPath(to.build.policy, r.path)
       /\ \E root \in t.filesystem_policy[1].roots : IsWithin(path, root)
  BY <1>2, <1>6, <1>8, FileRecorded
<1>12. Folded(path) = Folded(r.path) /\ IsPath(path)
  BY <1>8, <1>11, WithinItsSpelling
<1>13. \A policy : IsExcludedPath(policy, path) = IsExcludedPath(policy, r.path)
  BY <1>12, FoldedDecides
<1> HIDE DEF path
<1>14. ASSUME ~WalksPath(way.from, path) PROVE e.diff.filesystem_policy_changed
  <2> SUFFICES ASSUME s.filesystem_policy = t.filesystem_policy PROVE FALSE
    BY <1>2, <1>4
  <2>1. PICK libraries : t.filesystem_policy =
          Some([roots |-> RootsOf(to.listed), excluded |-> to.build.policy.directories,
                libraries |-> libraries])
    BY <1>2, <1>6 DEF Shows, ShowsFiles
  <2>2. PICK others : s.filesystem_policy =
          Some([roots |-> RootsOf(from.listed), excluded |-> from.build.policy.directories,
                libraries |-> others])
    BY <1>2, <1>6 DEF Shows, ShowsFiles
  <2>3. t.filesystem_policy[1].excluded = to.build.policy.directories
    BY <2>1, SomeIsNotNone
  <2>4. s.filesystem_policy[1].excluded = from.build.policy.directories
    BY <2>2, SomeIsNotNone
  <2>5. IsExcludedPath(from.build.policy, path) = IsExcludedPath(to.build.policy, path)
    BY <2>3, <2>4 DEF IsExcludedPath
  <2>6. ~IsExcludedPath(from.build.policy, path)
    BY <1>11, <1>13, <2>5
  <2> QED BY <1>11, <1>14, <2>6 DEF WalksPath, s, from
<1>15. ASSUME HasFile(from.listed, path), WalksPath(way.from, path), ~Unlisted(way.from, path)
       PROVE  Unread(e.diff, "filesystem", path, "")
  <2>1. PICK root \in s.filesystem_policy[1].roots : IsWithin(path, root)
    BY <1>15 DEF WalksPath, s
  <2>2. ~IsExcludedPath(from.build.policy, path)
    BY <1>15 DEF WalksPath, from
  <2>3. \/ \E q \in s.files : Folded(q.path) = path
        \/ \E k \in from.listed : k.fault = "unlisted" /\ IsWithin(path, k.path)
        \/ DenialOfFile(s, path)
    BY <1>2, <1>6, <1>15, <2>1, <2>2, FileSeen
  <2>4. DenialOfFile(s, path)
    BY <1>9, <1>15, <2>3 DEF Unlisted, from
  <2>5. ~IsExcludedPath(b.policy, path) /\ ~IsExcludedPath(by.policy, path)
    BY <1>10, <1>13
  <2> QED BY <1>12, <2>4, <2>5, FileDenialStays DEF s, b, by
<1> QED BY <1>11, <1>14, <1>15 DEF FileIsNew, from, to, path

-------------------------------------------------------------------------------
(* A service told as new, and a restart.                                    *)

(* A record has a name that was enumerated, and of every name enumerated    *)
(* there is a record or a denial.                                           *)
LEMMA NamesAreAccounted ==
  ASSUME NEW enumerated, NEW configured, NEW read,
         read = ReadServices(EnumerateServices(enumerated), configured),
         AreServices(read.services)
  PROVE  /\ \A r \in read.services : r.name \in NamesOf(enumerated)
         /\ \A name \in NamesOf(enumerated) :
              \/ \E r \in read.services : r.name = name
              \/ Denied("services", name, None, "") \in read.access_denied
<1> DEFINE entries == EnumerateServices(enumerated)
           Found(entry) == Configuration(entry, configured)
<1>1. /\ read.services = UNION {Found(entry) : entry \in entries}
      /\ read.access_denied = {Denied("services", entry.name, None, "") :
                                 entry \in {k \in entries : Found(k) = {}}}
  BY DEF ReadServices
<1>2. ASSUME NEW entry, NEW r \in Found(entry), DOMAIN r = ServiceFields PROVE r.name = entry.name
  <2>1. PICK s \in {t \in configured : t.readable /\ t.record.name = entry.name} :
          r = IF entry.display_name = <<>> THEN s.record
              ELSE [s.record EXCEPT !.display_name = entry.display_name]
    BY <1>2 DEF Configuration
  <2>2. "name" \in DOMAIN r
    BY <1>2 DEF ServiceFields
  <2> QED BY <2>1, <2>2
<1> HIDE DEF Found
<1>3. \A entry \in entries : entry.name \in NamesOf(enumerated)
  BY DEF EnumerateServices, NamesOf
<1>4. \A name \in NamesOf(enumerated) : \E entry \in entries : entry.name = name
  <2> SUFFICES ASSUME NEW name \in NamesOf(enumerated) PROVE \E entry \in entries : entry.name = name
    OBVIOUS
  <2>1. PICK s \in enumerated : name = s.record.name
    BY DEF NamesOf
  <2> DEFINE entry == [name |-> s.record.name, display_name |-> s.record.display_name]
  <2>2. entry \in entries /\ entry.name = name
    BY <2>1 DEF EnumerateServices
  <2> HIDE DEF entries, entry
  <2> QED BY <2>2
<1> HIDE DEF entries
<1>5. ASSUME NEW r \in read.services PROVE r.name \in NamesOf(enumerated)
  <2>1. PICK entry \in entries : r \in Found(entry)
    BY <1>1
  <2>2. DOMAIN r = ServiceFields
    BY DEF AreServices
  <2>3. r.name = entry.name
    BY <1>2, <2>1, <2>2
  <2> QED BY <1>3, <2>3
<1>6. ASSUME NEW name \in NamesOf(enumerated)
      PROVE  \/ \E r \in read.services : r.name = name
             \/ Denied("services", name, None, "") \in read.access_denied
  <2>1. PICK entry \in entries : entry.name = name
    BY <1>4
  <2>2. CASE Found(entry) = {}
    BY <1>1, <2>1, <2>2
  <2>3. CASE Found(entry) # {}
    <3>1. PICK r : r \in Found(entry)
      BY <2>3
    <3>2. r \in read.services
      BY <1>1, <3>1
    <3> QED BY <1>2, <2>1, <3>1, <3>2 DEF AreServices
  <2> QED BY <2>2, <2>3
<1> QED BY <1>5, <1>6

LEMMA OnlyOneSideHasTheService ==
  ASSUME NEW filter, NEW before, NEW after, NEW c \in CompareServices(filter, before, after)
  PROVE  /\ KindOf(c) = "added" =>
              Later(c) \in after /\ \A q \in before : q.name # Later(c).name
         /\ KindOf(c) = "removed" =>
              Later(c) \in before /\ \A q \in after : q.name # Later(c).name
<1> DEFINE crowded == Crowded(filter, before, after)
           Key(name) == IF CanonicalName(filter, name) \in crowded THEN name
                        ELSE CanonicalName(filter, name)
           Of(side) == [r \in side |-> Key(r.name)]
           was == IndexBy(Of(before))
           is == IndexBy(Of(after))
<1>1. c \in ChangesBetween(was, is)
  BY DEF CompareServices
<1>2. ChangeOf(c, was, is)
  <2> HIDE DEF was, is
  <2> QED BY <1>1, ChangesAreOfRecords
<1> HIDE DEF Key
<1>3. ASSUME NEW side, NEW i \in DOMAIN IndexBy(Of(side))
      PROVE  IndexBy(Of(side))[i] \in side /\ Key(IndexBy(Of(side))[i].name) = i
  <2>1. IndexBy(Of(side))[i] \in DOMAIN Of(side) /\ Of(side)[IndexBy(Of(side))[i]] = i
    <3> HIDE DEF Of
    <3> QED BY <1>3, IndexedRecords
  <2> DEFINE r == IndexBy(Of(side))[i]
  <2> HIDE DEF r
  <2> QED BY <2>1 DEF r
<1>4. ASSUME NEW side, NEW i, i \notin DOMAIN IndexBy(Of(side)), NEW q \in side
      PROVE  Key(q.name) # i
  <2>1. i \notin Range(Of(side))
    BY <1>4 DEF IndexBy
  <2> QED BY <2>1 DEF Range
<1>5. \A i \in DOMAIN was : was[i] \in before /\ Key(was[i].name) = i
  BY <1>3
<1>6. \A i \in DOMAIN is : is[i] \in after /\ Key(is[i].name) = i
  BY <1>3
<1>7. \A i : i \notin DOMAIN was => \A q \in before : Key(q.name) # i
  BY <1>4
<1>8. \A i : i \notin DOMAIN is => \A q \in after : Key(q.name) # i
  BY <1>4
<1> HIDE DEF was, is
<1>9. CASE KindOf(c) = "added"
  <2>1. /\ c.identity \in DOMAIN is /\ c.identity \notin DOMAIN was
        /\ Later(c) = is[c.identity]
    BY <1>2, <1>9, SomeIsNotNone DEF ChangeOf, KindOf, Later
  <2> QED BY <1>6, <1>7, <1>9, <2>1
<1>10. CASE KindOf(c) = "removed"
  <2>1. /\ c.identity \in DOMAIN was /\ c.identity \notin DOMAIN is
        /\ Later(c) = was[c.identity]
    BY <1>2, <1>10, SomeIsNotNone DEF ChangeOf, KindOf, Later
  <2> QED BY <1>5, <1>8, <1>10, <2>1
<1> QED BY <1>9, <1>10

LEMMA NewServiceTold ==
  ASSUME Held, ShowInv, NEW n \in DOMAIN diffs, NEW e, e = diffs[n], NEW way \in Ways(e),
         NEW c \in OfKind(ServicesTold(e.diff), way)
  PROVE  ServiceIsNew(e, way, c)
<1> DEFINE x == snapshots[e.run.before]
           y == snapshots[e.run.after]
           s == snapshots[way.from]
           t == snapshots[way.to]
           from == seen[way.from]
           to == seen[way.to]
           b == e.run.build
           by == e.by
           both == CoverageOfBoth(x.coverage, y.coverage)
           name == Later(c).name
<1>1. MadeOf(b, e.run.filter, x, y, by, e.diff)
  BY DiffIsMade
<1>2. /\ Shows(s, from) /\ Shows(t, to) /\ way.from \in DOMAIN snapshots /\ way.to \in DOMAIN snapshots
      /\ \/ way.kind = "added" /\ s = x /\ t = y
         \/ way.kind = "removed" /\ s = y /\ t = x
  BY WaysAre
<1>3. AreServices(s.services) /\ AreServices(t.services)
  BY <1>2 DEF Held, SnapshotsHeld, Measured
<1>4. c \in ServicesTold(e.diff) /\ KindOf(c) = way.kind
  BY DEF OfKind
<1> HIDE DEF x, y, s, t, from, to, b, by
<1>5. c \in ToldServices(e.run.filter, both, x, y)
  BY <1>1, <1>4, MadeTells
<1>6. c \in CompareServices(e.run.filter, x.services, y.services)
  BY <1>5 DEF ToldServices
<1>7. "services" \in from.build.domains /\ "services" \in to.build.domains
  <2>1. "services" \in x.coverage.captured \cap y.coverage.captured
    BY <1>5 DEF ToldServices, Covers, CoverageOfBoth
  <2> QED BY <1>2, <2>1 DEF Shows
<1>8. /\ KindOf(c) = "added" =>
           Later(c) \in y.services /\ \A q \in x.services : q.name # Later(c).name
      /\ KindOf(c) = "removed" =>
           Later(c) \in x.services /\ \A q \in y.services : q.name # Later(c).name
  BY <1>6, OnlyOneSideHasTheService
<1>9. Later(c) \in t.services /\ \A q \in s.services : q.name # name
  BY <1>2, <1>4, <1>8
<1>10. ShowsServices(s, from) /\ ShowsServices(t, to)
  BY <1>2, <1>7 DEF Shows
<1>11. name \in NamesOf(to.enumerated)
  <2> DEFINE read == ReadServices(EnumerateServices(to.enumerated), to.configured)
  <2>1. read.services = t.services
    BY <1>10 DEF ShowsServices
  <2>2. AreServices(read.services)
    BY <1>3, <2>1
  <2>3. \A r \in read.services : r.name \in NamesOf(to.enumerated)
    BY <2>2, NamesAreAccounted
  <2> QED BY <1>9, <2>1, <2>3
<1>12. ASSUME name \in NamesOf(from.enumerated) PROVE ServiceUnread(e.diff, name)
  <2> DEFINE read == ReadServices(EnumerateServices(from.enumerated), from.configured)
             q == Denied("services", name, None, "")
  <2>1. read.services = s.services /\ read.access_denied \subseteq s.coverage.access_denied
    BY <1>10 DEF ShowsServices
  <2>2. AreServices(read.services)
    BY <1>3, <2>1
  <2>3. \A k \in NamesOf(from.enumerated) :
          \/ \E r \in read.services : r.name = k
          \/ Denied("services", k, None, "") \in read.access_denied
    BY <2>2, NamesAreAccounted
  <2> HIDE DEF read, name
  <2>4. q \in s.coverage.access_denied
    BY <1>9, <1>12, <2>1, <2>3
  <2>5. q.domain = "services"
    BY DEF Denied
  <2> HIDE DEF q
  <2>6. \A policy : ~ExcludesDenied(policy, q)
    BY <2>5 DEF ExcludesDenied
  <2>7. q \in x.coverage.access_denied \cup y.coverage.access_denied
    BY <1>2, <2>4
  <2>8. q \in e.diff.coverage.access_denied
    BY <1>1, <2>6, <2>7, DenialsStay
  <2> QED BY <2>8 DEF ServiceUnread, q
<1> QED BY <1>11, <1>12 DEF ServiceIsNew, from, to, name

LEMMA RestartTold ==
  ASSUME Held, ShowInv, NEW n \in DOMAIN diffs, NEW e, e = diffs[n],
         e.diff.rebooted_between = Some(TRUE)
  PROVE  Restarted(e)
<1> DEFINE x == snapshots[e.run.before]
           y == snapshots[e.run.after]
<1>1. /\ MadeOf(e.run.build, e.run.filter, x, y, e.by, e.diff)
      /\ e.run.before \in DOMAIN snapshots /\ e.run.after \in DOMAIN snapshots
  BY DiffIsMade
<1>2. /\ x.boot_session \in {None, Some(seen[e.run.before].started)}
      /\ y.boot_session \in {None, Some(seen[e.run.after].started)}
  BY <1>1 DEF ShowInv, SnapshotsShow, Shows
<1>3. OptionalInt(x.boot_session)
  BY <1>1 DEF Held, SnapshotsHeld, Measured
<1> HIDE DEF x, y
<1>4. RebootedBetween(x, y) = Some(TRUE)
  <2> DEFINE b == e.run.build
             f == e.run.filter
             by == e.by
             told == e.diff
             both == CoverageOfBoth(x.coverage, y.coverage)
  <2>1. MadeOf(b, f, x, y, by, told)
    BY <1>1
  <2>2. told.rebooted_between = Some(TRUE)
    OBVIOUS
  <2> HIDE DEF b, f, by, told
  <2>3. told.rebooted_between = RebootedBetween(x, y)
    BY <2>1, MadeTells
  <2> QED BY <2>2, <2>3
<1>5. x.boot_session # None /\ y.boot_session # None
  BY <1>4, SomeIsNotNone DEF RebootedBetween
<1> SUFFICES ASSUME ~Restarted(e) PROVE FALSE
  OBVIOUS
<1>6. x.boot_session[1] = y.boot_session[1] /\ x.boot_session[1] \in Int
  BY <1>2, <1>3, <1>5, SomeIsNotNone DEF Restarted, OptionalInt
<1> DEFINE apart == x.boot_session[1] - y.boot_session[1]
<1>7. apart = 0
  BY <1>6
<1>8. ~(apart > BootTolerance \/ -apart > BootTolerance)
  BY <1>7, Bounds
<1>9. Some(apart > BootTolerance \/ -apart > BootTolerance) = Some(TRUE)
  BY <1>4, <1>5 DEF RebootedBetween
<1> HIDE DEF apart
<1>10. (apart > BootTolerance \/ -apart > BootTolerance) = TRUE
  BY <1>9, SomeIsNotNone
<1> QED BY <1>8, <1>10

-------------------------------------------------------------------------------
(* A walk of the registry, a key at a time: first the values of a key.      *)

ReadAt(values, i) ==
  /\ i \in DOMAIN values /\ values[i].reads \in {"whole", "oversized"}
  /\ \A l \in 1..i : values[l].reads # "stops"

(* Something is kept or refused of a key if a value of it is read, and what *)
(* is kept was read.                                                        *)
LEMMA ValuesGot ==
  ASSUME NEW policy, NEW values, values \in Seq(Range(values)),
         NEW read, read = ReadValues(policy, values)
  PROVE  /\ (\E i : ReadAt(values, i)) => read.values # {} \/ read.refused # {}
         /\ read.values # {} => \E i : ReadAt(values, i)
<1> DEFINE stopping == {i \in DOMAIN values : values[i].reads = "stops"}
           until == IF \E i \in DOMAIN values : values[i].reads = "stops"
                    THEN CHOOSE i \in DOMAIN values :
                               /\ values[i].reads = "stops"
                               /\ \A j \in 1..(i - 1) : values[j].reads # "stops"
                    ELSE Len(values) + 1
           got == {values[i] : i \in 1..(until - 1)}
           part == [v \in got |->
             [name |-> v.name, kind |-> v.kind,
              data |-> IF v.reads = "whole" THEN v.data ELSE "",
              oversized |-> IF v.reads = "whole" THEN None ELSE Some(v.size)]]
           whole == {w \in got : w.reads \in {"whole", "oversized"}}
           kept == {part[v] : v \in whole}
<1>1. DOMAIN values = 1..Len(values) /\ Len(values) \in Nat
  BY PathShape
<1>2. /\ until \in Int /\ 1..(until - 1) \subseteq DOMAIN values
      /\ \A j \in 1..(until - 1) : values[j].reads # "stops"
      /\ \A i \in DOMAIN values : i >= until => values[until].reads = "stops" /\ until \in 1..i
  <2>1. CASE stopping = {}
    BY <1>1, <2>1
  <2>2. CASE stopping # {}
    <3>1. stopping \in SUBSET Nat
      BY <1>1
    <3>2. PICK i \in stopping : \A k \in stopping : i <= k
      <4> HIDE DEF stopping
      <4> QED BY <2>2, <3>1, LeastNatural
    <3>3. \A j \in 1..(i - 1) : values[j].reads # "stops"
      <4>1. ASSUME NEW j \in 1..(i - 1), values[j].reads = "stops" PROVE FALSE
        <5>1. j \in DOMAIN values
          BY <1>1, <3>2
        <5> QED BY <3>1, <3>2, <4>1, <5>1
      <4> QED BY <4>1
    <3>4. /\ until \in DOMAIN values /\ values[until].reads = "stops"
          /\ \A j \in 1..(until - 1) : values[j].reads # "stops"
      BY <2>2, <3>2, <3>3
    <3> HIDE DEF until
    <3> QED BY <1>1, <3>4
  <2> QED BY <2>1, <2>2
<1>3. /\ read.values = {v \in kept : Allowed(policy, v)}
      /\ read.refused = {v.name : v \in kept \ read.values}
  <2>1. kept = {[name |-> v.name, kind |-> v.kind,
                 data |-> IF v.reads = "whole" THEN v.data ELSE "",
                 oversized |-> IF v.reads = "whole" THEN None ELSE Some(v.size)] : v \in whole}
    OBVIOUS
  <2> HIDE DEF kept
  <2> QED BY <2>1, Zenon DEF ReadValues
<1> HIDE DEF until, part
<1>4. ASSUME NEW i, ReadAt(values, i) PROVE read.values # {} \/ read.refused # {}
  <2>1. i \in DOMAIN values /\ i < until
    BY <1>1, <1>2, <1>4 DEF ReadAt
  <2>2. values[i] \in whole
    BY <1>1, <1>2, <1>4, <2>1 DEF ReadAt
  <2>3. part[values[i]] \in kept
    BY <2>2
  <2> HIDE DEF kept
  <2> QED BY <1>3, <2>3
<1>5. ASSUME read.values # {} PROVE \E i : ReadAt(values, i)
  <2>1. PICK v : v \in kept
    <3> HIDE DEF kept
    <3> QED BY <1>3, <1>5
  <2>2. PICK i \in 1..(until - 1) : values[i].reads \in {"whole", "oversized"}
    BY <2>1
  <2>3. i \in DOMAIN values /\ 1..i \subseteq 1..(until - 1)
    BY <1>2
  <2>4. ReadAt(values, i)
    BY <1>2, <2>2, <2>3 DEF ReadAt
  <2> QED BY <2>4
<1> QED BY <1>4, <1>5

KeyEnters(policy, view, k) == ~IsExcludedKey(policy, k.key) /\ ~IsWow64Alias(k.key, view)
KeyReached(policy, keys, root, view, k) ==
  /\ k \in keys /\ view \in k.views /\ IsPrefix(root, k.key)
  /\ \A m \in keys :
       view \in m.views /\ IsPrefix(root, m.key) /\ IsStrictPrefix(m.key, k.key) =>
         KeyEnters(policy, view, m) /\ m.opens /\ m.lists
KeyRead(policy, keys, root, view, k) ==
  KeyReached(policy, keys, root, view, k) /\ KeyEnters(policy, view, k) /\ k.opens

RecordOf(policy, view, k) ==
  [key |-> k.key, view |-> view, values |-> ReadValues(policy, k.values).values]

LEMMA RegistryWalkIs ==
  ASSUME NEW policy, NEW keys, NEW root, NEW view, ~IsExcludedKey(policy, root),
         NEW walk, walk = WalkRegistry(policy, keys, root, view)
  PROVE  /\ \A r : r \in walk.records <=>
              \E k : /\ KeyRead(policy, keys, root, view, k)
                     /\ ReadValues(policy, k.values).values # {} /\ r = RecordOf(policy, view, k)
         /\ \A k : KeyReached(policy, keys, root, view, k) /\ KeyEnters(policy, view, k) /\ ~k.opens
                     => DeniedKey(k.key, view) \in walk.access_denied
         /\ \A k : KeyRead(policy, keys, root, view, k) /\ ~k.lists
                     => DeniedKey(k.key, view) \in walk.access_denied
         /\ \A k : KeyRead(policy, keys, root, view, k) =>
              \A name \in ReadValues(policy, k.values).refused :
                Denied("registry", k.key, Some(name), view) \in walk.access_denied
<1> DEFINE visible == {k \in keys : view \in k.views}
           Enters(k) == KeyEnters(policy, view, k)
           Between(k) ==
             {m \in visible : IsPrefix(root, m.key) /\ IsStrictPrefix(m.key, k.key)}
           reached == {k \in visible : /\ IsPrefix(root, k.key)
                                       /\ \A m \in Between(k) : Enters(m) /\ m.opens /\ m.lists}
           entered == {k \in reached : Enters(k)}
           read    == {k \in entered : k.opens}
           got     == [k \in read |-> ReadValues(policy, k.values)]
           missing == IF root \in {k.key : k \in visible} THEN {} ELSE {root}
           closed  == {k.key : k \in entered \ read} \cup missing
           partial == {k \in read : got[k].stopped \/ ~k.lists}
<1>1. walk.records = {[key |-> k.key, view |-> view, values |-> got[k].values] :
                       k \in {j \in read : got[j].values # {}}}
  BY DEF WalkRegistry, KeyEnters
<1>2. walk.access_denied =
        {DeniedKey(key, view) : key \in closed \cup {k.key : k \in partial}}
        \cup UNION {{Denied("registry", k.key, Some(name), view) : name \in got[k].refused} :
                    k \in read}
  BY DEF WalkRegistry, KeyEnters
<1>3. \A k : k \in reached <=> KeyReached(policy, keys, root, view, k)
  <2> HIDE DEF Enters
  <2> QED BY DEF KeyReached, Enters
<1> HIDE DEF reached
<1>4. \A k : k \in entered <=> KeyReached(policy, keys, root, view, k) /\ KeyEnters(policy, view, k)
  BY <1>3
<1>5. \A k : k \in read <=> KeyRead(policy, keys, root, view, k)
  BY <1>4 DEF KeyRead
<1>6. \A k \in read : got[k] = ReadValues(policy, k.values)
  OBVIOUS
<1> HIDE DEF entered, read, got
<1>7. \A r : r \in walk.records <=>
        \E k : /\ KeyRead(policy, keys, root, view, k)
               /\ ReadValues(policy, k.values).values # {} /\ r = RecordOf(policy, view, k)
  <2> DEFINE telling == {j \in read : got[j].values # {}}
             Made(k) == [key |-> k.key, view |-> view, values |-> got[k].values]
  <2>1. \A k \in telling : Made(k) = RecordOf(policy, view, k)
    BY <1>6 DEF RecordOf
  <2>2. \A k : k \in telling <=>
          KeyRead(policy, keys, root, view, k) /\ ReadValues(policy, k.values).values # {}
    BY <1>5, <1>6
  <2>3. walk.records = {Made(k) : k \in telling}
    BY <1>1
  <2> HIDE DEF telling, Made
  <2> QED BY <2>1, <2>2, <2>3
<1>8. ASSUME NEW k, KeyReached(policy, keys, root, view, k), KeyEnters(policy, view, k), ~k.opens
      PROVE  DeniedKey(k.key, view) \in walk.access_denied
  <2>1. k \in entered \ read
    BY <1>4, <1>5, <1>8 DEF KeyRead
  <2>2. k.key \in closed
    BY <2>1
  <2> HIDE DEF closed, partial
  <2> QED BY <1>2, <2>2
<1>9. ASSUME NEW k, KeyRead(policy, keys, root, view, k), ~k.lists
      PROVE  DeniedKey(k.key, view) \in walk.access_denied
  <2>1. k \in partial
    BY <1>5, <1>9
  <2> HIDE DEF closed, partial
  <2> QED BY <1>2, <2>1
<1>10. ASSUME NEW k, KeyRead(policy, keys, root, view, k),
              NEW name \in ReadValues(policy, k.values).refused
       PROVE  Denied("registry", k.key, Some(name), view) \in walk.access_denied
  <2>1. k \in read /\ name \in got[k].refused
    BY <1>5, <1>6, <1>10
  <2>2. Denied("registry", k.key, Some(name), view)
          \in UNION {{Denied("registry", j.key, Some(other), view) : other \in got[j].refused} :
                      j \in read}
    BY <2>1
  <2> HIDE DEF closed, partial
  <2> QED BY <1>2, <2>2
<1> QED BY <1>7, <1>8, <1>9, <1>10

LEMMA ExcludedRootHasNothing ==
  ASSUME NEW policy, NEW keys, NEW root, NEW view, IsExcludedKey(policy, root)
  PROVE  WalkRegistry(policy, keys, root, view).records = {}
BY DEF WalkRegistry

(* A key below a root that neither the policy nor the alias keeps out is    *)
(* read, or it is below one that is said to be unread.                      *)
LEMMA KeyAccounted ==
  ASSUME NEW policy, Fragments(policy), NEW keys, IsKeyTree(keys),
         NEW root, IsPath(root), NEW view, ~IsExcludedKey(policy, root),
         NEW m \in keys, view \in m.views, IsPrefix(root, m.key), ~IsExcludedKey(policy, m.key),
         \A k \in keys : view \in k.views /\ IsPrefix(root, k.key) /\ IsPrefix(k.key, m.key) =>
                           ~IsWow64Alias(k.key, view),
         NEW walk, walk = WalkRegistry(policy, keys, root, view)
  PROVE  \/ \E k \in keys : k.key = m.key /\ KeyRead(policy, keys, root, view, m)
         \/ \E k \in keys : IsPrefix(k.key, m.key) /\ DeniedKey(k.key, view) \in walk.access_denied
<1> DEFINE Passes(k) == KeyEnters(policy, view, k) /\ k.opens /\ k.lists
           Above(k) == k \in keys /\ view \in k.views /\ IsPrefix(root, k.key) /\ IsPrefix(k.key, m.key)
           stopping == {k \in keys : Above(k) /\ (k.key = m.key \/ ~Passes(k))}
           lengths == {Len(k.key) : k \in stopping}
<1>1. root \in Seq(Range(root)) /\ \A k \in keys : k.key \in Seq(Range(k.key))
  BY DEF IsKeyTree, IsPath
<1>2. \A k \in keys : Len(k.key) \in Nat
  BY <1>1, PathShape
<1>3. IsPrefix(m.key, m.key)
  <2>1. Len(m.key) <= Len(m.key)
    BY <1>2
  <2> QED BY <1>1, <2>1, PrefixIs
<1>4. m \in stopping
  BY <1>3
<1>5. PICK k \in stopping : \A j \in stopping : Len(k.key) <= Len(j.key)
  <2>1. lengths \in SUBSET Nat /\ lengths # {}
    BY <1>2, <1>4
  <2>2. PICK l \in lengths : \A j \in lengths : l <= j
    <3> HIDE DEF lengths
    <3> QED BY <2>1, LeastNatural
  <2> QED BY <2>2
<1>6. /\ k \in keys /\ view \in k.views /\ IsPrefix(root, k.key) /\ IsPrefix(k.key, m.key)
      /\ k.key = m.key \/ ~Passes(k)
  OBVIOUS
<1>7. ASSUME NEW j \in keys, view \in j.views, IsPrefix(root, j.key), IsStrictPrefix(j.key, k.key)
      PROVE  Passes(j)
  <2> SUFFICES ASSUME ~Passes(j) PROVE FALSE
    OBVIOUS
  <2>1. IsPrefix(j.key, k.key) /\ j.key # k.key
    BY <1>7 DEF IsStrictPrefix
  <2>2. IsPrefix(j.key, m.key)
    BY <1>1, <1>6, <2>1, PrefixOfPrefix
  <2>3. j \in stopping
    BY <1>7, <2>2
  <2>4. Len(j.key) < Len(k.key)
    BY <1>1, <1>6, <2>1, PrefixOfPrefix
  <2> QED BY <1>2, <1>5, <1>6, <2>3, <2>4
<1>8. KeyReached(policy, keys, root, view, k)
  BY <1>6, <1>7 DEF KeyReached
<1>9. KeyEnters(policy, view, k)
  <2>1. IsPrefix(Folded(k.key), Folded(m.key))
    BY <1>1, <1>6, FoldedPrefix
  <2>2. ~IsExcludedKey(policy, k.key)
    BY <1>1, <1>6, <2>1, ExcludedBelow
  <2> QED BY <1>6, <2>2 DEF KeyEnters
<1>10. CASE ~k.opens
  BY <1>6, <1>8, <1>9, <1>10, RegistryWalkIs
<1>11. CASE k.opens /\ ~k.lists
  <2>1. KeyRead(policy, keys, root, view, k)
    BY <1>8, <1>9, <1>11 DEF KeyRead
  <2> QED BY <1>6, <1>11, <2>1, RegistryWalkIs
<1>12. CASE k.opens /\ k.lists
  <2>1. k.key = m.key
    BY <1>6, <1>9, <1>12
  <2>2. CASE m.opens
    <3>1. KeyReached(policy, keys, root, view, m)
      BY <1>8, <2>1 DEF KeyReached
    <3>2. KeyEnters(policy, view, m)
      BY <1>9, <2>1 DEF KeyEnters
    <3> QED BY <1>6, <2>1, <2>2, <3>1, <3>2 DEF KeyRead
  <2>3. CASE ~m.opens
    <3>1. KeyReached(policy, keys, root, view, m)
      BY <1>8, <2>1 DEF KeyReached
    <3>2. KeyEnters(policy, view, m)
      BY <1>9, <2>1 DEF KeyEnters
    <3>3. DeniedKey(m.key, view) \in walk.access_denied
      BY <2>3, <3>1, <3>2, RegistryWalkIs
    <3> QED BY <1>3, <3>3
  <2> QED BY <2>2, <2>3
<1> QED BY <1>10, <1>11, <1>12

(* The registry of a snapshot is what the walks found, root by root.        *)
LEMMA CaptureIs ==
  ASSUME NEW policy, NEW keys, NEW read, read = CaptureRegistry(policy, keys)
  PROVE  /\ \A r \in read.records : \E root \in RegistryRoots, view \in View :
              r \in WalkRegistry(policy, keys, root, view).records
         /\ \A root \in RegistryRoots, view \in View :
              /\ WalkRegistry(policy, keys, root, view).records \subseteq read.records
              /\ WalkRegistry(policy, keys, root, view).access_denied \subseteq read.access_denied
<1> DEFINE walks == {WalkRegistry(policy, keys, root, view) : root \in RegistryRoots, view \in View}
<1>1. read.records = UNION {w.records : w \in walks}
  BY DEF CaptureRegistry
<1>2. read.access_denied = UNION {w.access_denied : w \in walks}
  BY DEF CaptureRegistry
<1>3. \A w \in walks : \E root \in RegistryRoots, view \in View : w = WalkRegistry(policy, keys, root, view)
  OBVIOUS
<1>4. \A root \in RegistryRoots, view \in View : WalkRegistry(policy, keys, root, view) \in walks
  OBVIOUS
<1> HIDE DEF walks
<1>5. \A r \in read.records : \E root \in RegistryRoots, view \in View :
        r \in WalkRegistry(policy, keys, root, view).records
  BY <1>1, <1>3
<1>6. \A root \in RegistryRoots, view \in View :
        /\ WalkRegistry(policy, keys, root, view).records \subseteq read.records
        /\ WalkRegistry(policy, keys, root, view).access_denied \subseteq read.access_denied
  BY <1>1, <1>2, <1>4
<1> QED BY <1>5, <1>6

LEMMA FoldedDecidesKey ==
  ASSUME NEW policy, NEW p, NEW q, Folded(p) = Folded(q)
  PROVE  IsExcludedKey(policy, p) = IsExcludedKey(policy, q)
BY DEF IsExcludedKey

(* What a snapshot records of a key was read in it, from one of the roots   *)
(* and not through the alias.                                               *)
KeyFound(keys, root, view, m) ==
  /\ m \in keys /\ view \in m.views /\ IsPrefix(root, m.key)
  /\ \A k \in keys : view \in k.views /\ IsPrefix(root, k.key) /\ IsPrefix(k.key, m.key) =>
                       ~IsWow64Alias(k.key, view)

LEMMA KeyRecorded ==
  ASSUME NEW s, NEW x, Shows(s, x), "registry" \in x.build.domains, NEW r \in s.registry,
         HasValues(x.keys)
  PROVE  /\ IsPath(r.key) /\ r.view \in View /\ ~IsExcludedKey(x.build.policy, r.key)
         /\ ValuesOf(x.keys, Folded(r.key), r.view) # {}
         /\ \E root \in RegistryRoots, m \in x.keys :
              m.key = r.key /\ KeyFound(x.keys, root, r.view, m)
<1> DEFINE policy == x.build.policy
           keys == x.keys
           read == CaptureRegistry(policy, keys)
<1>1. OfMachines(x) /\ ShowsKeys(s, x)
  BY DEF Shows
<1>2. IsKeyTree(keys)
  BY <1>1, NodesOfMachines
<1>3. r \in read.records
  BY <1>1 DEF ShowsKeys
<1> HIDE DEF policy, keys
<1>4. PICK root \in RegistryRoots, view \in View : r \in WalkRegistry(policy, keys, root, view).records
  BY <1>3, CaptureIs
<1>5. ~IsExcludedKey(policy, root)
  BY <1>4, ExcludedRootHasNothing
<1>6. PICK m : /\ KeyRead(policy, keys, root, view, m)
               /\ ReadValues(policy, m.values).values # {} /\ r = RecordOf(policy, view, m)
  BY <1>4, <1>5, RegistryWalkIs
<1>7. r.key = m.key /\ r.view = view
  BY <1>6 DEF RecordOf
<1>8. m \in keys /\ view \in m.views /\ IsPrefix(root, m.key)
  BY <1>6 DEF KeyRead, KeyReached
<1>9. ~IsExcludedKey(policy, m.key) /\ ~IsWow64Alias(m.key, view)
  BY <1>6 DEF KeyRead, KeyEnters
<1>10. ASSUME NEW k \in keys, view \in k.views, IsPrefix(root, k.key), IsPrefix(k.key, m.key)
       PROVE  ~IsWow64Alias(k.key, view)
  <2>1. CASE k.key = m.key
    BY <1>9, <2>1
  <2>2. CASE k.key # m.key
    <3>1. IsStrictPrefix(k.key, m.key)
      BY <1>10, <2>2 DEF IsStrictPrefix
    <3> QED BY <1>6, <1>10, <3>1 DEF KeyRead, KeyReached, KeyEnters
  <2> QED BY <2>1, <2>2
<1>11. KeyFound(keys, root, view, m)
  BY <1>8, <1>10 DEF KeyFound
<1>12. ValuesOf(keys, Folded(m.key), view) # {}
  <2>1. m.values \in Seq(Range(m.values))
    BY <1>8 DEF HasValues, keys
  <2>2. PICK i : ReadAt(m.values, i)
    BY <1>6, <2>1, ValuesGot
  <2> DEFINE told == {j \in DOMAIN m.values :
               m.values[j].reads # "vanished" /\ \A l \in 1..j : m.values[l].reads # "stops"}
             there == {k \in keys : Folded(k.key) = Folded(m.key) /\ view \in k.views}
  <2>3. i \in told
    BY <2>2 DEF ReadAt
  <2>4. m \in there
    BY <1>8
  <2>5. m.values[i] \in {m.values[j] : j \in told}
    BY <2>3
  <2>6. m.values[i] \in ValuesOf(keys, Folded(m.key), view)
    BY <2>4, <2>5 DEF ValuesOf
  <2> QED BY <2>6
<1>13. IsPath(m.key)
  BY <1>2, <1>8 DEF IsKeyTree
<1> QED BY <1>7, <1>8, <1>9, <1>11, <1>12, <1>13 DEF policy, keys

-------------------------------------------------------------------------------
(* A key one side has seen values of, seen from the other side.             *)

LEMMA FrontOf ==
  ASSUME NEW p, p \in Seq(Range(p)), NEW n \in 1..Len(p), NEW q, q = SubSeq(p, 1, n)
  PROVE  q \in Seq(Range(q)) /\ Len(q) = n /\ \A i \in 1..n : q[i] = p[i]
<1>1. Len(p) \in Nat /\ n \in Nat /\ 1..n \subseteq DOMAIN p /\ p \in Seq(Range(p))
  BY PathShape
<1>2. Len(q) = n /\ \A i \in 1..n : q[i] = p[i]
  <2> DEFINE S == Range(p)
  <2>1. p \in Seq(S)
    OBVIOUS
  <2> HIDE DEF S
  <2> QED BY <1>1, <2>1
<1>3. q = [i \in 1..n |-> q[i]]
  <2>1. q = [i \in 1..(n - 1 + 1) |-> p[1 + i - 1]]
    <3> DEFINE S == Range(p)
    <3>1. p \in Seq(S)
      OBVIOUS
    <3> HIDE DEF S
    <3> QED BY <1>1, <3>1
  <2>2. n - 1 + 1 = n
    BY <1>1
  <2> QED BY <2>1, <2>2
<1>4. DOMAIN q = 1..n /\ \A i \in 1..n : q[i] \in Range(q)
  BY <1>3 DEF Range
<1>5. q \in Seq(Range(q))
  <2> DEFINE T == Range(q)
  <2>1. \A i \in 1..n : q[i] \in T
    BY <1>4
  <2> HIDE DEF T
  <2>2. q \in Seq(T)
    BY <1>1, <1>3, <2>1, SeqListed
  <2> QED BY <2>2 DEF T
<1> QED BY <1>2, <1>5

(* What lies above one spelling of a path lies above the other.             *)
LEMMA AboveElsewhere ==
  ASSUME NEW p, p \in Seq(Range(p)), NEW q, q \in Seq(Range(q)), Folded(p) = Folded(q),
         NEW k, k \in Seq(Range(k)), IsPrefix(k, p), Len(k) >= 1,
         NEW root, root \in Seq(Range(root)), IsPrefix(root, k), IsPrefix(root, q)
  PROVE  /\ Len(k) \in DOMAIN q
         /\ IsPrefix(root, SubSeq(q, 1, Len(k))) /\ IsPrefix(SubSeq(q, 1, Len(k)), q)
         /\ Folded(SubSeq(q, 1, Len(k))) = Folded(k)
<1> DEFINE n == Len(k)
           f == SubSeq(q, 1, n)
<1>1. n \in Nat /\ n <= Len(p) /\ \A i \in 1..n : k[i] = p[i]
  BY PathShape, PrefixIs
<1>2. Len(p) = Len(q) /\ \A i \in 1..Len(p) : Fold(p[i]) = Fold(q[i])
  <2>1. Len(Folded(p)) = Len(p) /\ \A i \in 1..Len(p) : Folded(p)[i] = Fold(p[i])
    BY FoldedIs
  <2>2. Len(Folded(q)) = Len(q) /\ \A i \in 1..Len(q) : Folded(q)[i] = Fold(q[i])
    BY FoldedIs
  <2> QED BY <2>1, <2>2
<1>3. Len(q) \in Nat /\ DOMAIN q = 1..Len(q) /\ n \in 1..Len(q) /\ n \in DOMAIN q
  BY <1>1, <1>2, PathShape
<1>4. f \in Seq(Range(f)) /\ Len(f) = n /\ \A i \in 1..n : f[i] = q[i]
  <2> HIDE DEF f
  <2>1. f = SubSeq(q, 1, n)
    BY DEF f
  <2> QED BY <1>3, <2>1, FrontOf
<1>5. /\ Len(root) \in Nat /\ Len(root) <= n
      /\ Len(root) <= Len(q) /\ \A i \in 1..Len(root) : root[i] = q[i]
  BY PathShape, PrefixIs
<1> HIDE DEF n, f
<1>6. IsPrefix(f, q)
  <2>1. Len(f) <= Len(q) /\ \A i \in 1..Len(f) : f[i] = q[i]
    BY <1>3, <1>4
  <2> QED BY <1>4, <2>1, PrefixIs
<1>7. IsPrefix(root, f)
  <2>1. Len(root) <= Len(f) /\ \A i \in 1..Len(root) : root[i] = f[i]
    BY <1>1, <1>4, <1>5
  <2> QED BY <1>4, <2>1, PrefixIs
<1>8. Folded(f) = Folded(k)
  <2>1. DOMAIN f = 1..n /\ DOMAIN k = 1..n
    BY <1>4, PathShape DEF n
  <2>2. ASSUME NEW i \in 1..n PROVE Fold(f[i]) = Fold(k[i])
    <3>1. i \in 1..Len(p)
      BY <1>1, <1>2, <1>3
    <3>2. Fold(p[i]) = Fold(q[i])
      BY <1>2, <3>1
    <3>3. f[i] = q[i] /\ k[i] = p[i]
      BY <1>1, <1>4
    <3> QED BY <3>2, <3>3
  <2>3. Folded(f) = [i \in 1..n |-> Fold(f[i])] /\ Folded(k) = [i \in 1..n |-> Fold(k[i])]
    BY <2>1 DEF Folded
  <2> QED BY <2>2, <2>3
<1> QED BY <1>3, <1>6, <1>7, <1>8 DEF n, f

(* So the alias is above a key in one spelling as in the other.             *)
LEMMA AliasElsewhere ==
  ASSUME NEW keys, IsKeyTree(keys), NEW root \in RegistryRoots, NEW view, NEW m,
         KeyFound(keys, root, view, m),
         NEW p, IsPath(p), Folded(p) = Folded(m.key),
         NEW k, IsPath(k), IsPrefix(root, k), IsPrefix(k, p)
  PROVE  ~IsWow64Alias(k, view)
<1> SUFFICES ASSUME IsWow64Alias(k, view) PROVE FALSE
  OBVIOUS
<1>1. m \in keys /\ view \in m.views /\ IsPrefix(root, m.key) /\ IsPath(m.key) /\ IsPath(root)
  BY MachineAssumption DEF KeyFound, IsKeyTree
<1> DEFINE f == SubSeq(m.key, 1, Len(k))
           alias == <<"HKLM", "SOFTWARE", "WOW6432NODE">>
<1>2. Len(k) = 3
  <2>1. Folded(k) = [i \in 1..3 |-> Fold(alias[i])]
    BY DEF IsWow64Alias, Folded
  <2>2. Len(Folded(k)) = Len(k)
    BY FoldedIs DEF IsPath
  <2>3. DOMAIN k = 1..3
    BY <2>1 DEF Folded
  <2>4. DOMAIN k = 1..Len(k) /\ Len(k) \in Nat
    BY PathShape DEF IsPath
  <2> HIDE DEF alias
  <2> QED BY <2>3, <2>4
<1>3. /\ Len(k) \in DOMAIN m.key
      /\ IsPrefix(root, f) /\ IsPrefix(f, m.key) /\ Folded(f) = Folded(k)
  <2>1. Len(k) >= 1
    BY <1>2
  <2>2. /\ p \in Seq(Range(p)) /\ k \in Seq(Range(k)) /\ root \in Seq(Range(root))
        /\ m.key \in Seq(Range(m.key)) /\ IsPrefix(root, m.key)
    BY <1>1 DEF IsPath
  <2> DEFINE q == m.key
  <2> HIDE DEF q
  <2>3. q \in Seq(Range(q)) /\ IsPrefix(root, q) /\ Folded(p) = Folded(q)
    BY <2>2 DEF q
  <2>4. /\ Len(k) \in DOMAIN q
        /\ IsPrefix(root, SubSeq(q, 1, Len(k))) /\ IsPrefix(SubSeq(q, 1, Len(k)), q)
        /\ Folded(SubSeq(q, 1, Len(k))) = Folded(k)
    BY <2>1, <2>2, <2>3, AboveElsewhere
  <2> QED BY <2>4 DEF q
<1>4. PICK j \in keys : j.key = f /\ view \in j.views
  BY <1>1, <1>3 DEF IsKeyTree
<1>5. IsWow64Alias(j.key, view)
  BY <1>3, <1>4 DEF IsWow64Alias
<1> QED BY <1>1, <1>3, <1>4, <1>5 DEF KeyFound

(* A key with values is in the snapshot, or below what is said to be unread.*)
DenialOfKey(s, key, view) ==
  \E item, value : /\ IsPath(item) /\ IsWithin(key, item)
                   /\ value = None \/ Len(item) = Len(key)
                   /\ Denied("registry", item, value, view) \in s.coverage.access_denied

LEMMA KeySeen ==
  ASSUME NEW s, NEW from, Shows(s, from), "registry" \in from.build.domains, HasValues(from.keys),
         NEW keys, IsKeyTree(keys), NEW root \in RegistryRoots, NEW view \in View, NEW m,
         KeyFound(keys, root, view, m), NEW key, key = Folded(m.key),
         ValuesOf(from.keys, key, view) # {}, ~IsExcludedKey(from.build.policy, key)
  PROVE  \/ \E q \in s.registry : RegistryIdentity(q) = [key |-> key, view |-> view]
         \/ DenialOfKey(s, key, view)
<1> DEFINE policy == from.build.policy
           read == CaptureRegistry(policy, from.keys)
           walk == WalkRegistry(policy, from.keys, root, view)
<1>1. OfMachines(from) /\ ShowsKeys(s, from)
  BY DEF Shows
<1>2. IsKeyTree(from.keys) /\ Fragments(policy)
  BY <1>1, NodesOfMachines
<1>3. walk.records \subseteq s.registry /\ walk.access_denied \subseteq s.coverage.access_denied
  <2>1. s.registry = read.records /\ read.access_denied \subseteq s.coverage.access_denied
    BY <1>1 DEF ShowsKeys
  <2>2. walk.records \subseteq read.records /\ walk.access_denied \subseteq read.access_denied
    <3> HIDE DEF policy, read
    <3>1. read = CaptureRegistry(policy, from.keys)
      BY DEF read
    <3> QED BY <3>1, CaptureIs
  <2> QED BY <2>1, <2>2
<1> HIDE DEF policy, read, walk
<1>4. PICK o \in from.keys : /\ Folded(o.key) = key /\ view \in o.views
                             /\ \E i : ReadAt(o.values, i)
  <2> DEFINE Standing(k) == {j \in DOMAIN k.values :
               k.values[j].reads # "vanished" /\ \A l \in 1..j : k.values[l].reads # "stops"}
             there == {k \in from.keys : Folded(k.key) = key /\ view \in k.views}
  <2>1. ValuesOf(from.keys, key, view) = UNION {{k.values[j] : j \in Standing(k)} : k \in there}
    BY DEF ValuesOf
  <2>2. PICK k \in there : {k.values[j] : j \in Standing(k)} # {}
    BY <2>1
  <2>3. PICK i : i \in Standing(k)
    BY <2>2
  <2>4. i \in DOMAIN k.values /\ DOMAIN k.values = 1..Len(k.values) /\ Len(k.values) \in Nat
    <3>1. k.values \in Seq(Range(k.values))
      BY <2>2 DEF HasValues
    <3> QED BY <2>3, <3>1, PathShape
  <2>5. k.values[i].reads \in {"whole", "oversized"}
    <3>1. k.values[i].reads \in {"whole", "oversized", "stops", "vanished"}
      BY <1>2, <2>2, <2>4 DEF IsKeyTree
    <3>2. i \in 1..i
      BY <2>4
    <3> QED BY <2>3, <3>1, <3>2
  <2>6. ReadAt(k.values, i)
    BY <2>3, <2>4, <2>5 DEF ReadAt
  <2> QED BY <2>2, <2>6
<1>5. IsPath(o.key) /\ IsPath(m.key) /\ IsPath(root) /\ IsPrefix(root, m.key) /\ IsPrefix(root, o.key)
  <2>1. IsPath(o.key) /\ SpelledFrom(RegistryRoots, o.key)
    BY <1>2, <1>4 DEF IsKeyTree
  <2>2. m \in keys /\ IsPrefix(root, m.key) /\ IsPath(m.key) /\ IsPath(root)
    BY MachineAssumption DEF KeyFound, IsKeyTree
  <2>3. IsWithin(o.key, root)
    <3>1. IsPrefix(Folded(root), Folded(m.key))
      BY <2>2, FoldedPrefix DEF IsPath
    <3> QED BY <1>4, <3>1 DEF IsWithin
  <2> QED BY <2>1, <2>2, <2>3 DEF SpelledFrom
<1>6. ~IsExcludedKey(policy, o.key) /\ ~IsExcludedKey(policy, root)
  <2>1. IsExcludedKey(policy, o.key) = IsExcludedKey(policy, key)
    <3>1. Folded(o.key) = Folded(key)
      BY <1>4, <1>5 DEF IsPath
    <3> QED BY <3>1, FoldedDecidesKey
  <2>2. ~IsExcludedKey(policy, o.key)
    BY <2>1 DEF policy
  <2>3. IsPrefix(Folded(root), Folded(o.key))
    BY <1>5, FoldedPrefix DEF IsPath
  <2> QED BY <1>2, <1>5, <2>2, <2>3, ExcludedBelow DEF IsPath
<1>7. \A k \in from.keys : view \in k.views /\ IsPrefix(root, k.key) /\ IsPrefix(k.key, o.key) =>
                             ~IsWow64Alias(k.key, view)
  <2>1. ASSUME NEW k \in from.keys, IsPrefix(root, k.key), IsPrefix(k.key, o.key)
        PROVE  ~IsWow64Alias(k.key, view)
    <3>1. IsPath(k.key)
      BY <1>2 DEF IsKeyTree
    <3>2. Folded(o.key) = Folded(m.key)
      BY <1>4
    <3> QED BY <1>5, <2>1, <3>1, <3>2, AliasElsewhere
  <2> QED BY <2>1
<1>8. walk = WalkRegistry(policy, from.keys, root, view)
  BY DEF walk
<1>9. \/ \E k \in from.keys : k.key = o.key /\ KeyRead(policy, from.keys, root, view, o)
      \/ \E k \in from.keys : IsPrefix(k.key, o.key) /\ DeniedKey(k.key, view) \in walk.access_denied
  BY <1>2, <1>4, <1>5, <1>6, <1>7, <1>8, KeyAccounted
<1>10. CASE KeyRead(policy, from.keys, root, view, o)
  <2>1. o.values \in Seq(Range(o.values))
    BY <1>4 DEF HasValues
  <2>2. ReadValues(policy, o.values).values # {} \/ ReadValues(policy, o.values).refused # {}
    BY <1>4, <2>1, ValuesGot
  <2>3. CASE ReadValues(policy, o.values).values # {}
    <3> DEFINE q == RecordOf(policy, view, o)
    <3>1. q \in walk.records
      <4> HIDE DEF q
      <4> QED BY <1>6, <1>8, <1>10, <2>3, RegistryWalkIs DEF q
    <3>2. RegistryIdentity(q) = [key |-> key, view |-> view]
      BY <1>4 DEF RegistryIdentity, RecordOf
    <3> QED BY <1>3, <3>1, <3>2
  <2>4. CASE ReadValues(policy, o.values).refused # {}
    <3>1. PICK name \in ReadValues(policy, o.values).refused :
            Denied("registry", o.key, Some(name), view) \in walk.access_denied
      BY <1>6, <1>8, <1>10, <2>4, RegistryWalkIs
    <3>2. Len(o.key) = Len(key) /\ IsWithin(key, o.key)
      <4>1. Len(Folded(o.key)) = Len(o.key)
        BY <1>5, FoldedIs DEF IsPath
      <4>2. Folded(key) = Folded(o.key)
        BY <1>4, <1>5 DEF IsPath
      <4>3. IsPrefix(Folded(o.key), Folded(o.key))
        <5>1. Folded(o.key) \in Seq(Range(Folded(o.key))) /\ Len(Folded(o.key)) \in Nat
          BY <1>5, FoldedIs, PathShape DEF IsPath
        <5> DEFINE fo == Folded(o.key)
        <5> HIDE DEF fo
        <5>2. fo \in Seq(Range(fo)) /\ Len(fo) <= Len(fo)
          BY <5>1 DEF fo
        <5>3. IsPrefix(fo, fo)
          BY <5>2, PrefixIs
        <5> QED BY <5>3 DEF fo
      <4> QED BY <1>4, <4>1, <4>2, <4>3 DEF IsWithin
    <3> QED BY <1>3, <1>5, <3>1, <3>2 DEF DenialOfKey
  <2> QED BY <2>2, <2>3, <2>4
<1>11. ASSUME NEW k \in from.keys, IsPrefix(k.key, o.key), DeniedKey(k.key, view) \in walk.access_denied
       PROVE  DenialOfKey(s, key, view)
  <2>1. IsPath(k.key)
    BY <1>2 DEF IsKeyTree
  <2>2. IsPrefix(Folded(k.key), Folded(o.key))
    BY <1>5, <1>11, <2>1, FoldedPrefix DEF IsPath
  <2>3. IsWithin(key, k.key)
    <3>1. Folded(key) = Folded(o.key)
      BY <1>4, <1>5 DEF IsPath
    <3> QED BY <2>2, <3>1 DEF IsWithin
  <2>4. Denied("registry", k.key, None, view) \in s.coverage.access_denied
    BY <1>3, <1>11 DEF DeniedKey
  <2> QED BY <2>1, <2>3, <2>4 DEF DenialOfKey
<1> QED BY <1>9, <1>10, <1>11

-------------------------------------------------------------------------------
(* What the sides of a change of a key say of the records of the snapshots. *)

LEMMA RefusedRecord ==
  ASSUME NEW policy, NEW r, Admit(policy, r).record = None, ~IsExcludedKey(policy, r.key)
  PROVE  \E v \in r.values : ~Allowed(policy, v)
<1> SUFFICES ASSUME \A v \in r.values : Allowed(policy, v) PROVE FALSE
  OBVIOUS
<1>1. r.values \ {v \in r.values : Allowed(policy, v)} = {}
  OBVIOUS
<1>2. Admit(policy, r).record = Some(r)
  BY <1>1 DEF Admit
<1> QED BY <1>2, SomeIsNotNone

(* A side tells what the policy left of a record, or part of it; where there*)
(* is none the policy left nothing.                                         *)
SaysOf(policy, records, side, identity) ==
  /\ RegistrySide(side)
  /\ side = None =>
       \A q \in records : RegistryIdentity(q) = identity => Admit(policy, q).record = None
  /\ side # None =>
       /\ RegistryIdentity(side[1]) = identity
       /\ \E q \in records : /\ RegistryIdentity(q) = identity /\ side[1].values \subseteq q.values
                             /\ ~IsExcludedKey(policy, q.key)

LEMMA AdmittedAt ==
  ASSUME NEW policy, NEW records, \A r \in records : IsRecord(r), NEW i,
         NEW index, index = AdmittedIndex(policy, records)
  PROVE  /\ i \in DOMAIN index => SaysOf(policy, records, Some(index[i]), i)
         /\ i \notin DOMAIN index => SaysOf(policy, records, None, i)
<1> DEFINE of == [r \in AdmittedRecords(policy, records) |-> RegistryIdentity(r)]
<1>1. index = IndexBy(of) /\ DOMAIN of = AdmittedRecords(policy, records)
  BY DEF AdmittedIndex
<1>2. \A r \in AdmittedRecords(policy, records) : of[r] = RegistryIdentity(r)
  OBVIOUS
<1> HIDE DEF of
<1>3. ASSUME i \in DOMAIN index PROVE SaysOf(policy, records, Some(index[i]), i)
  <2> DEFINE r == index[i]
  <2>1. r \in AdmittedRecords(policy, records) /\ RegistryIdentity(r) = i
    <3>1. IndexBy(of)[i] \in DOMAIN of /\ of[IndexBy(of)[i]] = i
      BY <1>1, <1>3, IndexedRecords
    <3> QED BY <1>1, <1>2, <3>1
  <2> HIDE DEF r
  <2>2. PICK q \in records : Admit(policy, q).record # None /\ r = Admit(policy, q).record[1]
    BY <2>1 DEF AdmittedRecords
  <2>3. /\ IsRecord(r) /\ CleanRecord(policy, r)
        /\ r.key = q.key /\ r.view = q.view /\ r.values \subseteq q.values
    BY <2>2, AdmittedIsClean
  <2>4. RegistryIdentity(q) = i /\ ~IsExcludedKey(policy, q.key)
    BY <2>1, <2>3 DEF RegistryIdentity, CleanRecord
  <2>5. SaysOf(policy, records, Some(r), i)
    BY <2>1, <2>3, <2>4, SomeIsNotNone DEF SaysOf, RegistrySide
  <2> QED BY <2>5 DEF r
<1>4. ASSUME i \notin DOMAIN index PROVE SaysOf(policy, records, None, i)
  <2>1. ASSUME NEW q \in records, RegistryIdentity(q) = i, Admit(policy, q).record # None
        PROVE  FALSE
    <3> DEFINE r == Admit(policy, q).record[1]
    <3>1. r \in AdmittedRecords(policy, records)
      BY <2>1 DEF AdmittedRecords
    <3>2. r.key = q.key /\ r.view = q.view
      BY <2>1, AdmittedIsClean
    <3> HIDE DEF r
    <3>3. of[r] = i
      BY <1>2, <2>1, <3>1, <3>2 DEF RegistryIdentity
    <3>4. i \in Range(of)
      BY <1>1, <3>1, <3>3 DEF Range
    <3> QED BY <1>1, <1>4, <3>4 DEF IndexBy
  <2> QED BY <2>1 DEF SaysOf, RegistrySide
<1> QED BY <1>3, <1>4

LEMMA NarrowedSays ==
  ASSUME NEW policy, NEW records, NEW r, NEW identity, NEW names,
         SaysOf(policy, records, Some(r), identity)
  PROVE  SaysOf(policy, records, Some(Narrowed(r, names)), identity)
<1> DEFINE only == Narrowed(r, names)
<1>1. IsRecord(r) /\ RegistryIdentity(r) = identity
  BY SomeIsNotNone DEF SaysOf, RegistrySide
<1>2. /\ only = [key |-> r.key, view |-> r.view, values |-> {v \in r.values : v.name \in names}]
      /\ IsRecord(only)
  BY <1>1, NarrowedRecord
<1> HIDE DEF only
<1>3. only.key = r.key /\ only.view = r.view /\ only.values \subseteq r.values
  BY <1>2
<1>4. RegistryIdentity(only) = identity
  BY <1>1, <1>3 DEF RegistryIdentity
<1>5. PICK q \in records : /\ RegistryIdentity(q) = identity /\ r.values \subseteq q.values
                           /\ ~IsExcludedKey(policy, q.key)
  BY SomeIsNotNone DEF SaysOf
<1>6. only.values \subseteq q.values
  BY <1>3, <1>5
<1>7. SaysOf(policy, records, Some(only), identity)
  BY <1>2, <1>4, <1>5, <1>6, SomeIsNotNone DEF SaysOf, RegistrySide
<1> QED BY <1>7 DEF only

LEMMA ComparedSays ==
  ASSUME NEW policy, NEW format, NEW before, NEW after,
         \A r \in before \cup after : IsRecord(r),
         NEW c \in CompareRegistry(policy, format, before, after)
  PROVE  /\ SaysOf(policy, before, c.before, c.identity)
         /\ SaysOf(policy, after, c.after, c.identity)
<1> DEFINE was == AdmittedIndex(policy, before)
           is == AdmittedIndex(policy, after)
           told == ChangesBetween(was, is)
           Says(d) == /\ SaysOf(policy, before, d.before, d.identity)
                      /\ SaysOf(policy, after, d.after, d.identity)
<1>1. \/ c \in told
      \/ \E d \in told : KindOf(d) = "modified" /\ c \in Modifications(format, d)
  BY RegistryTells
<1>2. ASSUME NEW i
      PROVE  /\ i \in DOMAIN was => SaysOf(policy, before, Some(was[i]), i)
             /\ i \notin DOMAIN was => SaysOf(policy, before, None, i)
             /\ i \in DOMAIN is => SaysOf(policy, after, Some(is[i]), i)
             /\ i \notin DOMAIN is => SaysOf(policy, after, None, i)
  <2> HIDE DEF was, is
  <2>1. was = AdmittedIndex(policy, before) /\ is = AdmittedIndex(policy, after)
    BY DEF was, is
  <2> QED BY <2>1, AdmittedAt
<1>3. \A d \in told : RegistryChange(d)
  BY AdmittedChanges
<1>4. \A d \in told : ChangeOf(d, was, is)
  BY ChangesAreOfRecords
<1> HIDE DEF was, is, told
<1>5. ASSUME NEW d \in told PROVE Says(d)
  BY <1>2, <1>4 DEF ChangeOf
<1>6. ASSUME NEW d \in told, KindOf(d) = "modified", NEW m \in RegistryModification(d)
      PROVE  Says(m)
  <2>1. d.before # None /\ d.after # None
    BY <1>6 DEF KindOf
  <2> DEFINE names == ValueDifferences(d.before[1], d.after[1])
  <2> HIDE DEF names
  <2>2. m = [identity |-> d.identity, before |-> Some(Narrowed(d.before[1], names)),
             after |-> Some(Narrowed(d.after[1], names))]
    BY <1>3, <1>6, <2>1, ModificationIsAChange DEF names
  <2>3. /\ m.identity = d.identity /\ m.before = Some(Narrowed(d.before[1], names))
        /\ m.after = Some(Narrowed(d.after[1], names))
    BY <2>2
  <2>4. d.before = Some(d.before[1]) /\ d.after = Some(d.after[1])
    BY <1>3, <2>1 DEF RegistryChange, RegistrySide
  <2>5. SaysOf(policy, before, Some(Narrowed(d.before[1], names)), d.identity)
    BY <1>5, <2>4, NarrowedSays
  <2>6. SaysOf(policy, after, Some(Narrowed(d.after[1], names)), d.identity)
    BY <1>5, <2>4, NarrowedSays
  <2> QED BY <2>3, <2>5, <2>6
<1>7. Says(c)
  <2> HIDE DEF Says
  <2> QED BY <1>1, <1>5, <1>6 DEF Modifications
<1> QED BY <1>7

-------------------------------------------------------------------------------
(* So with two builds, the one that compared and the one that wrote the diff*)
(* last: a side that is not told was refused by one of them.                *)
LeftOf(b, by, records, side, identity) ==
  /\ side = None =>
       \A q \in records : RegistryIdentity(q) = identity =>
         \E r \in records, policy \in {b, by} :
           /\ RegistryIdentity(r) = identity
           /\ IsExcludedKey(policy, r.key) \/ \E v \in r.values : ~Allowed(policy, v)
  /\ side # None =>
       \E q \in records : /\ RegistryIdentity(q) = identity
                          /\ ~IsExcludedKey(b, q.key) /\ ~IsExcludedKey(by, q.key)

LEMMA SaysWhatIsLeft ==
  ASSUME NEW b, NEW by, NEW records, NEW side, NEW identity,
         SaysOf(b, records, side, identity), CleanSide(by, side)
  PROVE  LeftOf(b, by, records, side, identity)
<1>1. ASSUME side = None, NEW q \in records, RegistryIdentity(q) = identity
      PROVE  IsExcludedKey(b, q.key) \/ \E v \in q.values : ~Allowed(b, v)
  <2>1. Admit(b, q).record = None
    BY <1>1 DEF SaysOf
  <2> QED BY <2>1, RefusedRecord
<1>2. ASSUME side # None
      PROVE  \E q \in records : /\ RegistryIdentity(q) = identity
                                /\ ~IsExcludedKey(b, q.key) /\ ~IsExcludedKey(by, q.key)
  <2>1. PICK q \in records : RegistryIdentity(q) = identity /\ ~IsExcludedKey(b, q.key)
    BY <1>2 DEF SaysOf
  <2>2. RegistryIdentity(side[1]) = identity /\ ~IsExcludedKey(by, side[1].key)
    BY <1>2 DEF SaysOf, CleanSide, CleanRecord
  <2>3. Folded(side[1].key) = Folded(q.key)
    BY <2>1, <2>2 DEF RegistryIdentity
  <2>4. ~IsExcludedKey(by, q.key)
    BY <2>2, <2>3, FoldedDecidesKey
  <2> QED BY <2>1, <2>4
<1> QED BY <1>1, <1>2 DEF LeftOf

(* What the second policy makes of a side.                                  *)
LEMMA AdmittedSaysWhatIsLeft ==
  ASSUME NEW b, NEW by, NEW records, NEW side, NEW identity,
         SaysOf(b, records, side, identity)
  PROVE  LeftOf(b, by, records, AdmitSide(by, side), identity)
<1>1. CASE side = None
  <2>1. AdmitSide(by, side) = side /\ CleanSide(by, side)
    BY <1>1 DEF AdmitSide, CleanSide
  <2> QED BY <2>1, SaysWhatIsLeft
<1>2. CASE side # None
  <2> DEFINE r == side[1]
             left == AdmitSide(by, side)
  <2>1. IsRecord(r) /\ left = Admit(by, r).record /\ RegistryIdentity(r) = identity
    BY <1>2 DEF SaysOf, RegistrySide, AdmitSide
  <2>2. PICK q \in records : /\ RegistryIdentity(q) = identity /\ r.values \subseteq q.values
                             /\ ~IsExcludedKey(b, q.key)
    BY <1>2 DEF SaysOf
  <2> HIDE DEF left, r
  <2>3. Folded(r.key) = Folded(q.key)
    BY <2>1, <2>2 DEF RegistryIdentity
  <2>4. CASE left = None
    <3>1. IsExcludedKey(by, r.key) \/ \E v \in r.values : ~Allowed(by, v)
      BY <2>1, <2>4, RefusedRecord
    <3>2. IsExcludedKey(by, q.key) \/ \E v \in q.values : ~Allowed(by, v)
      BY <2>2, <2>3, <3>1, FoldedDecidesKey
    <3>3. LeftOf(b, by, records, left, identity)
      BY <2>2, <2>4, <3>2 DEF LeftOf
    <3> QED BY <3>3 DEF left
  <2>5. CASE left # None
    <3>1. ~IsExcludedKey(by, r.key)
      BY <2>1, <2>5, AdmittedIsClean DEF CleanRecord
    <3>2. ~IsExcludedKey(by, q.key)
      BY <2>3, <3>1, FoldedDecidesKey
    <3>3. LeftOf(b, by, records, left, identity)
      BY <2>2, <2>5, <3>2 DEF LeftOf
    <3> QED BY <3>3 DEF left
  <2> QED BY <2>4, <2>5
<1> QED BY <1>1, <1>2

(* A change of a key has a record on one side or the other.                 *)
LEMMA ComparedHasASide ==
  ASSUME NEW policy, NEW format, NEW before, NEW after,
         \A r \in before \cup after : IsRecord(r),
         NEW c \in CompareRegistry(policy, format, before, after)
  PROVE  c.before # None \/ c.after # None
<1> DEFINE was == AdmittedIndex(policy, before)
           is == AdmittedIndex(policy, after)
           told == ChangesBetween(was, is)
<1>1. \/ c \in told
      \/ \E d \in told : KindOf(d) = "modified" /\ c \in Modifications(format, d)
  BY RegistryTells
<1>2. \A d \in told : RegistryChange(d)
  BY AdmittedChanges
<1>3. \A d \in told : ChangeOf(d, was, is)
  BY ChangesAreOfRecords
<1> HIDE DEF was, is, told
<1>4. ASSUME NEW d \in told PROVE d.before # None \/ d.after # None
  BY <1>3, SomeIsNotNone DEF ChangeOf
<1>5. ASSUME NEW d \in told, KindOf(d) = "modified", NEW m \in RegistryModification(d)
      PROVE  m.before # None
  <2>1. d.before # None /\ d.after # None
    BY <1>5 DEF KindOf
  <2> DEFINE names == ValueDifferences(d.before[1], d.after[1])
  <2> HIDE DEF names
  <2>2. m = [identity |-> d.identity, before |-> Some(Narrowed(d.before[1], names)),
             after |-> Some(Narrowed(d.after[1], names))]
    BY <1>2, <1>5, <2>1, ModificationIsAChange DEF names
  <2> QED BY <2>2, SomeIsNotNone
<1> QED BY <1>1, <1>4, <1>5 DEF Modifications

(* A change of a key that is no modification, in a diff as it is now.       *)
LEMMA KeyTold ==
  ASSUME NEW b, NEW f, NEW x, NEW y, SnapshotShape(x), SnapshotShape(y), NEW by, NEW told,
         MadeOf(b, f, x, y, by, told), NEW c \in told.registry, KindOf(c) # "modified"
  PROVE  /\ LeftOf(b.policy, by.policy, x.registry, c.before, c.identity)
         /\ LeftOf(b.policy, by.policy, y.registry, c.after, c.identity)
         /\ "registry" \in x.coverage.captured \cap y.coverage.captured
         /\ c.before # None \/ c.after # None
<1> DEFINE d == Compare(b, f, x, y)
           both == CoverageOfBoth(x.coverage, y.coverage)
           Left(k) == /\ LeftOf(b.policy, by.policy, x.registry, k.before, k.identity)
                      /\ LeftOf(b.policy, by.policy, y.registry, k.after, k.identity)
<1>1. DOMAIN d = DiffFields /\ DiffShape(d) /\ CleanDiff(b.policy, d)
  BY CompareIsADiff, CompareIsClean
<1>2. d.registry = ToldKeys(b, both, x, y)
  <2> HIDE DEF d, both
  <2>1. d = Compare(b, f, x, y) /\ both = CoverageOfBoth(x.coverage, y.coverage)
    BY DEF d, both
  <2> QED BY <2>1, CompareParts
<1>3. ASSUME NEW k \in d.registry
      PROVE  /\ SaysOf(b.policy, x.registry, k.before, k.identity)
             /\ SaysOf(b.policy, y.registry, k.after, k.identity)
             /\ RegistryChange(k) /\ CleanChange(b.policy, k)
             /\ "registry" \in x.coverage.captured \cap y.coverage.captured
             /\ k.before # None \/ k.after # None
  <2> HIDE DEF d
  <2>1. /\ k \in CompareRegistry(b.policy, b.diff_format, x.registry, y.registry)
        /\ "registry" \in x.coverage.captured \cap y.coverage.captured
    BY <1>2, <1>3 DEF ToldKeys, Covers, CoverageOfBoth
  <2>2. \A r \in x.registry \cup y.registry : IsRecord(r)
    BY DEF SnapshotShape
  <2>3. /\ SaysOf(b.policy, x.registry, k.before, k.identity)
        /\ SaysOf(b.policy, y.registry, k.after, k.identity)
    BY <2>1, <2>2, ComparedSays
  <2>4. RegistryChange(k) /\ CleanChange(b.policy, k)
    BY <1>1, <1>3 DEF DiffShape, CleanDiff
  <2>5. k.before # None \/ k.after # None
    BY <2>1, <2>2, ComparedHasASide
  <2> QED BY <2>1, <2>3, <2>4, <2>5
<1>4. (by = b /\ told = d) \/ told = Refilter(by.policy, d)
  BY DEF MadeOf
<1> HIDE DEF d
<1>5. CASE by = b /\ told = d
  <2>1. c \in d.registry
    BY <1>5
  <2>2. CleanSide(by.policy, c.before) /\ CleanSide(by.policy, c.after)
    BY <1>3, <1>5, <2>1 DEF CleanChange
  <2> QED BY <1>3, <2>1, <2>2, SaysWhatIsLeft
<1>6. CASE told = Refilter(by.policy, d)
  <2> DEFINE again == {k \in d.registry : d.format_version # DiffFormat \/ ~Untouched(by.policy, k)}
  <2>1. told.registry = (d.registry \ again) \cup UNION {Rebuilt(by.policy, k) : k \in again}
    BY <1>1, <1>6, RefilterTells
  <2>2. CASE c \in d.registry \ again
    <3>1. c \in d.registry /\ Untouched(by.policy, c)
      BY <2>2
    <3>2. CleanSide(by.policy, c.before) /\ CleanSide(by.policy, c.after)
      BY <1>3, <3>1, UntouchedIsClean DEF CleanChange
    <3> QED BY <1>3, <3>1, <3>2, SaysWhatIsLeft
  <2>3. ASSUME NEW k \in again, c \in Rebuilt(by.policy, k)
        PROVE  Left(c) /\ k \in d.registry /\ (c.before # None \/ c.after # None)
    <3>1. k \in d.registry
      OBVIOUS
    <3> HIDE DEF again
    <3> DEFINE left == AdmitSide(by.policy, k.before)
               right == AdmitSide(by.policy, k.after)
               rebuilt == [k EXCEPT !.before = AdmitSide(by.policy, @),
                                    !.after = AdmitSide(by.policy, @)]
    <3>2. rebuilt = [identity |-> k.identity, before |-> left, after |-> right]
      <4>1. rebuilt = [k EXCEPT !.before = left, !.after = right]
        OBVIOUS
      <4>2. k = [identity |-> k.identity, before |-> k.before, after |-> k.after]
        BY <1>3, <3>1 DEF RegistryChange
      <4> HIDE DEF left, right, rebuilt
      <4> QED BY <4>1, <4>2
    <3>3. (c = rebuilt /\ Sides(rebuilt) # {}) \/ (KindOf(rebuilt) = "modified" /\ c \in RegistryModification(rebuilt))
      BY <2>3 DEF Rebuilt
    <3>4. /\ LeftOf(b.policy, by.policy, x.registry, left, k.identity)
          /\ LeftOf(b.policy, by.policy, y.registry, right, k.identity)
      BY <1>3, <3>1, AdmittedSaysWhatIsLeft
    <3>5. RegistrySide(left) /\ RegistrySide(right)
      BY <1>3, <3>1, AdmittedSide DEF RegistryChange
    <3> HIDE DEF left, right, rebuilt
    <3>6. rebuilt.identity = k.identity /\ rebuilt.before = left /\ rebuilt.after = right
      BY <3>2
    <3>7. ASSUME KindOf(rebuilt) = "modified", c \in RegistryModification(rebuilt) PROVE FALSE
      <4>1. rebuilt.before # None /\ rebuilt.after # None
        BY <3>7 DEF KindOf
      <4>2. RegistryChange(rebuilt)
        BY <3>2, <3>5, <3>6 DEF RegistryChange
      <4> DEFINE names == ValueDifferences(rebuilt.before[1], rebuilt.after[1])
      <4> HIDE DEF names
      <4>3. c = [identity |-> rebuilt.identity, before |-> Some(Narrowed(rebuilt.before[1], names)),
                 after |-> Some(Narrowed(rebuilt.after[1], names))]
        BY <3>7, <4>1, <4>2, ModificationIsAChange DEF names
      <4>4. c.before # None /\ c.after # None
        BY <4>3, SomeIsNotNone
      <4> QED BY <4>4 DEF KindOf
    <3>8. c = rebuilt /\ (c.before # None \/ c.after # None)
      BY <3>3, <3>7 DEF Sides
    <3> QED BY <3>1, <3>4, <3>6, <3>8
  <2>4. \/ c \in d.registry \ again
        \/ \E k \in again : c \in Rebuilt(by.policy, k)
    BY <2>1
  <2> HIDE DEF again
  <2>5. ASSUME NEW k \in again, c \in Rebuilt(by.policy, k)
        PROVE  /\ Left(c) /\ (c.before # None \/ c.after # None)
               /\ "registry" \in x.coverage.captured \cap y.coverage.captured
    BY <1>3, <2>3, <2>5
  <2> QED BY <2>2, <2>4, <2>5
<1> QED BY <1>4, <1>5, <1>6


LEMMA KeysOfMachines ==
  ASSUME NEW x, OfMachines(x)
  PROVE  HasValues(x.keys) /\ IsKeyTree(x.keys)
<1>1. PICK m \in Machines : x.keys = m.keys
  BY DEF OfMachines
<1>2. \A k \in m.keys : k.values \in Seq(Range(k.values))
  BY ObservationAssumption
<1> QED BY <1>1, <1>2, NodesOfMachines DEF HasValues

(* A denial of a key neither build excludes is still in the diff.           *)
LEMMA DenialOfAKeyStays ==
  ASSUME NEW b, NEW f, NEW x, NEW y, NEW by, NEW told, MadeOf(b, f, x, y, by, told),
         Fragments(b.policy), Fragments(by.policy), NEW s \in {x, y},
         NEW key, IsPath(key), NEW view, DenialOfKey(s, key, view),
         ~IsExcludedKey(b.policy, key), ~IsExcludedKey(by.policy, key)
  PROVE  Unread(told, "registry", key, view)
<1>1. PICK item, value : /\ IsPath(item) /\ IsWithin(key, item)
                         /\ value = None \/ Len(item) = Len(key)
                         /\ Denied("registry", item, value, view) \in s.coverage.access_denied
  BY DEF DenialOfKey
<1> DEFINE q == Denied("registry", item, value, view)
<1>2. q.domain = "registry" /\ q.item = item /\ q.value = value /\ q.view = view
  BY DEF Denied
<1>3. q \in x.coverage.access_denied \cup y.coverage.access_denied
  BY <1>1
<1> HIDE DEF q
<1>4. ASSUME NEW policy, Fragments(policy), ~IsExcludedKey(policy, key)
      PROVE  ~ExcludesDenied(policy, q)
  <2>1. IsPrefix(Folded(item), Folded(key))
    BY <1>1 DEF IsWithin
  <2>2. item \in Seq(Range(item)) /\ key \in Seq(Range(key))
    BY <1>1 DEF IsPath
  <2>3. ~IsExcludedKey(policy, item)
    BY <1>4, <2>1, <2>2, ExcludedBelow
  <2> QED BY <1>2, <2>3 DEF ExcludesDenied
<1>5. ~ExcludesDenied(b.policy, q) /\ ~ExcludesDenied(by.policy, q)
  BY <1>4
<1>6. q \in told.coverage.access_denied
  BY <1>3, <1>5, DenialsStay
<1> QED BY <1>1, <1>2, <1>6 DEF Unread

LEMMA NewKeyTold ==
  ASSUME Held, ShowInv, NEW n \in DOMAIN diffs, NEW e, e = diffs[n], NEW way \in Ways(e),
         NEW c \in OfKind(e.diff.registry, way)
  PROVE  KeyIsNew(e, way, c)
<1> DEFINE x == snapshots[e.run.before]
           y == snapshots[e.run.after]
           s == snapshots[way.from]
           t == snapshots[way.to]
           from == seen[way.from]
           to == seen[way.to]
           b == e.run.build
           by == e.by
           identity == c.identity
           key == identity.key
           view == identity.view
<1>1. MadeOf(b, e.run.filter, x, y, by, e.diff)
  BY DiffIsMade
<1>2. Fragments(b.policy) /\ Fragments(by.policy)
  BY PoliciesOfADiff
<1>3. /\ Shows(s, from) /\ Shows(t, to)
      /\ \/ way.kind = "added" /\ s = x /\ t = y
         \/ way.kind = "removed" /\ s = y /\ t = x
  BY WaysAre
<1>4. c \in e.diff.registry /\ KindOf(c) = way.kind
  BY DEF OfKind
<1>5. SnapshotShape(x) /\ SnapshotShape(y)
  <2>1. e.run.before \in DOMAIN snapshots /\ e.run.after \in DOMAIN snapshots
    BY DiffIsMade
  <2> QED BY <2>1 DEF Held, SnapshotsHeld
<1> HIDE DEF x, y, s, t, from, to, b, by
<1>6. KindOf(c) # "modified"
  BY <1>3, <1>4
<1>7. /\ LeftOf(b.policy, by.policy, x.registry, c.before, identity)
      /\ LeftOf(b.policy, by.policy, y.registry, c.after, identity)
      /\ "registry" \in x.coverage.captured \cap y.coverage.captured
      /\ c.before # None \/ c.after # None
  BY <1>1, <1>4, <1>5, <1>6, KeyTold
<1>8. "registry" \in from.build.domains /\ "registry" \in to.build.domains
  BY <1>3, <1>7 DEF Shows
<1>9. \/ way.kind = "added" /\ c.before = None /\ c.after # None
      \/ way.kind = "removed" /\ c.after = None /\ c.before # None
  <2>1. \/ c.before = None
        \/ c.before # None /\ c.after = None
    BY <1>6 DEF KindOf
  <2>2. CASE c.before = None
    <3>1. KindOf(c) = "added"
      BY <2>2 DEF KindOf
    <3>2. c.after # None
      BY <1>7, <2>2
    <3> QED BY <1>4, <2>2, <3>1, <3>2
  <2>3. CASE c.before # None /\ c.after = None
    <3>1. KindOf(c) = "removed"
      BY <2>3 DEF KindOf
    <3> QED BY <1>4, <2>3, <3>1
  <2> QED BY <2>1, <2>2, <2>3
<1>10. /\ \E q \in t.registry : /\ RegistryIdentity(q) = identity
                                /\ ~IsExcludedKey(b.policy, q.key) /\ ~IsExcludedKey(by.policy, q.key)
       /\ \A q \in s.registry : RegistryIdentity(q) = identity =>
            \E r \in s.registry, policy \in {b.policy, by.policy} :
              /\ RegistryIdentity(r) = identity
              /\ IsExcludedKey(policy, r.key) \/ \E v \in r.values : ~Allowed(policy, v)
  <2>1. CASE way.kind = "added"
    BY <1>3, <1>7, <1>9, <2>1 DEF LeftOf
  <2>2. CASE way.kind = "removed"
    BY <1>3, <1>7, <1>9, <2>2 DEF LeftOf
  <2> QED BY <1>9, <2>1, <2>2
<1>11. PICK q \in t.registry : /\ RegistryIdentity(q) = identity
                               /\ ~IsExcludedKey(b.policy, q.key) /\ ~IsExcludedKey(by.policy, q.key)
  BY <1>10
<1>12. key = Folded(q.key) /\ view = q.view /\ identity = [key |-> key, view |-> view]
  <2>1. identity = [key |-> Folded(q.key), view |-> q.view]
    BY <1>11 DEF RegistryIdentity
  <2> HIDE DEF identity
  <2> QED BY <2>1
<1>13. HasValues(from.keys) /\ HasValues(to.keys) /\ IsKeyTree(to.keys) /\ OfMachines(from) /\ OfMachines(to)
  BY <1>3, KeysOfMachines DEF Shows
<1>14. /\ IsPath(q.key) /\ q.view \in View /\ ~IsExcludedKey(to.build.policy, q.key)
       /\ ValuesOf(to.keys, Folded(q.key), q.view) # {}
       /\ \E root \in RegistryRoots, m \in to.keys :
            m.key = q.key /\ KeyFound(to.keys, root, q.view, m)
  BY <1>3, <1>8, <1>11, <1>13, KeyRecorded
<1> HIDE DEF identity, key, view
<1>15. IsPath(key) /\ Folded(key) = Folded(q.key)
  <2>1. IsPath(Folded(q.key)) /\ Folded(Folded(q.key)) = Folded(q.key)
    <3>1. q.key \in Seq(Range(q.key))
      BY <1>14 DEF IsPath
    <3> QED BY <1>14, <3>1, FoldedIs DEF IsPath
  <2> QED BY <1>12, <2>1
<1>16. \A policy : IsExcludedKey(policy, key) = IsExcludedKey(policy, q.key)
  BY <1>15, FoldedDecidesKey
<1>17. ASSUME ~WalksKey(way.from, key) PROVE e.diff.registry_policy_changed
  <2>1. e.diff.registry_policy_changed = (x.registry_policy # y.registry_policy)
    BY <1>1, MadeTells
  <2>2. s.registry_policy = Some(from.build.policy.keys) /\ t.registry_policy = Some(to.build.policy.keys)
    BY <1>3, <1>8 DEF Shows, ShowsKeys
  <2>3. from.build.policy.keys # to.build.policy.keys
    <3> SUFFICES ASSUME from.build.policy.keys = to.build.policy.keys PROVE FALSE
      OBVIOUS
    <3>1. IsExcludedKey(from.build.policy, key) = IsExcludedKey(to.build.policy, key)
      BY DEF IsExcludedKey
    <3> QED BY <1>14, <1>16, <1>17, <3>1 DEF WalksKey, from
  <2>4. s.registry_policy # t.registry_policy
    BY <2>2, <2>3, SomeIsNotNone
  <2> QED BY <1>3, <2>1, <2>4
<1>18. ASSUME ValuesOf(from.keys, key, view) # {}, WalksKey(way.from, key)
       PROVE  Unread(e.diff, "registry", key, view) \/ HeldBack(e, way.from, identity)
  <2>1. ~IsExcludedKey(from.build.policy, key)
    BY <1>18 DEF WalksKey, from
  <2>2. PICK root \in RegistryRoots, m \in to.keys :
          m.key = q.key /\ KeyFound(to.keys, root, view, m)
    BY <1>12, <1>14
  <2>3. key = Folded(m.key) /\ view \in View
    BY <1>12, <1>14, <2>2
  <2>4. \/ \E r \in s.registry : RegistryIdentity(r) = [key |-> key, view |-> view]
        \/ DenialOfKey(s, key, view)
    BY <1>3, <1>8, <1>13, <1>18, <2>1, <2>2, <2>3, KeySeen
  <2>5. CASE DenialOfKey(s, key, view)
    <3>1. ~IsExcludedKey(b.policy, key) /\ ~IsExcludedKey(by.policy, key)
      BY <1>11, <1>16
    <3>2. s \in {x, y}
      BY <1>3
    <3>3. Unread(e.diff, "registry", key, view)
      BY <1>1, <1>2, <1>15, <2>5, <3>1, <3>2, DenialOfAKeyStays
    <3> QED BY <3>3
  <2>6. CASE \E r \in s.registry : RegistryIdentity(r) = [key |-> key, view |-> view]
    <3>1. PICK r \in s.registry, policy \in {b.policy, by.policy} :
            /\ RegistryIdentity(r) = identity
            /\ IsExcludedKey(policy, r.key) \/ \E v \in r.values : ~Allowed(policy, v)
      BY <1>10, <1>12, <2>6
    <3>2. ~IsExcludedKey(policy, r.key)
      <4>1. Folded(r.key) = Folded(q.key)
        BY <1>11, <3>1 DEF RegistryIdentity
      <4>2. ~IsExcludedKey(policy, q.key)
        BY <1>11, <3>1
      <4> QED BY <4>1, <4>2, FoldedDecidesKey
    <3>3. PICK build \in {b, by} : policy = build.policy
      BY <3>1
    <3>4. \E v \in r.values : ~Allowed(build.policy, v)
      BY <3>1, <3>2, <3>3
    <3> QED BY <3>1, <3>3, <3>4 DEF HeldBack, b, by, s
  <2> QED BY <2>4, <2>5, <2>6
<1>19. ValuesOf(to.keys, key, view) # {}
  BY <1>12, <1>14
<1> QED BY <1>17, <1>18, <1>19 DEF KeyIsNew, from, to, key, view, identity


(* No diff tells of a service, a file or a key as new that was there when   *)
(* the other snapshot looked, unless the diff itself says that snapshot did *)
(* not read it, or looked elsewhere, or a build held its values back; and   *)
(* none claims a restart that did not take place.  This holds of every      *)
(* machine and policy, of whatever the collectors run into and whatever     *)
(* changes while they read (take_snapshot, compare, refilter,               *)
(* rebooted_between).                                                       *)
THEOREM NothingIsInvented == Spec => []NothingInvented
<1>1. Held /\ ShowInv => NothingInvented
  <2> SUFFICES ASSUME Held, ShowInv, NEW n \in Judged, NEW way \in Ways(diffs[n]),
                      NEW d, d = diffs[n]
               PROVE  /\ d.diff.rebooted_between = Some(TRUE) => Restarted(d)
                      /\ \A c \in OfKind(ServicesTold(d.diff), way) : ServiceIsNew(d, way, c)
                      /\ \A c \in OfKind(FilesTold(d.diff), way) : FileIsNew(d, way, c)
                      /\ \A c \in OfKind(d.diff.registry, way) : KeyIsNew(d, way, c)
    BY Zenon DEF NothingInvented
  <2>1. n \in DOMAIN diffs
    BY DEF Judged
  <2>2. way \in Ways(d)
    OBVIOUS
  <2>3. d.diff.rebooted_between = Some(TRUE) => Restarted(d)
    BY <2>1, RestartTold
  <2>4. \A c \in OfKind(ServicesTold(d.diff), way) : ServiceIsNew(d, way, c)
    BY <2>1, <2>2, NewServiceTold
  <2>5. \A c \in OfKind(FilesTold(d.diff), way) : FileIsNew(d, way, c)
    BY <2>1, <2>2, NewFileTold
  <2>6. \A c \in OfKind(d.diff.registry, way) : KeyIsNew(d, way, c)
    BY <2>1, <2>2, NewKeyTold
  <2> QED BY <2>3, <2>4, <2>5, <2>6
<1> QED BY <1>1, AlwaysHeld, AlwaysShown, PTL


-------------------------------------------------------------------------------
(* What a walk of the filesystem calls empty.                               *)

LEMMA EitherIsAbove ==
  ASSUME NEW p, p \in Seq(Range(p)), NEW q, q \in Seq(Range(q)), NEW r, r \in Seq(Range(r)),
         IsPrefix(p, r), IsPrefix(q, r)
  PROVE  IsPrefix(p, q) \/ IsPrefix(q, p)
<1>1. /\ Len(p) \in Nat /\ Len(q) \in Nat /\ Len(r) \in Nat
  BY PathShape
<1>2. /\ Len(p) <= Len(r) /\ \A i \in 1..Len(p) : p[i] = r[i]
      /\ Len(q) <= Len(r) /\ \A i \in 1..Len(q) : q[i] = r[i]
  BY PrefixIs
<1>3. CASE Len(p) <= Len(q)
  <2>1. \A i \in 1..Len(p) : p[i] = q[i]
    BY <1>1, <1>2, <1>3
  <2> QED BY <1>3, <2>1, PrefixIs
<1>4. CASE Len(q) <= Len(p)
  <2>1. \A i \in 1..Len(q) : q[i] = p[i]
    BY <1>1, <1>2, <1>4
  <2> QED BY <1>4, <2>1, PrefixIs
<1> QED BY <1>1, <1>3, <1>4

LEMMA NothingIsShort == Len(<<>>) = 0 /\ Parent(<<>>) = <<>>
<1>1. Len(<<>>) = 0
  OBVIOUS
<1>2. <<>> \in Seq({})
  OBVIOUS
<1>3. ASSUME NEW p, p \in Seq({}), Len(p) = 0 PROVE SubSeq(p, 1, Len(p) - 1) = <<>>
  BY <1>3
<1>4. SubSeq(<<>>, 1, Len(<<>>) - 1) = <<>>
  BY <1>1, <1>2, <1>3
<1> QED BY <1>1, <1>4 DEF Parent

(* What holds a path is one name shorter and below all else above the path. *)
LEMMA ParentIs ==
  ASSUME NEW p, p \in Seq(Range(p)), p # <<>>
  PROVE  /\ Parent(p) \in Seq(Range(Parent(p))) /\ Len(p) \in Nat \ {0} /\ Len(Parent(p)) = Len(p) - 1
         /\ IsPrefix(Parent(p), p)
         /\ \A q : q \in Seq(Range(q)) /\ IsPrefix(q, p) /\ q # p => IsPrefix(q, Parent(p))
<1> DEFINE q == Parent(p)
           m == Len(p) - 1
<1>1. Len(p) \in Nat \ {0}
  <2>1. Len(p) \in Nat
    BY PathShape
  <2>2. Len(p) # 0
    <3> DEFINE S == Range(p)
    <3>1. p \in Seq(S)
      OBVIOUS
    <3> HIDE DEF S
    <3> QED BY <3>1
  <2> QED BY <2>1, <2>2
<1>2. m \in Nat /\ q = SubSeq(p, 1, m)
  BY <1>1 DEF Parent
<1>3. m = Len(p) - 1
  OBVIOUS
<1> HIDE DEF m
<1>4. q \in Seq(Range(q)) /\ Len(q) = m /\ \A i \in 1..m : q[i] = p[i]
  <2>1. CASE m = 0
    <3> DEFINE S == Range(p)
    <3>1. p \in Seq(S)
      OBVIOUS
    <3> HIDE DEF S
    <3>2. q = <<>>
      BY <1>2, <2>1, <3>1
    <3> HIDE DEF q
    <3>3. q \in Seq(Range(q)) /\ Len(q) = 0
      BY <3>2
    <3> QED BY <2>1, <3>3
  <2>2. CASE m # 0
    <3>1. m \in 1..Len(p)
      BY <1>1, <1>2, <1>3, <2>2
    <3> HIDE DEF q
    <3> QED BY <1>2, <3>1, FrontOf
  <2> QED BY <2>1, <2>2
<1> HIDE DEF q
<1>5. IsPrefix(q, p)
  <2>1. Len(q) <= Len(p) /\ \A i \in 1..Len(q) : q[i] = p[i]
    BY <1>1, <1>4, <1>3
  <2> QED BY <1>4, <2>1, PrefixIs
<1>6. ASSUME NEW k, k \in Seq(Range(k)), IsPrefix(k, p), k # p PROVE IsPrefix(k, q)
  <2>1. Len(k) \in Nat
    BY <1>6, PathShape
  <2>2. Len(k) <= Len(p) /\ \A i \in 1..Len(k) : k[i] = p[i]
    BY <1>6, PrefixIs
  <2>3. Len(k) < Len(p)
    BY <1>4, <1>6, PrefixOfPrefix
  <2>4. Len(k) <= Len(q) /\ \A i \in 1..Len(k) : k[i] = q[i]
    BY <1>1, <1>4, <1>3, <2>1, <2>2, <2>3
  <2> QED BY <1>4, <1>6, <2>4, PrefixIs
<1> QED BY <1>1, <1>4, <1>3, <1>5, <1>6 DEF q

LEMMA BelowSomething ==
  ASSUME NEW p, p \in Seq(Range(p)), NEW q, q \in Seq(Range(q)), p # <<>>, IsPrefix(p, q)
  PROVE  q # <<>>
<1>1. Len(p) \in Nat \ {0}
  BY ParentIs
<1>2. Len(p) <= Len(q)
  BY PrefixIs
<1>3. Len(q) # 0
  BY <1>1, <1>2
<1> QED BY <1>3, NothingIsShort

WalkPasses(policy, roots, n) == WalkEnters(policy, roots, n) /\ WalkLists(n)
WalkListed(policy, nodes, roots, path) ==
  \E n : WalkSees(policy, nodes, roots, n) /\ WalkPasses(policy, roots, n) /\ path = n.path
WalkHolds(policy, nodes, roots, path) ==
  \E n :
    /\ WalkSees(policy, nodes, roots, n)
    /\ \/ ~WalkEnters(policy, roots, n) /\ path = Parent(n.path)
       \/ n.kind \in {"file", "link"} /\ path = Parent(n.path)
       \/ n.kind = "directory" /\ WalkEnters(policy, roots, n) /\ ~WalkLists(n) /\ path = n.path
WalkHoldsBelow(policy, nodes, roots, path) ==
  \E h : WalkHolds(policy, nodes, roots, h) /\ IsPrefix(path, h)

LEMMA EmptyIs ==
  ASSUME NEW policy, NEW nodes, NEW roots
  PROVE  \A path : path \in ListFiles(policy, nodes, roots).empty <=>
           /\ WalkListed(policy, nodes, roots, path) /\ ~WalkHoldsBelow(policy, nodes, roots, path)
           /\ \/ ~WalkListed(policy, nodes, roots, Parent(path))
              \/ WalkHoldsBelow(policy, nodes, roots, Parent(path))
<1> DEFINE walk == ListFiles(policy, nodes, roots)
           Enters(n) == WalkEnters(policy, roots, n)
           reached == {n \in nodes : \E root \in roots :
                         /\ IsPrefix(root, n.path)
                         /\ \A m \in {m \in nodes : IsPrefix(root, m.path)
                                                    /\ IsStrictPrefix(m.path, n.path)} :
                              Enters(m) /\ WalkLists(m)}
           visible == {n \in reached : n.fault # "unlisted" \/ n.path \in roots}
           entered == {n \in visible : Enters(n)}
           listed  == {n \in entered : WalkLists(n)}
           closed  == {n \in entered : n.kind = "directory"} \ listed
           links   == {n \in entered : n.kind = "link"}
           files   == {n \in entered : n.kind = "file"}
           read    == {n.path : n \in listed}
           holding == {Parent(n.path) : n \in files \cup links \cup (visible \ entered)}
                      \cup {n.path : n \in closed}
<1>1. walk.empty = TopmostEmpty(read, holding)
  BY DEF ListFiles, WalkEnters, WalkLists
<1>2. \A n : n \in reached <=> n \in nodes /\ WalkReaches(policy, nodes, roots, n)
  BY DEF WalkReaches
<1>3. \A n : n \in visible <=> WalkSees(policy, nodes, roots, n)
  <2> HIDE DEF reached
  <2> QED BY <1>2 DEF WalkSees
<1> HIDE DEF walk, visible
<1>4. \A path : path \in read <=> WalkListed(policy, nodes, roots, path)
  BY <1>3 DEF WalkListed, WalkPasses
<1>5. \A path : path \in holding <=> WalkHolds(policy, nodes, roots, path)
  BY <1>3 DEF WalkHolds
<1> HIDE DEF read, holding
<1>6. \A path : HoldsBelow(holding, path) <=> WalkHoldsBelow(policy, nodes, roots, path)
  BY <1>5 DEF HoldsBelow, WalkHoldsBelow
<1> QED BY <1>1, <1>4, <1>6 DEF TopmostEmpty, walk

(* Below a directory that was listed, whatever is no directory, cannot be   *)
(* listed or is excluded makes it hold something, or something on the way   *)
(* to it could not be listed by its own directory.                          *)
LEMMA ObstacleIsHeld ==
  ASSUME NEW policy, NEW nodes, IsFileTree(nodes), NEW roots, \A root \in roots : IsPath(root),
         NEW n, WalkSees(policy, nodes, roots, n), WalkPasses(policy, roots, n),
         NEW o \in nodes, IsPrefix(n.path, o.path), ~WalkPasses(policy, roots, o)
  PROVE  \/ WalkHoldsBelow(policy, nodes, roots, n.path)
         \/ \E k \in nodes : /\ k.fault = "unlisted" /\ k.path \notin roots
                             /\ IsPrefix(n.path, k.path) /\ IsPrefix(k.path, o.path)
<1> DEFINE Passes(k) == WalkPasses(policy, roots, k)
           stopping == {k \in nodes : /\ IsPrefix(n.path, k.path) /\ IsPrefix(k.path, o.path)
                                      /\ ~Passes(k)}
           lengths == {Len(k.path) : k \in stopping}
<1>1. \A k \in nodes : k.path \in Seq(Range(k.path))
  BY DEF IsFileTree, IsPath
<1>2. \A k \in nodes : Len(k.path) \in Nat
  BY <1>1, PathShape
<1>3. o \in stopping
  <2>1. Len(o.path) <= Len(o.path)
    BY <1>2
  <2>2. IsPrefix(o.path, o.path)
    BY <1>1, <2>1, PrefixIs
  <2> QED BY <2>2
<1>4. PICK k \in stopping : \A j \in stopping : Len(k.path) <= Len(j.path)
  <2>1. lengths \in SUBSET Nat /\ lengths # {}
    BY <1>2, <1>3
  <2>2. PICK l \in lengths : \A j \in lengths : l <= j
    <3> HIDE DEF lengths
    <3> QED BY <2>1, LeastNatural
  <2> QED BY <2>2
<1>5. k \in nodes /\ IsPrefix(n.path, k.path) /\ IsPrefix(k.path, o.path) /\ ~Passes(k)
  BY <1>4
<1>6. n \in nodes /\ n.path # k.path
  BY <1>5 DEF WalkSees, IsFileTree
<1>7. PICK root \in roots :
        /\ IsPrefix(root, n.path)
        /\ \A m \in nodes : IsPrefix(root, m.path) /\ IsStrictPrefix(m.path, n.path) => Passes(m)
  BY DEF WalkSees, WalkReaches, WalkPasses
<1>8. root \in Seq(Range(root))
  BY DEF IsPath
<1> HIDE DEF Passes
<1>9. ASSUME NEW m \in nodes, IsPrefix(root, m.path), IsStrictPrefix(m.path, k.path)
      PROVE  Passes(m)
  <2>1. IsPrefix(m.path, k.path) /\ m.path # k.path
    BY <1>9 DEF IsStrictPrefix
  <2>2. CASE m.path = n.path
    <3>1. m = n
      BY <1>6, <2>2 DEF IsFileTree
    <3> QED BY <3>1 DEF Passes
  <2>3. CASE m.path # n.path /\ IsPrefix(m.path, n.path)
    BY <1>7, <1>9, <2>3 DEF IsStrictPrefix
  <2>4. CASE IsPrefix(n.path, m.path)
    <3>1. IsPrefix(m.path, o.path)
      BY <1>1, <1>5, <2>1, PrefixOfPrefix
    <3>2. Len(m.path) < Len(k.path)
      BY <1>1, <1>5, <2>1, PrefixOfPrefix
    <3>3. m \notin stopping
      BY <1>2, <1>4, <1>5, <3>2
    <3> QED BY <2>4, <3>1, <3>3
  <2>5. IsPrefix(n.path, m.path) \/ IsPrefix(m.path, n.path)
    BY <1>1, <1>5, <1>6, <2>1, EitherIsAbove
  <2> QED BY <2>2, <2>3, <2>4, <2>5
<1>10. WalkReaches(policy, nodes, roots, k)
  <2>1. IsPrefix(root, k.path)
    BY <1>1, <1>5, <1>6, <1>7, <1>8, PrefixOfPrefix
  <2> QED BY <1>9, <2>1 DEF WalkReaches, WalkPasses, Passes
<1>11. CASE k.fault = "unlisted" /\ k.path \notin roots
  BY <1>5, <1>11
<1>12. CASE k.fault # "unlisted" \/ k.path \in roots
  <2>1. WalkSees(policy, nodes, roots, k)
    BY <1>5, <1>10, <1>12 DEF WalkSees
  <2>2. k.kind \in {"directory", "file", "link"}
    BY <1>5 DEF IsFileTree
  <2>3. IsPrefix(n.path, Parent(k.path))
    <3>1. k.path # <<>>
      <4>1. n.path \in Seq(Range(n.path)) /\ Len(n.path) < Len(k.path)
        BY <1>1, <1>5, <1>6, PrefixOfPrefix
      <4>2. Len(k.path) # 0
        BY <1>2, <1>6, <4>1
      <4> QED BY <4>2, NothingIsShort
    <3> QED BY <1>1, <1>5, <1>6, <3>1, ParentIs
  <2>4. WalkHolds(policy, nodes, roots, Parent(k.path)) \/ WalkHolds(policy, nodes, roots, k.path)
    <3>1. CASE ~WalkEnters(policy, roots, k) \/ k.kind \in {"file", "link"}
      BY <2>1, <3>1 DEF WalkHolds
    <3>2. CASE WalkEnters(policy, roots, k) /\ k.kind = "directory"
      <4>1. ~WalkLists(k)
        BY <1>5, <3>2 DEF Passes, WalkPasses
      <4> QED BY <2>1, <3>2, <4>1 DEF WalkHolds
    <3> QED BY <2>2, <3>1, <3>2
  <2> QED BY <1>5, <2>3, <2>4 DEF WalkHoldsBelow
<1> QED BY <1>11, <1>12


(* Of the directories that hold nothing, one on the way to each is on the   *)
(* list: the topmost.                                                       *)
LEMMA TopmostIsListed ==
  ASSUME NEW policy, NEW nodes, IsFileTree(nodes),
         NEW roots, \A root \in roots : IsPath(root) /\ root # <<>>,
         NEW m, WalkSees(policy, nodes, roots, m), WalkPasses(policy, roots, m),
         ~WalkHoldsBelow(policy, nodes, roots, m.path)
  PROVE  \E path \in ListFiles(policy, nodes, roots).empty : IsPrefix(path, m.path)
<1> DEFINE IsTop(n) == /\ WalkSees(policy, nodes, roots, n) /\ WalkPasses(policy, roots, n)
                       /\ ~WalkHoldsBelow(policy, nodes, roots, n.path) /\ IsPrefix(n.path, m.path)
           tops == {n \in nodes : IsTop(n)}
           lengths == {Len(n.path) : n \in tops}
<1>1. m \in nodes /\ \A n \in nodes : n.path \in Seq(Range(n.path))
  BY DEF WalkSees, IsFileTree, IsPath
<1>2. \A n \in nodes : Len(n.path) \in Nat
  BY <1>1, PathShape
<1>3. m \in tops
  <2>1. Len(m.path) <= Len(m.path)
    BY <1>1, <1>2
  <2>2. IsPrefix(m.path, m.path)
    BY <1>1, <2>1, PrefixIs
  <2> QED BY <1>1, <2>2
<1> HIDE DEF IsTop
<1>4. PICK n \in tops : \A k \in tops : Len(n.path) <= Len(k.path)
  <2>1. lengths \in SUBSET Nat /\ lengths # {}
    BY <1>2, <1>3
  <2>2. PICK l \in lengths : \A k \in lengths : l <= k
    <3> HIDE DEF lengths
    <3> QED BY <2>1, LeastNatural
  <2> QED BY <2>2
<1>5. n \in nodes /\ IsTop(n)
  BY <1>4
<1>6. n.path # <<>>
  <2>1. PICK root \in roots : IsPrefix(root, n.path)
    BY <1>5 DEF IsTop, WalkSees, WalkReaches
  <2>2. root \in Seq(Range(root)) /\ root # <<>>
    BY DEF IsPath
  <2> QED BY <1>1, <1>5, <2>1, <2>2, BelowSomething
<1> DEFINE up == Parent(n.path)
<1>7. /\ up \in Seq(Range(up)) /\ Len(up) = Len(n.path) - 1 /\ IsPrefix(up, n.path)
  BY <1>1, <1>5, <1>6, ParentIs
<1> HIDE DEF up
<1>8. ASSUME WalkListed(policy, nodes, roots, up), ~WalkHoldsBelow(policy, nodes, roots, up)
      PROVE  FALSE
  <2>1. PICK k : WalkSees(policy, nodes, roots, k) /\ WalkPasses(policy, roots, k) /\ up = k.path
    BY <1>8 DEF WalkListed
  <2>2. IsPrefix(up, m.path)
    BY <1>1, <1>5, <1>7, PrefixOfPrefix DEF IsTop
  <2>3. k \in tops
    BY <1>8, <2>1, <2>2 DEF IsTop, WalkSees
  <2> QED BY <1>2, <1>4, <1>5, <1>7, <2>1, <2>3
<1>9. n.path \in ListFiles(policy, nodes, roots).empty
  <2>1. WalkListed(policy, nodes, roots, n.path)
    BY <1>5 DEF IsTop, WalkListed
  <2>2. ~WalkHoldsBelow(policy, nodes, roots, n.path)
    BY <1>5 DEF IsTop
  <2>3. ~WalkListed(policy, nodes, roots, up) \/ WalkHoldsBelow(policy, nodes, roots, up)
    BY <1>8
  <2> QED BY <2>1, <2>2, <2>3, EmptyIs DEF up
<1> QED BY <1>5, <1>9 DEF IsTop

-------------------------------------------------------------------------------
(* What a snapshot says is empty.                                           *)

EmptyIn(s, path) ==
  s.file_empty_directories # None /\ path \in s.file_empty_directories[1]

LEMMA EmptyOfTheWalk ==
  ASSUME NEW s, NEW x, Shows(s, x), "filesystem" \in x.build.domains,
         s.file_empty_directories # None
  PROVE  \A path : EmptyIn(s, path)
           <=> path \in ListFiles(x.build.policy, x.listed, RootsOf(x.listed)).empty
<1>1. s.file_empty_directories \in {None, Some(Listing(x.build, x.listed).empty)}
  BY DEF Shows, ShowsFiles
<1>2. s.file_empty_directories[1] = Listing(x.build, x.listed).empty
  BY <1>1, SomeIsNotNone
<1> QED BY <1>2 DEF EmptyIn, Listing

(* Whatever no longer is a directory that can be listed, below one called   *)
(* empty, has something above it that its own directory could not list.     *)
LEMMA BelowAnEmptyOne ==
  ASSUME NEW s, NEW x, Shows(s, x), "filesystem" \in x.build.domains,
         NEW path, EmptyIn(s, path)
  PROVE  /\ HasDirectory(x.listed, path) /\ IsPath(path) /\ path # <<>>
         /\ \A o \in x.listed : IsPrefix(path, o.path) /\ ~WalkLists(o) =>
              \E k \in x.listed : /\ k.fault = "unlisted"
                                  /\ IsPrefix(path, k.path) /\ IsPrefix(k.path, o.path)
<1> DEFINE nodes == x.listed
           policy == x.build.policy
           roots == RootsOf(nodes)
<1>1. IsFileTree(nodes)
  BY NodesOfMachines DEF Shows
<1>2. \A root \in roots : IsPath(root) /\ root # <<>>
  BY RootsAre
<1>3. path \in ListFiles(policy, nodes, roots).empty
  BY EmptyOfTheWalk DEF EmptyIn
<1> HIDE DEF nodes, policy, roots
<1>4. WalkListed(policy, nodes, roots, path) /\ ~WalkHoldsBelow(policy, nodes, roots, path)
  BY <1>3, EmptyIs
<1>5. PICK n : WalkSees(policy, nodes, roots, n) /\ WalkPasses(policy, roots, n) /\ path = n.path
  BY <1>4 DEF WalkListed
<1>6. n \in nodes /\ n.kind = "directory"
  BY <1>5 DEF WalkSees, WalkPasses, WalkLists
<1>7. HasDirectory(nodes, path) /\ IsPath(path)
  BY <1>1, <1>5, <1>6 DEF HasDirectory, NodesAt, IsFileTree
<1>8. path # <<>>
  <2>1. PICK root \in roots : IsPrefix(root, path)
    BY <1>5 DEF WalkSees, WalkReaches
  <2>2. root \in Seq(Range(root)) /\ root # <<>> /\ path \in Seq(Range(path))
    BY <1>2, <1>7 DEF IsPath
  <2> QED BY <2>1, <2>2, BelowSomething
<1>9. ASSUME NEW o \in nodes, IsPrefix(path, o.path), ~WalkLists(o)
      PROVE  \E k \in nodes : /\ k.fault = "unlisted"
                              /\ IsPrefix(path, k.path) /\ IsPrefix(k.path, o.path)
  <2>1. ~WalkPasses(policy, roots, o) /\ IsPrefix(n.path, o.path)
    BY <1>5, <1>9 DEF WalkPasses
  <2>2. \/ WalkHoldsBelow(policy, nodes, roots, n.path)
        \/ \E k \in nodes : /\ k.fault = "unlisted" /\ k.path \notin roots
                            /\ IsPrefix(n.path, k.path) /\ IsPrefix(k.path, o.path)
    BY <1>1, <1>2, <1>5, <1>9, <2>1, ObstacleIsHeld
  <2> QED BY <1>4, <1>5, <2>2
<1> QED BY <1>7, <1>8, <1>9 DEF nodes

(* A directory the walk was to reach that stands empty, with nothing below  *)
(* it excluded, is on the list, or one above it is, or something above it   *)
(* was not read.                                                            *)
LEMMA StandingEmptyIsListed ==
  ASSUME NEW s, NEW x, Shows(s, x), "filesystem" \in x.build.domains,
         s.file_empty_directories # None,
         NEW m \in x.listed, StandsEmpty(x.listed, m.path),
         \A k \in x.listed : IsPrefix(m.path, k.path) => ~IsExcludedPath(x.build.policy, k.path),
         NEW root \in s.filesystem_policy[1].roots, IsWithin(m.path, root)
  PROVE  \/ \E path : EmptyIn(s, path) /\ IsPrefix(path, m.path)
         \/ \E k \in x.listed : k.fault = "unlisted" /\ IsWithin(m.path, k.path)
         \/ DenialOfFile(s, m.path)
<1> DEFINE nodes == x.listed
           policy == x.build.policy
           roots == RootsOf(nodes)
           walk == ListFiles(policy, nodes, roots)
<1>1. OfMachines(x) /\ ShowsFiles(s, x)
  BY DEF Shows
<1>2. IsFileTree(nodes) /\ Fragments(policy)
  BY <1>1, NodesOfMachines
<1>3. root \in roots
  BY <1>1, SomeIsNotNone DEF ShowsFiles
<1>4. root \in DefaultRoots \cup LibraryFolders /\ \A r \in roots : IsPath(r) /\ r # <<>>
  BY <1>3, RootsAre
<1>5. walk.access_denied \subseteq s.coverage.access_denied
  BY <1>1 DEF ShowsFiles, Listing
<1>6. \A path : EmptyIn(s, path) <=> path \in walk.empty
  BY EmptyOfTheWalk
<1>7. /\ \A k \in nodes : IsPrefix(m.path, k.path) =>
           k.kind = "directory" /\ k.fault = "none" /\ ~IsExcludedPath(policy, k.path)
      /\ m \in nodes
  BY DEF StandsEmpty
<1> HIDE DEF nodes, policy, roots
<1>8. \A k \in nodes : IsPath(k.path) /\ k.path \in Seq(Range(k.path))
  BY <1>2 DEF IsFileTree, IsPath
<1>9. IsPrefix(root, m.path)
  BY <1>2, <1>4, <1>7 DEF IsFileTree, SpelledFrom
<1>10. IsPrefix(m.path, m.path)
  <2>1. Len(m.path) <= Len(m.path)
    BY <1>7, <1>8, PathShape
  <2> QED BY <1>7, <1>8, <2>1, PrefixIs
<1>11. m.kind = "directory" /\ m.fault = "none" /\ ~IsExcludedPath(policy, m.path)
  BY <1>7, <1>10
<1>12. \A k \in nodes : IsPrefix(k.path, m.path) => IsWithin(m.path, k.path)
  BY <1>7, <1>8, FoldedPrefix DEF IsWithin
<1>13. \/ WalkReaches(policy, nodes, roots, m)
       \/ \E n \in nodes : IsPrefix(n.path, m.path) /\ n.fault = "unlisted"
       \/ \E n \in nodes : IsPrefix(n.path, m.path) /\ DeniedPath(n.path) \in walk.access_denied
  BY <1>2, <1>3, <1>4, <1>7, <1>9, <1>11, NodeReached
<1>14. CASE WalkReaches(policy, nodes, roots, m)
  <2>1. WalkSees(policy, nodes, roots, m) /\ WalkPasses(policy, roots, m)
    BY <1>7, <1>11, <1>14 DEF WalkSees, WalkPasses, WalkEnters, WalkLists
  <2>2. ASSUME WalkHoldsBelow(policy, nodes, roots, m.path) PROVE FALSE
    <3>1. PICK n, h :
            /\ WalkSees(policy, nodes, roots, n) /\ IsPrefix(m.path, h)
            /\ \/ ~WalkEnters(policy, roots, n) /\ h = Parent(n.path)
               \/ n.kind \in {"file", "link"} /\ h = Parent(n.path)
               \/ n.kind = "directory" /\ WalkEnters(policy, roots, n) /\ ~WalkLists(n) /\ h = n.path
      BY <2>2 DEF WalkHoldsBelow, WalkHolds
    <3>2. n \in nodes
      BY <3>1 DEF WalkSees
    <3>3. n.path # <<>>
      <4>1. PICK r \in roots : IsPrefix(r, n.path)
        BY <3>1 DEF WalkSees, WalkReaches
      <4>2. r \in Seq(Range(r)) /\ r # <<>>
        BY <1>4 DEF IsPath
      <4> QED BY <1>8, <3>2, <4>1, <4>2, BelowSomething
    <3>4. IsPrefix(m.path, n.path)
      <4>1. CASE h = n.path
        BY <3>1, <4>1
      <4>2. CASE h = Parent(n.path)
        <5>1. IsPrefix(h, n.path) /\ h \in Seq(Range(h))
          BY <1>8, <3>2, <3>3, <4>2, ParentIs
        <5> QED BY <1>7, <1>8, <3>1, <3>2, <5>1, PrefixOfPrefix
      <4> QED BY <3>1, <4>1, <4>2
    <3>5. n.kind = "directory" /\ n.fault = "none" /\ ~IsExcludedPath(policy, n.path)
      BY <1>7, <3>2, <3>4
    <3> QED BY <3>1, <3>5 DEF WalkEnters, WalkLists
  <2>3. \E path \in walk.empty : IsPrefix(path, m.path)
    BY <1>2, <1>4, <2>1, <2>2, TopmostIsListed
  <2> QED BY <1>6, <2>3
<1>15. CASE \E n \in nodes : IsPrefix(n.path, m.path) /\ n.fault = "unlisted"
  BY <1>12, <1>15 DEF nodes
<1>16. CASE \E n \in nodes : IsPrefix(n.path, m.path) /\ DeniedPath(n.path) \in walk.access_denied
  BY <1>5, <1>8, <1>12, <1>16 DEF DenialOfFile
<1> QED BY <1>13, <1>14, <1>15, <1>16


-------------------------------------------------------------------------------
(* A directory told as emptied.                                             *)

(* A list of a diff, when there is one: what the snapshot gone to lists, the*)
(* other does not and no policy excludes.                                   *)
ListsLeft(list, from, to, b, by) ==
  list # None =>
    /\ from.file_empty_directories # None /\ to.file_empty_directories # None
    /\ \A path : path \in list[1] <=>
         /\ EmptyIn(to, path) /\ ~EmptyIn(from, path)
         /\ ~IsExcludedPath(b.policy, path) /\ ~IsExcludedPath(by.policy, path)

LEMMA EmptiedAre ==
  ASSUME NEW b, NEW both, NEW from, NEW to,
         NEW list, list = EmptiedDirectories(b.policy, both, from, to).list
  PROVE  ListsLeft(list, from, to, b, b) /\ (list # None => Covers(both, "filesystem"))
<1> DEFINE fresh == to.file_empty_directories[1] \ from.file_empty_directories[1]
           kept == {path \in fresh : ~IsExcludedPath(b.policy, path)}
           known == /\ Covers(both, "filesystem")
                    /\ from.file_empty_directories # None /\ to.file_empty_directories # None
<1>1. list = IF known THEN Some(kept) ELSE None
  BY DEF EmptiedDirectories
<1>2. list # None => known /\ list[1] = kept
  BY <1>1, SomeIsNotNone
<1> QED BY <1>2 DEF ListsLeft, EmptyIn

LEMMA RefilteredLists ==
  ASSUME NEW policy, NEW d, DOMAIN d = DiffFields, NEW r, r = Refilter(policy, d)
  PROVE  /\ r.emptied_directories =
              IF d.emptied_directories = None THEN None
              ELSE Some({path \in d.emptied_directories[1] : ~IsExcludedPath(policy, path)})
         /\ r.formerly_empty_directories =
              IF d.formerly_empty_directories = None THEN None
              ELSE Some({path \in d.formerly_empty_directories[1] : ~IsExcludedPath(policy, path)})
BY DEF Refilter, DiffFields

LEMMA ListsOfADiff ==
  ASSUME NEW b, NEW f, NEW x, NEW y, NEW by, NEW told, MadeOf(b, f, x, y, by, told),
         NEW both, both = CoverageOfBoth(x.coverage, y.coverage)
  PROVE  /\ ListsLeft(told.emptied_directories, x, y, b, by)
         /\ ListsLeft(told.formerly_empty_directories, y, x, b, by)
         /\ told.emptied_directories # None \/ told.formerly_empty_directories # None =>
              Covers(both, "filesystem")
<1> DEFINE d == Compare(b, f, x, y)
<1>1. /\ d.emptied_directories = EmptiedDirectories(b.policy, both, x, y).list
      /\ d.formerly_empty_directories = EmptiedDirectories(b.policy, both, y, x).list
  BY CompareLists
<1>2. DOMAIN d = DiffFields
  BY CompareIsADiff
<1>3. (by = b /\ told = d) \/ told = Refilter(by.policy, d)
  BY DEF MadeOf
<1> HIDE DEF d
<1>4. /\ ListsLeft(d.emptied_directories, x, y, b, b)
      /\ ListsLeft(d.formerly_empty_directories, y, x, b, b)
      /\ d.emptied_directories # None => Covers(both, "filesystem")
      /\ d.formerly_empty_directories # None => Covers(both, "filesystem")
  BY <1>1, EmptiedAre
<1>5. CASE by = b /\ told = d
  BY <1>4, <1>5
<1>6. CASE told = Refilter(by.policy, d)
  <2>1. ASSUME NEW was, NEW is, NEW from, NEW to, ListsLeft(was, from, to, b, b),
               is = IF was = None THEN None
                    ELSE Some({path \in was[1] : ~IsExcludedPath(by.policy, path)})
        PROVE  ListsLeft(is, from, to, b, by) /\ (is # None => was # None)
    <3>1. is # None => was # None /\ is[1] = {path \in was[1] : ~IsExcludedPath(by.policy, path)}
      BY <2>1, SomeIsNotNone
    <3> QED BY <2>1, <3>1 DEF ListsLeft
  <2>2. /\ told.emptied_directories =
             IF d.emptied_directories = None THEN None
             ELSE Some({path \in d.emptied_directories[1] : ~IsExcludedPath(by.policy, path)})
        /\ told.formerly_empty_directories =
             IF d.formerly_empty_directories = None THEN None
             ELSE Some({path \in d.formerly_empty_directories[1] : ~IsExcludedPath(by.policy, path)})
    BY <1>2, <1>6, RefilteredLists
  <2>3. /\ ListsLeft(told.emptied_directories, x, y, b, by)
        /\ told.emptied_directories # None => d.emptied_directories # None
    BY <1>4, <2>1, <2>2
  <2>4. /\ ListsLeft(told.formerly_empty_directories, y, x, b, by)
        /\ told.formerly_empty_directories # None => d.formerly_empty_directories # None
    BY <1>4, <2>1, <2>2
  <2> QED BY <1>4, <2>3, <2>4
<1> QED BY <1>3, <1>5, <1>6

ListOf(e, way) ==
  IF way.kind = "added" THEN e.diff.emptied_directories ELSE e.diff.formerly_empty_directories

(* A list of emptied directories, read along a way.                         *)
LEMMA ListOfAWay ==
  ASSUME Held, ShowInv, NEW n \in DOMAIN diffs, NEW e, e = diffs[n], NEW way \in Ways(e),
         ListOf(e, way) # None
  PROVE  /\ ListsLeft(ListOf(e, way), snapshots[way.from], snapshots[way.to], e.run.build, e.by)
         /\ Shows(snapshots[way.from], seen[way.from]) /\ Shows(snapshots[way.to], seen[way.to])
         /\ "filesystem" \in seen[way.from].build.domains
         /\ "filesystem" \in seen[way.to].build.domains
<1> DEFINE x == snapshots[e.run.before]
           y == snapshots[e.run.after]
           both == CoverageOfBoth(x.coverage, y.coverage)
<1>1. MadeOf(e.run.build, e.run.filter, x, y, e.by, e.diff)
  BY DiffIsMade
<1>2. /\ Shows(snapshots[way.from], seen[way.from]) /\ Shows(snapshots[way.to], seen[way.to])
      /\ \/ way.kind = "added" /\ way.from = e.run.before /\ way.to = e.run.after
         \/ way.kind = "removed" /\ way.from = e.run.after /\ way.to = e.run.before
  BY WaysAre
<1>3. /\ ListsLeft(e.diff.emptied_directories, x, y, e.run.build, e.by)
      /\ ListsLeft(e.diff.formerly_empty_directories, y, x, e.run.build, e.by)
      /\ e.diff.emptied_directories # None \/ e.diff.formerly_empty_directories # None =>
           Covers(both, "filesystem")
  <2> DEFINE b == e.run.build
             f == e.run.filter
             by == e.by
             told == e.diff
  <2>1. MadeOf(b, f, x, y, by, told)
    BY <1>1
  <2> HIDE DEF b, f, by, told, x, y
  <2>2. /\ ListsLeft(told.emptied_directories, x, y, b, by)
        /\ ListsLeft(told.formerly_empty_directories, y, x, b, by)
        /\ told.emptied_directories # None \/ told.formerly_empty_directories # None =>
             Covers(both, "filesystem")
    BY <2>1, ListsOfADiff
  <2> QED BY <2>2 DEF b, by, told
<1>4. ListsLeft(ListOf(e, way), snapshots[way.from], snapshots[way.to], e.run.build, e.by)
  BY <1>2, <1>3 DEF ListOf
<1>5. "filesystem" \in x.coverage.captured \cap y.coverage.captured
  BY <1>3 DEF ListOf, Covers, CoverageOfBoth
<1>6. /\ snapshots[way.from].coverage.captured = seen[way.from].build.domains
      /\ snapshots[way.to].coverage.captured = seen[way.to].build.domains
  BY <1>2 DEF Shows
<1> QED BY <1>2, <1>4, <1>5, <1>6

(* What is told as emptied stands empty, as far as it could be listed.      *)
LEMMA EmptiedStandsEmpty ==
  ASSUME Held, ShowInv, NEW n \in DOMAIN diffs, NEW e, e = diffs[n], NEW way \in Ways(e),
         ListOf(e, way) # None, NEW path \in ListOf(e, way)[1]
  PROVE  \/ StandsEmpty(seen[way.to].listed, path)
         \/ \E m \in seen[way.to].listed : m.fault = "unlisted" /\ IsPrefix(path, m.path)
<1> DEFINE t == snapshots[way.to]
           to == seen[way.to]
<1>1. Shows(t, to) /\ "filesystem" \in to.build.domains /\ EmptyIn(t, path)
  BY ListOfAWay DEF ListsLeft
<1> HIDE DEF t, to
<1>2. /\ HasDirectory(to.listed, path)
      /\ \A o \in to.listed : IsPrefix(path, o.path) /\ ~WalkLists(o) =>
           \E k \in to.listed : /\ k.fault = "unlisted"
                                /\ IsPrefix(path, k.path) /\ IsPrefix(k.path, o.path)
  BY <1>1, BelowAnEmptyOne
<1> SUFFICES ASSUME ~\E m \in to.listed : m.fault = "unlisted" /\ IsPrefix(path, m.path)
             PROVE  StandsEmpty(to.listed, path)
  BY DEF to
<1>3. \A o \in to.listed : IsPrefix(path, o.path) => WalkLists(o)
  BY <1>2
<1> QED BY <1>2, <1>3 DEF StandsEmpty, WalkLists

(* A directory that lost its files and stands empty is on the list, or one  *)
(* above it is.                                                             *)
LEMMA LostIsListed ==
  ASSUME Held, ShowInv, NEW n \in DOMAIN diffs, NEW e, e = diffs[n], NEW way \in Ways(e),
         ListOf(e, way) # None,
         NEW o \in seen[way.from].listed, o.kind = "file", o.fault = "none",
         NEW m \in seen[way.to].listed, Parent(o.path) = m.path,
         StandsEmpty(seen[way.to].listed, m.path),
         \A k \in seen[way.to].listed : IsPrefix(m.path, k.path) =>
           ~IsExcludedPath(seen[way.to].build.policy, k.path),
         WalksPath(way.to, m.path), ~Unread(e.diff, "filesystem", m.path, ""),
         ~Unlisted(way.from, m.path), ~Unlisted(way.to, m.path),
         ~IsExcludedPath(e.run.build.policy, m.path), ~IsExcludedPath(e.by.policy, m.path)
  PROVE  \E path \in ListOf(e, way)[1] : IsPrefix(path, m.path)
<1> DEFINE s == snapshots[way.from]
           t == snapshots[way.to]
           from == seen[way.from]
           to == seen[way.to]
           b == e.run.build
           by == e.by
<1>1. /\ ListsLeft(ListOf(e, way), s, t, b, by)
      /\ Shows(s, from) /\ "filesystem" \in from.build.domains
      /\ Shows(t, to) /\ "filesystem" \in to.build.domains
  BY ListOfAWay
<1>2. Fragments(b.policy) /\ Fragments(by.policy)
  BY PoliciesOfADiff
<1>3. IsFileTree(from.listed) /\ IsFileTree(to.listed)
  BY <1>1, NodesOfMachines DEF Shows
<1>4. IsPath(m.path) /\ m.path \in Seq(Range(m.path)) /\ o.path \in Seq(Range(o.path))
  BY <1>3 DEF IsFileTree, IsPath
<1>5. PICK root \in t.filesystem_policy[1].roots : IsWithin(m.path, root)
  BY DEF WalksPath
<1>6. ~DenialOfFile(t, m.path)
  BY <1>4, FileDenialStays
<1>7. ~\E k \in to.listed : k.fault = "unlisted" /\ IsWithin(m.path, k.path)
  BY DEF Unlisted
<1>8. \A k \in from.listed : IsPrefix(k.path, m.path) => k.fault # "unlisted"
  <2> SUFFICES ASSUME NEW k \in from.listed, IsPrefix(k.path, m.path), k.fault = "unlisted"
               PROVE  FALSE
    OBVIOUS
  <2>1. k.path \in Seq(Range(k.path))
    BY <1>3 DEF IsFileTree, IsPath
  <2>2. IsWithin(m.path, k.path)
    BY <1>4, <2>1, FoldedPrefix DEF IsWithin
  <2> QED BY <2>2 DEF Unlisted
<1> HIDE DEF s, t, from, to, b, by
<1>9. t.file_empty_directories # None
  BY <1>1 DEF ListsLeft
<1>10. PICK path : EmptyIn(t, path) /\ IsPrefix(path, m.path)
  <2>1. m \in to.listed /\ StandsEmpty(to.listed, m.path)
    BY DEF to
  <2>2. \A k \in to.listed : IsPrefix(m.path, k.path) => ~IsExcludedPath(to.build.policy, k.path)
    BY DEF to
  <2>3. \/ \E path : EmptyIn(t, path) /\ IsPrefix(path, m.path)
        \/ \E k \in to.listed : k.fault = "unlisted" /\ IsWithin(m.path, k.path)
        \/ DenialOfFile(t, m.path)
    BY <1>1, <1>5, <1>9, <2>1, <2>2, StandingEmptyIsListed
  <2> QED BY <1>6, <1>7, <2>3
<1>11. IsPath(path) /\ path # <<>> /\ path \in Seq(Range(path))
  BY <1>1, <1>10, BelowAnEmptyOne DEF IsPath
<1>12. ~EmptyIn(s, path)
  <2> SUFFICES ASSUME EmptyIn(s, path) PROVE FALSE
    OBVIOUS
  <2>1. o.path # <<>>
    <3>1. m.path # <<>>
      BY <1>4, <1>10, <1>11, BelowSomething
    <3> QED BY <3>1, NothingIsShort
  <2>2. /\ IsPrefix(m.path, o.path)
        /\ \A q : q \in Seq(Range(q)) /\ IsPrefix(q, o.path) /\ q # o.path => IsPrefix(q, m.path)
    BY <1>4, <2>1, ParentIs
  <2>3. IsPrefix(path, o.path)
    BY <1>4, <1>10, <1>11, <2>2, PrefixOfPrefix
  <2>4. o \in from.listed /\ ~WalkLists(o)
    BY DEF from, WalkLists
  <2>5. PICK k \in from.listed : k.fault = "unlisted" /\ IsPrefix(k.path, o.path)
    BY <1>1, <2>3, <2>4, BelowAnEmptyOne
  <2>6. k.path # o.path /\ k.path \in Seq(Range(k.path))
    BY <1>3, <2>4, <2>5 DEF IsFileTree, IsPath
  <2>7. IsPrefix(k.path, m.path)
    BY <2>2, <2>5, <2>6
  <2> QED BY <1>8, <2>5, <2>7
<1>13. IsPrefix(Folded(path), Folded(m.path))
  BY <1>4, <1>10, <1>11, FoldedPrefix
<1>14. ~IsExcludedPath(b.policy, path) /\ ~IsExcludedPath(by.policy, path)
  BY <1>2, <1>4, <1>11, <1>13, ExcludedBelow DEF b, by
<1>15. path \in ListOf(e, way)[1]
  BY <1>1, <1>10, <1>12, <1>14 DEF ListsLeft
<1> QED BY <1>10, <1>15

(* A directory is reported as emptied only if nothing but directories is    *)
(* left in it, and one that lost its files and still stands is reported,    *)
(* itself or by one above it, unless something on the way to it or below it *)
(* was not looked at.  This holds of every machine and policy, of whatever  *)
(* the collectors run into and whatever changes while they read (walk,      *)
(* file_empty_roots, emptied_directories, refilter).                        *)
THEOREM EmptiedIsWhatIsLeft == Spec => []WhatIsLeftStanding
<1>1. Held /\ ShowInv => WhatIsLeftStanding
  <2> SUFFICES
        ASSUME Held, ShowInv,
               NEW n \in Judged, NEW way \in Ways(diffs[n]), ListOf(diffs[n], way) # None
        PROVE  /\ \A path \in ListOf(diffs[n], way)[1] :
                    \/ StandsEmpty(seen[way.to].listed, path)
                    \/ \E m \in seen[way.to].listed : m.fault = "unlisted" /\ IsPrefix(path, m.path)
               /\ \A m \in seen[way.to].listed :
                    /\ /\ \E o \in seen[way.from].listed :
                            o.kind = "file" /\ o.fault = "none" /\ Parent(o.path) = m.path
                       /\ WalksPath(way.to, m.path) /\ ~Unread(diffs[n].diff, "filesystem", m.path, "")
                       /\ ~Unlisted(way.from, m.path) /\ ~Unlisted(way.to, m.path)
                       /\ ~HiddenPath(diffs[n], m.path)
                    /\ StandsEmpty(seen[way.to].listed, m.path)
                    /\ \A k \in seen[way.to].listed : IsPrefix(m.path, k.path) =>
                         ~IsExcludedPath(seen[way.to].build.policy, k.path)
                    => \E path \in ListOf(diffs[n], way)[1] : IsPrefix(path, m.path)
    BY ZenonT(60) DEF WhatIsLeftStanding, ListOf
  <2> DEFINE e == diffs[n]
  <2> HIDE DEF e
  <2>1. e = diffs[n]
    BY DEF e
  <2>2. n \in DOMAIN diffs
    BY DEF Judged
  <2>3. way \in Ways(e) /\ ListOf(e, way) # None
    BY <2>1
  <2>4. ASSUME NEW path \in ListOf(e, way)[1]
        PROVE  \/ StandsEmpty(seen[way.to].listed, path)
               \/ \E m \in seen[way.to].listed : m.fault = "unlisted" /\ IsPrefix(path, m.path)
    BY <2>1, <2>2, <2>3, EmptiedStandsEmpty
  <2>5. ASSUME NEW m \in seen[way.to].listed,
               NEW o \in seen[way.from].listed,
               o.kind = "file", o.fault = "none", Parent(o.path) = m.path,
               WalksPath(way.to, m.path), ~Unread(e.diff, "filesystem", m.path, ""),
               ~Unlisted(way.from, m.path), ~Unlisted(way.to, m.path),
               ~HiddenPath(e, m.path),
               StandsEmpty(seen[way.to].listed, m.path),
               \A k \in seen[way.to].listed : IsPrefix(m.path, k.path) =>
                 ~IsExcludedPath(seen[way.to].build.policy, k.path)
        PROVE  \E path \in ListOf(e, way)[1] : IsPrefix(path, m.path)
    <3>1. ~IsExcludedPath(e.run.build.policy, m.path) /\ ~IsExcludedPath(e.by.policy, m.path)
      BY <2>5 DEF HiddenPath
    <3> QED BY <2>1, <2>2, <2>3, <2>5, <3>1, LostIsListed
  <2> QED BY <2>1, <2>4, <2>5
<1> QED BY <1>1, AlwaysHeld, AlwaysShown, PTL

-------------------------------------------------------------------------------
(* A file that is new.                                                      *)

(* A record only one side has of its path is an addition or a removal.      *)
Lacks(records, path) == \A r \in records : Folded(r.path) # path
Admits(policy, records, path) ==
  \E r \in records : Folded(r.path) = path /\ ~IsExcludedPath(policy, r.path)
ToldAs(differences, path, kind) == \E c \in differences : c.identity = path /\ KindOf(c) = kind

LEMMA FileOfOneSideIsTold ==
  ASSUME NEW policy, NEW before, NEW after, NEW path
  PROVE  /\ Lacks(before, path) /\ Admits(policy, after, path) =>
              ToldAs(CompareFiles(policy, before, after), path, "added")
         /\ Lacks(after, path) /\ Admits(policy, before, path) =>
              ToldAs(CompareFiles(policy, before, after), path, "removed")
<1> DEFINE Kept(side) == {f \in side : ~IsExcludedPath(policy, f.path)}
           Of(side) == [r \in Kept(side) |-> Folded(r.path)]
           was == IndexBy(Of(before))
           is == IndexBy(Of(after))
<1>1. ASSUME NEW side PROVE path \in DOMAIN IndexBy(Of(side)) <=>
                              \E r \in side : Folded(r.path) = path /\ ~IsExcludedPath(policy, r.path)
  <2>1. DOMAIN IndexBy(Of(side)) = Range(Of(side))
    BY DEF IndexBy
  <2> QED BY <2>1 DEF Range
<1>2. path \in DOMAIN was <=> \E r \in before : Folded(r.path) = path /\ ~IsExcludedPath(policy, r.path)
  BY <1>1
<1>3. path \in DOMAIN is <=> \E r \in after : Folded(r.path) = path /\ ~IsExcludedPath(policy, r.path)
  BY <1>1
<1>4. \A c : c \in CompareFiles(policy, before, after) <=>
        /\ c \in ChangesBetween(was, is)
        /\ KindOf(c) = "modified" => FileFields(c.before[1], c.after[1]) # {}
  BY DEF CompareFiles
<1> HIDE DEF was, is
<1>5. ASSUME path \in DOMAIN is, path \notin DOMAIN was
      PROVE  \E c \in CompareFiles(policy, before, after) : c.identity = path /\ KindOf(c) = "added"
  <2> DEFINE c == [identity |-> path, before |-> None, after |-> Some(is[path])]
  <2>1. c.identity = path /\ KindOf(c) = "added"
    BY DEF KindOf
  <2>2. c \in ChangesBetween(was, is)
    BY <1>5 DEF ChangesBetween
  <2> HIDE DEF c
  <2>3. c \in CompareFiles(policy, before, after)
    BY <1>4, <2>1, <2>2
  <2> QED BY <2>1, <2>3
<1>6. ASSUME path \in DOMAIN was, path \notin DOMAIN is
      PROVE  \E c \in CompareFiles(policy, before, after) : c.identity = path /\ KindOf(c) = "removed"
  <2> DEFINE c == [identity |-> path, before |-> Some(was[path]), after |-> None]
  <2>1. c.identity = path /\ KindOf(c) = "removed"
    BY SomeIsNotNone DEF KindOf
  <2>2. c \in ChangesBetween(was, is)
    BY <1>6 DEF ChangesBetween
  <2> HIDE DEF c
  <2>3. c \in CompareFiles(policy, before, after)
    BY <1>4, <2>1, <2>2
  <2> QED BY <2>1, <2>3
<1> QED BY <1>2, <1>3, <1>5, <1>6 DEF Lacks, Admits, ToldAs

(* What a diff compares, it was asked to; and of what it compared, the      *)
(* refilter leaves what its policy does not exclude.                        *)
LEMMA MadeTellsFiles ==
  ASSUME NEW b, NEW f, NEW x, NEW y, NEW by, NEW told, MadeOf(b, f, x, y, by, told),
         NEW both, both = CoverageOfBoth(x.coverage, y.coverage)
  PROVE  /\ told.coverage.captured = both.captured
         /\ \A c \in ToldFiles(b.policy, both, x, y) :
              c \in FilesTold(told) \/ IsExcludedPath(by.policy, Later(c).path)
<1> DEFINE d == Compare(b, f, x, y)
<1>1. DOMAIN d = DiffFields
  BY CompareIsADiff
<1>2. d.coverage = WithoutExcludedDenials(b.policy, both)
  BY CompareLists
<1>3. IsCoverage(both)
  BY DEF IsCoverage, CoverageOfBoth
<1>4. FilesTold(d) = ToldFiles(b.policy, both, x, y)
  <2> HIDE DEF d
  <2>1. d = Compare(b, f, x, y)
    BY DEF d
  <2>2. /\ d.files = {c \in ToldFiles(b.policy, both, x, y) : ~FileRuleFor(f, c)}
        /\ d.suppressed_files = {c \in ToldFiles(b.policy, both, x, y) : FileRuleFor(f, c)}
    BY <2>1, CompareParts
  <2> QED BY <2>2 DEF FilesTold
<1> HIDE DEF d
<1>5. IsCoverage(d.coverage) /\ d.coverage.captured = both.captured
  BY <1>2, <1>3, DenialsOfADiff
<1>6. CASE told = d
  BY <1>4, <1>5, <1>6
<1>7. CASE told = Refilter(by.policy, d)
  <2>1. /\ told.coverage = WithoutExcludedDenials(by.policy, d.coverage)
        /\ told.files = {c \in d.files : ~IsExcludedPath(by.policy, Later(c).path)}
        /\ told.suppressed_files = {c \in d.suppressed_files : ~IsExcludedPath(by.policy, Later(c).path)}
    BY <1>1, <1>7, RefilterTells
  <2>2. told.coverage.captured = d.coverage.captured
    BY <1>5, <2>1, DenialsOfADiff
  <2>3. \A c \in FilesTold(d) : c \in FilesTold(told) \/ IsExcludedPath(by.policy, Later(c).path)
    BY <2>1 DEF FilesTold
  <2> QED BY <1>4, <1>5, <2>2, <2>3
<1> QED BY <1>6, <1>7 DEF MadeOf, d

LEMMA NewFilesAreAllTold ==
  ASSUME Held, ShowInv, NEW n \in DOMAIN diffs, NEW e, e = diffs[n], NEW way \in Ways(e),
         Compared(e, "filesystem")
  PROVE  NewFilesTold(e, way)
<1> DEFINE x == snapshots[e.run.before]
           y == snapshots[e.run.after]
           s == snapshots[way.from]
           t == snapshots[way.to]
           from == seen[way.from]
           to == seen[way.to]
           b == e.run.build
           by == e.by
           both == CoverageOfBoth(x.coverage, y.coverage)
<1>1. MadeOf(b, e.run.filter, x, y, by, e.diff)
  BY DiffIsMade
<1>2. /\ Shows(s, from) /\ Shows(t, to)
      /\ \/ way.kind = "added" /\ s = x /\ t = y
         \/ way.kind = "removed" /\ s = y /\ t = x
  BY WaysAre
<1> SUFFICES ASSUME NEW m \in to.listed, m.kind = "file",
                    ~HasFile(from.listed, Folded(m.path)),
                    ~Unread(e.diff, "filesystem", Folded(m.path), ""),
                    ~Unlisted(way.to, Folded(m.path)), WalksPath(way.to, Folded(m.path)),
                    ~HiddenPath(e, Folded(m.path))
             PROVE  \E c \in FilesTold(e.diff) : c.identity = Folded(m.path) /\ KindOf(c) = way.kind
  BY DEF NewFilesTold, OfKind
<1> DEFINE path == Folded(m.path)
<1>3. ~IsExcludedPath(b.policy, path) /\ ~IsExcludedPath(by.policy, path)
  BY DEF HiddenPath
<1>4. IsPath(m.path) /\ HasFile(to.listed, path)
  <2>1. IsFileTree(to.listed)
    BY <1>2, NodesOfMachines DEF Shows
  <2> QED BY <2>1 DEF IsFileTree, HasFile
<1>5. IsPath(path) /\ Folded(path) = path
  BY <1>4, WithinItsSpelling DEF IsPath
<1>6. PICK root \in t.filesystem_policy[1].roots : IsWithin(path, root)
  BY DEF WalksPath
<1>7. ~IsExcludedPath(to.build.policy, path)
  BY DEF WalksPath
<1>8. ~\E k \in to.listed : k.fault = "unlisted" /\ IsWithin(path, k.path)
  BY DEF Unlisted
<1>9. ~HasFile(from.listed, path)
  OBVIOUS
<1> HIDE DEF path
<1>10. ~DenialOfFile(t, path)
  BY <1>3, <1>5, FileDenialStays DEF path
<1> HIDE DEF x, y, s, t, from, to, b, by
<1>11. /\ e.diff.coverage.captured = both.captured
       /\ \A c \in ToldFiles(b.policy, both, x, y) :
            c \in FilesTold(e.diff) \/ IsExcludedPath(by.policy, Later(c).path)
  BY <1>1, MadeTellsFiles
<1>12. Covers(both, "filesystem") /\ "filesystem" \in x.coverage.captured \cap y.coverage.captured
  BY <1>11 DEF Compared, Covers, CoverageOfBoth
<1>13. "filesystem" \in from.build.domains /\ "filesystem" \in to.build.domains
  BY <1>2, <1>12 DEF Shows
<1>14. PICK r \in t.files : Folded(r.path) = path
  BY <1>2, <1>4, <1>6, <1>7, <1>8, <1>10, <1>13, FileSeen
<1>15. ~IsExcludedPath(b.policy, r.path)
  BY <1>3, <1>5, <1>14, FoldedDecides
<1>16. \A q \in s.files : Folded(q.path) # path
  BY <1>2, <1>9, <1>13, FileRecorded
<1>17. PICK c \in CompareFiles(b.policy, x.files, y.files) : c.identity = path /\ KindOf(c) = way.kind
  <2>1. Lacks(s.files, path) /\ Admits(b.policy, t.files, path)
    BY <1>14, <1>15, <1>16 DEF Lacks, Admits
  <2>2. ToldAs(CompareFiles(b.policy, x.files, y.files), path, way.kind)
    <3>1. CASE way.kind = "added" /\ s = x /\ t = y
      BY <2>1, <3>1, FileOfOneSideIsTold
    <3>2. CASE way.kind = "removed" /\ s = y /\ t = x
      BY <2>1, <3>2, FileOfOneSideIsTold
    <3> QED BY <1>2, <3>1, <3>2
  <2> QED BY <2>2 DEF ToldAs
<1>18. c \in ToldFiles(b.policy, both, x, y)
  BY <1>12, <1>17 DEF ToldFiles
<1>19. Folded(Later(c).path) = path
  <2>1. FileChange(c)
    BY <1>17, ComparedFiles
  <2>2. CASE c.after # None
    <3>1. c.after = Some(c.after[1]) /\ Folded(c.after[1].path) = c.identity
      BY <2>1, <2>2 DEF FileChange, FileSide
    <3> QED BY <1>17, <2>2, <3>1 DEF Later
  <2>3. CASE c.after = None
    <3>1. c.before = Some(c.before[1]) /\ Folded(c.before[1].path) = c.identity
      BY <2>1, <2>3 DEF FileChange, FileSide
    <3> QED BY <1>17, <2>3, <3>1 DEF Later
  <2> QED BY <2>2, <2>3
<1>20. ~IsExcludedPath(by.policy, Later(c).path)
  BY <1>3, <1>5, <1>19, FoldedDecides
<1> QED BY <1>11, <1>17, <1>18, <1>20 DEF path

(* No file that is new on the machine is lost: the diff tells it, or says   *)
(* that it was not read or was outside of what the later snapshot walks, or *)
(* a policy refuses its path, or its own directory could not list it (walk, *)
(* compare, refilter).                                                      *)
NewFilesAreTold ==
  \A n \in Judged : \A way \in Ways(diffs[n]) :
    Compared(diffs[n], "filesystem") => NewFilesTold(diffs[n], way)

THEOREM NoNewFileIsLost == Spec => []NewFilesAreTold
<1>1. Held /\ ShowInv => NewFilesAreTold
  <2> SUFFICES ASSUME Held, ShowInv, NEW n \in Judged, NEW way \in Ways(diffs[n]),
                      NEW e, e = diffs[n], Compared(e, "filesystem")
               PROVE  NewFilesTold(e, way)
    BY DEF NewFilesAreTold
  <2>1. n \in DOMAIN diffs
    BY DEF Judged
  <2> QED BY <2>1, NewFilesAreAllTold
<1> QED BY <1>1, AlwaysHeld, AlwaysShown, PTL

===============================================================================
