---------------------------- MODULE SafetyGateProofs ----------------------------
(***************************************************************************)
(* Theorems of the safety gate (SafetyGate), for every set of words paths  *)
(* and keys may be made of, every 8.3 alias on the machine and every       *)
(* catalog entry that asks.                                                *)
(***************************************************************************)
EXTENDS SafetyGate, DenyListTables

(* A key has its hive once the conversion is past it, and a path has none.  *)
HiveIsKnown ==
  /\ pc \in {"subkeys", "key"} => hive \in Hives
  /\ pc \in {"root", "components", "path"} => hive = "none"

AnsweredOnce == pc # "answered" => verdict = "none"

(* Component for component, a path names what Win32 passes and opens, or    *)
(* Win32 has a name of its own there; unless it may hold an alias.          *)
NamesOrOwn(names) ==
  /\ Len(names) = Len(path.components)
  /\ source = "handle" \/ ~path.shortName =>
       \A i \in 1..Len(path.components) : names[i] \in {path.components[i], OtherName}

Spelled == NamesOrOwn(opens) /\ NamesOrOwn(passes)

(* From a handle an alias is never flagged any more, once the path is       *)
(* built; what passes was judged by the deny-list.                          *)
Judged ==
  pc = "answered" /\ verdict = "Ok" =>
    IF hive = "none"
    THEN ~path.shortName /\ EvaluateLocation(path.components, Exceptions) = "Ok"
    ELSE hive \in Hives /\ EvaluateRegistryKey(hive, subkeys, Exceptions) = "Ok"

IInv ==
  /\ TypeOK
  /\ HiveIsKnown
  /\ AnsweredOnce
  /\ Spelled
  /\ Judged

-------------------------------------------------------------------------------
(* Operators *)

LEMMA EmptyIsASeq == ASSUME NEW S PROVE <<>> \in Seq(S) /\ Len(<<>>) = 0
OBVIOUS

(* What a sequence is without its last element.                             *)
LEMMA PrefixProperties ==
  ASSUME NEW S, NEW s, NEW n \in Nat, n >= 1, \A i \in 1..(n - 1) : s[i] \in S
  PROVE  /\ SubSeq(s, 1, n - 1) \in Seq(S)
         /\ Len(SubSeq(s, 1, n - 1)) = n - 1
         /\ \A i \in 1..(n - 1) : SubSeq(s, 1, n - 1)[i] = s[i]
<1>1. /\ SubSeq(s, 1, n - 1) \in Seq(S)
      /\ Len(SubSeq(s, 1, n - 1)) = IF 1 <= n - 1 THEN n - 1 - 1 + 1 ELSE 0
      /\ \A i \in 1..(n - 1 - 1 + 1) : SubSeq(s, 1, n - 1)[i] = s[1 + i - 1]
  BY SubSeqProperties
<1>2. n - 1 - 1 + 1 = n - 1 /\ \A i \in 1..(n - 1) : 1 + i - 1 = i
  OBVIOUS
<1>3. Len(SubSeq(s, 1, n - 1)) = n - 1
  BY <1>1
<1>4. \A i \in 1..(n - 1) : SubSeq(s, 1, n - 1)[i] = s[i]
  BY <1>1, <1>2
<1>. QED  BY <1>1, <1>3, <1>4

(* `..` takes the last component away and leaves the others (paths.rs,      *)
(* normalise_components).                                                   *)
LEMMA PopProperties ==
  ASSUME NEW S, NEW s \in Seq(S), s # <<>>
  PROVE  /\ Pop(s) \in Seq(S)
         /\ Len(Pop(s)) = Len(s) - 1
         /\ \A i \in 1..(Len(s) - 1) : Pop(s)[i] = s[i]
<1>. DEFINE n == Len(s)
<1>1. n \in Nat /\ n >= 1
  OBVIOUS
<1>2. \A i \in 1..(n - 1) : s[i] \in S
  BY <1>1, ElementOfSeq
<1>3. /\ SubSeq(s, 1, n - 1) \in Seq(S)
      /\ Len(SubSeq(s, 1, n - 1)) = n - 1
      /\ \A i \in 1..(n - 1) : SubSeq(s, 1, n - 1)[i] = s[i]
  <2>. HIDE DEF n
  <2>. QED  BY <1>1, <1>2, PrefixProperties
<1>. QED  BY <1>3, Zenon DEF Pop

(* What Win32 makes of a component is its word or a name of its own, unless *)
(* an alias is expanded, and then the path is flagged.                      *)
LEMMA NamesOfAComponent ==
  ASSUME NEW raw \in RawComponents, source \in {"text", "handle"}
  PROVE  /\ raw.word \in Words
         /\ NameInside(raw) \in Opened /\ NameAtEnd(raw) \in Opened
         /\ source = "handle" \/ raw.word \notin ShortNames =>
              /\ NameInside(raw) \in {raw.word, OtherName}
              /\ NameAtEnd(raw) \in {raw.word, OtherName}
<1>1. DOMAIN LongName \subseteq ShortNames
  BY SafetyGateAssumption DEF SafetyGateAssumption
<1>. QED  BY <1>1 DEF NameInside, NameAtEnd, LongNameOf, Words, Opened

-------------------------------------------------------------------------------
(* The gate starts in the invariant, with a text, a handle's path or a key. *)
LEMMA InitIInv == Init => IInv
<1>. SUFFICES ASSUME Init PROVE IInv
  OBVIOUS
<1>1. \A S : <<>> \in Seq(S) /\ Len(<<>>) = 0
  BY EmptyIsASeq
<1>2. MaxComponents \in Nat /\ MaxSubkeys \in Nat
  BY SafetyGateAssumption DEF SafetyGateAssumption
<1>3. TypeOK
  BY <1>1, <1>2 DEF Init, TypeOK, PathKind
<1>4. HiveIsKnown /\ AnsweredOnce /\ Judged
  BY DEF Init, HiveIsKnown, AnsweredOnce, Judged
<1>5. Spelled
  BY <1>1 DEF Init, Spelled, NamesOrOwn
<1>. QED  BY <1>3, <1>4, <1>5 DEF IInv

(* An answer leaves all but pc and verdict alone: it keeps the invariant if *)
(* it is a verdict, and "Ok" only from the deny-list.                       *)
Verdict == {"none", "Ok", "Panic"} \cup PathError \cup RegKeyError \cup DenyReason

(* An answer leaves the path and the key as they are: what is to be shown   *)
(* of it is what it says of them if it is "Ok".                             *)
LEMMA AnswerKeepsIInv ==
  ASSUME IInv, NEW v \in Verdict, Answer(v),
         v = "Ok" =>
           IF hive = "none"
           THEN ~path.shortName /\ EvaluateLocation(path.components, Exceptions) = "Ok"
           ELSE hive \in Hives /\ EvaluateRegistryKey(hive, subkeys, Exceptions) = "Ok"
  PROVE  IInv'
<1>1. TypeOK'
  BY DEF IInv, TypeOK, Answer, Verdict, key, win32
<1>2. HiveIsKnown' /\ AnsweredOnce'
  BY DEF Answer, HiveIsKnown, AnsweredOnce
<1>3. Spelled'
  BY DEF IInv, Answer, Spelled, NamesOrOwn, win32
<1>4. Judged'
  BY DEF Answer, Judged, key, Exceptions
<1>. QED  BY <1>1, <1>2, <1>3, <1>4 DEF IInv

(* Every spelling of a root is of one kind, or is refused (split_root).     *)
LEMMA RootsAreKnown == \A form \in RootForm : form.is \in PathKind \cup PathError
<1>1. \A form \in AcceptedRoot : form.is \in PathKind
  BY DEF AcceptedRoot, PathKind
<1>2. \A form \in RefusedRoot : form.is \in PathError
  <2>1. \A form \in RefusedRoot : form.is \in {"MalformedUnc", "NotAbsolute", "EmbeddedNul", "Empty"}
    BY DEF RefusedRoot
  <2>. QED  BY <2>1 DEF PathError
<1>. QED  BY <1>1, <1>2 DEF RootForm

(* A root's kind becomes the path's, or its error the answer (split_root).  *)
LEMMA SplitRootStep ==
  ASSUME IInv, NEW form \in RootForm, NEW inside, SplitRoot(form, inside)
  PROVE  IInv'
<1>1. CASE Answer("Panic")
  BY <1>1, AnswerKeepsIInv DEF Verdict
<1>2. CASE form.is \in PathError /\ Answer(form.is)
  BY <1>2, AnswerKeepsIInv DEF Verdict, PathError
<1>3. CASE /\ form.is \notin PathError
           /\ pc' = "components"
           /\ path' = [path EXCEPT !.kind = form.is]
           /\ UNCHANGED <<source, key, verdict, win32>>
  <2>1. form.is \in PathKind
    BY <1>3, RootsAreKnown
  <2>2. TypeOK'
    BY <1>3, <2>1 DEF IInv, TypeOK, key, win32
  <2>3. HiveIsKnown' /\ AnsweredOnce' /\ Judged'
    BY <1>3 DEF IInv, SplitRoot, HiveIsKnown, AnsweredOnce, Judged, key
  <2>4. path'.components = path.components /\ path'.shortName = path.shortName
    BY <1>3 DEF IInv, TypeOK
  <2>5. Spelled'
    BY <1>3, <2>4 DEF IInv, Spelled, NamesOrOwn, win32
  <2>. QED  BY <2>2, <2>3, <2>5 DEF IInv
<1>. QED  BY <1>1, <1>2, <1>3 DEF SplitRoot

(* A component that is passed over leaves Win32 where it was.               *)
LEMMA SkipStep ==
  ASSUME IInv, Skip
  PROVE  IInv'
<1>1. TypeOK' /\ HiveIsKnown' /\ AnsweredOnce' /\ Judged'
  BY DEF IInv, Skip, TypeOK, HiveIsKnown, AnsweredOnce, Judged, key, Exceptions
<1>2. Spelled'
  BY DEF IInv, Skip, Spelled, NamesOrOwn
<1>. QED  BY <1>1, <1>2 DEF IInv

(* `..` takes the last name off what is built and off what Win32 opens, and *)
(* off an empty path is refused (normalise_components).                     *)
LEMMA ParentStep ==
  ASSUME IInv, Parent
  PROVE  IInv'
<1>1. CASE path.components = <<>>
  BY <1>1, AnswerKeepsIInv DEF Parent, Verdict, PathError
<1>2. CASE path.components # <<>>
  <2>1. /\ path' = [path EXCEPT !.components = Pop(@)]
        /\ passes' = Pop(passes) /\ opens' = Pop(passes)
        /\ pc = "components"
        /\ UNCHANGED <<pc, source, key, verdict>>
    BY <1>2 DEF Parent
  <2>2. /\ path.components \in Seq(Words) /\ passes \in Seq(Opened)
        /\ Len(passes) = Len(path.components)
    BY DEF IInv, TypeOK, Spelled, NamesOrOwn
  <2>3. passes # <<>>
    BY <1>2, <2>2
  <2>4. /\ Pop(path.components) \in Seq(Words)
        /\ Len(Pop(path.components)) = Len(path.components) - 1
        /\ \A i \in 1..(Len(path.components) - 1) : Pop(path.components)[i] = path.components[i]
    BY <1>2, <2>2, PopProperties
  <2>5. /\ Pop(passes) \in Seq(Opened)
        /\ Len(Pop(passes)) = Len(path.components) - 1
        /\ \A i \in 1..(Len(path.components) - 1) : Pop(passes)[i] = passes[i]
    BY <2>2, <2>3, PopProperties
  <2>6. /\ path'.components = Pop(path.components) /\ path'.shortName = path.shortName
        /\ path' \in [kind : PathKind, components : Seq(Words), shortName : BOOLEAN,
                       resolvedViaHandle : BOOLEAN]
    BY <2>1, <2>4 DEF IInv, TypeOK
  <2>7. TypeOK'
    <3>1. Len(path'.components) <= MaxComponents
      <4>1. Len(path.components) <= MaxComponents
        BY Zenon DEF IInv, TypeOK
      <4>2. MaxComponents \in Nat
        BY SafetyGateAssumption DEF SafetyGateAssumption
      <4>3. Len(path.components) \in Nat
        BY <2>2, LenProperties
      <4>. QED  BY <2>4, <2>6, <4>1, <4>2, <4>3
    <3>2. UNCHANGED <<pc, source, hive, subkeys, verdict>>
      BY <2>1 DEF key
    <3>. QED  BY <2>1, <2>5, <2>6, <3>1, <3>2 DEF IInv, TypeOK
  <2>8. HiveIsKnown' /\ AnsweredOnce' /\ Judged'
    BY <2>1 DEF IInv, HiveIsKnown, AnsweredOnce, Judged, key
  <2>9. Spelled'
    BY <2>1, <2>2, <2>4, <2>5, <2>6 DEF IInv, Spelled, NamesOrOwn
  <2>. QED  BY <2>7, <2>8, <2>9 DEF IInv
<1>. QED  BY <1>1, <1>2

(* A component that is no name is refused before anything is kept of it.    *)
LEMMA NameStep ==
  ASSUME IInv, NEW raw \in RawComponents, Name(raw)
  PROVE  IInv'
<1>1. CASE RefusesStream(raw)
  BY <1>1, AnswerKeepsIInv DEF Name, Verdict, PathError
<1>2. CASE ~RefusesStream(raw)
  <2>. DEFINE n == Len(path.components)
  <2>1. /\ n < MaxComponents
        /\ path' = Kept(path, raw)
        /\ passes' = Append(passes, NameInside(raw))
        /\ opens' = Append(passes, NameAtEnd(raw))
        /\ pc = "components"
        /\ UNCHANGED <<pc, source, key, verdict>>
    BY <1>2 DEF Name
  <2>2. /\ path.components \in Seq(Words) /\ passes \in Seq(Opened) /\ Len(passes) = n
        /\ source \in {"text", "handle"}
    BY DEF IInv, TypeOK, Spelled, NamesOrOwn
  <2>3. n \in Nat
    BY <2>2, LenProperties
  <2>4. /\ raw.word \in Words
        /\ NameInside(raw) \in Opened /\ NameAtEnd(raw) \in Opened
        /\ source = "handle" \/ raw.word \notin ShortNames =>
             /\ NameInside(raw) \in {raw.word, OtherName}
             /\ NameAtEnd(raw) \in {raw.word, OtherName}
    BY <2>2, NamesOfAComponent
  <2>5. /\ path'.components = Append(path.components, raw.word)
        /\ path'.shortName = (path.shortName \/ raw.word \in ShortNames)
        /\ path' \in [kind : PathKind, components : Seq(Words), shortName : BOOLEAN,
                       resolvedViaHandle : BOOLEAN]
    <3>1. Append(path.components, raw.word) \in Seq(Words)
      BY <2>2, <2>4, AppendProperties
    <3>2. path \in [kind : PathKind, components : Seq(Words), shortName : BOOLEAN,
                    resolvedViaHandle : BOOLEAN]
      BY DEF IInv, TypeOK
    <3>3. path' = [path EXCEPT !.components = Append(path.components, raw.word),
                               !.shortName = path.shortName \/ raw.word \in ShortNames]
      BY <2>1 DEF Kept
    <3>4. path'.components = Append(path.components, raw.word)
      BY <3>2, <3>3
    <3>5. path'.shortName = (path.shortName \/ raw.word \in ShortNames)
      BY <3>2, <3>3
    <3>6. path' \in [kind : PathKind, components : Seq(Words), shortName : BOOLEAN,
                     resolvedViaHandle : BOOLEAN]
      BY <3>1, <3>2, <3>3
    <3>. QED  BY <3>4, <3>5, <3>6
  <2>6. /\ Len(path'.components) = n + 1
        /\ \A i \in 1..n : path'.components[i] = path.components[i]
        /\ path'.components[n + 1] = raw.word
    BY <2>2, <2>4, <2>5, AppendProperties
  <2>7. ASSUME NEW name \in Opened, NEW names, names = Append(passes, name),
               source = "handle" \/ raw.word \notin ShortNames => name \in {raw.word, OtherName}
        PROVE  /\ names \in Seq(Opened) /\ Len(names) = n + 1
               /\ source = "handle" \/ ~path'.shortName =>
                    \A i \in 1..(n + 1) : names[i] \in {path'.components[i], OtherName}
    <3>1. /\ names \in Seq(Opened) /\ Len(names) = n + 1
          /\ \A i \in 1..n : names[i] = passes[i]
          /\ names[n + 1] = name
      BY <2>2, <2>7, AppendProperties
    <3>2. ASSUME source = "handle" \/ ~path'.shortName, NEW i \in 1..(n + 1)
          PROVE  names[i] \in {path'.components[i], OtherName}
      <4>1. source = "handle" \/ ~path.shortName
        BY <2>5, <3>2
      <4>2. CASE i \in 1..n
        BY <2>6, <3>1, <4>1, <4>2 DEF IInv, Spelled, NamesOrOwn
      <4>3. CASE i = n + 1
        BY <2>5, <2>6, <2>7, <3>1, <3>2, <4>3
      <4>. QED  BY <2>3, <4>2, <4>3
    <3>. QED  BY <3>1, <3>2
  <2>8. /\ opens' \in Seq(Opened) /\ passes' \in Seq(Opened)
        /\ Spelled'
    BY <2>1, <2>4, <2>6, <2>7 DEF Spelled, NamesOrOwn
  <2>9. TypeOK'
    <3>1. Len(path'.components) <= MaxComponents
      <4>1. MaxComponents \in Nat
        BY SafetyGateAssumption DEF SafetyGateAssumption
      <4>. QED  BY <2>1, <2>3, <2>6, <4>1
    <3>2. UNCHANGED <<pc, source, hive, subkeys, verdict>>
      BY <2>1 DEF key
    <3>. QED  BY <2>5, <2>8, <3>1, <3>2 DEF IInv, TypeOK
  <2>10. HiveIsKnown' /\ AnsweredOnce' /\ Judged'
    BY <2>1 DEF IInv, HiveIsKnown, AnsweredOnce, Judged, key
  <2>. QED  BY <2>8, <2>9, <2>10 DEF IInv
<1>. QED  BY <1>1, <1>2

(* The end of a path only says how it was resolved (canonicalise_resolved). *)
LEMMA EndOfPathStep ==
  ASSUME IInv, EndOfPath
  PROVE  IInv'
<1>1. /\ path'.components = path.components
      /\ source = "text" => path'.shortName = path.shortName
      /\ path' \in [kind : PathKind, components : Seq(Words), shortName : BOOLEAN,
                     resolvedViaHandle : BOOLEAN]
      /\ source \in {"text", "handle"}
  BY DEF IInv, TypeOK, EndOfPath
<1>2. /\ pc = "components" /\ pc' = "path"
      /\ UNCHANGED <<source, hive, subkeys, verdict, opens, passes>>
  BY DEF EndOfPath, key, win32
<1>3. TypeOK'
  BY <1>1, <1>2 DEF IInv, TypeOK
<1>4. HiveIsKnown' /\ AnsweredOnce' /\ Judged'
  BY <1>2 DEF IInv, HiveIsKnown, AnsweredOnce, Judged
<1>5. Spelled'
  BY <1>1, <1>2 DEF IInv, Spelled, NamesOrOwn
<1>. QED  BY <1>3, <1>4, <1>5 DEF IInv

(* What the deny-list passes is judged with the exceptions of the entry and *)
(* holds no alias (check_path).                                             *)
LEMMA CheckPathStep ==
  ASSUME IInv, NEW stage \in Stage, CheckPath(stage)
  PROVE  IInv'
<1>1. EvaluatePath(path, Exceptions, stage) \in Verdict
  BY PathVerdict DEF Verdict
<1>2. hive = "none"
  BY DEF IInv, HiveIsKnown, CheckPath
<1>3. EvaluatePath(path, Exceptions, stage) = "Ok" =>
        ~path.shortName /\ EvaluateLocation(path.components, Exceptions) = "Ok"
  BY AllowedPath
<1>. QED  BY <1>1, <1>2, <1>3, AnswerKeepsIInv DEF CheckPath

-------------------------------------------------------------------------------
(* Keys *)

(* The conversion answers "Empty" or "UnknownHive" before it has a hive.    *)
LEMMA RefuseKeyStep ==
  ASSUME IInv, NEW error \in RegKeyError, RefuseKey(error)
  PROVE  IInv'
BY AnswerKeepsIInv DEF RefuseKey, Verdict, RegKeyError

(* The hive is named before any component of the key (canonicalise_reg_key).*)
LEMMA NameHiveStep ==
  ASSUME IInv, NEW h \in Hives, NameHive(h)
  PROVE  IInv'
<1>1. TypeOK'
  BY DEF IInv, TypeOK, NameHive, win32
<1>2. HiveIsKnown' /\ AnsweredOnce' /\ Judged'
  BY DEF IInv, HiveIsKnown, AnsweredOnce, Judged, NameHive
<1>3. Spelled'
  BY DEF IInv, Spelled, NamesOrOwn, NameHive, win32
<1>. QED  BY <1>1, <1>2, <1>3 DEF IInv

(* A component that is not blank joins the key (canonicalise_reg_key).      *)
LEMMA SubkeyStep ==
  ASSUME IInv, NEW word \in KeyWords, Subkey(word)
  PROVE  IInv'
<1>1. subkeys' \in Seq(KeyWords \ {""}) /\ Len(subkeys') <= MaxSubkeys
  <2>1. subkeys \in Seq(KeyWords \ {""})
    BY DEF IInv, TypeOK
  <2>2. word # "" => Append(subkeys, word) \in Seq(KeyWords \ {""})
    BY <2>1, AppendProperties
  <2>. QED  BY <2>1, <2>2 DEF Subkey, WithSubkey
<1>2. TypeOK'
  BY <1>1 DEF IInv, TypeOK, Subkey, win32
<1>3. HiveIsKnown' /\ AnsweredOnce' /\ Judged'
  BY DEF IInv, HiveIsKnown, AnsweredOnce, Judged, Subkey
<1>4. Spelled'
  BY DEF IInv, Spelled, NamesOrOwn, Subkey, win32
<1>. QED  BY <1>2, <1>3, <1>4 DEF IInv

(* The end of a key changes nothing of it (canonicalise_reg_key).           *)
LEMMA EndOfKeyStep ==
  ASSUME IInv, EndOfKey
  PROVE  IInv'
<1>1. TypeOK'
  BY DEF IInv, TypeOK, EndOfKey, key, win32
<1>2. HiveIsKnown' /\ AnsweredOnce' /\ Judged'
  BY DEF IInv, HiveIsKnown, AnsweredOnce, Judged, EndOfKey, key
<1>3. Spelled'
  BY DEF IInv, Spelled, NamesOrOwn, EndOfKey, win32
<1>. QED  BY <1>1, <1>2, <1>3 DEF IInv

(* The verdict on a key is the one on its hive and components, with the     *)
(* exceptions of the entry (check_registry_key).                            *)
LEMMA CheckRegistryKeyStep ==
  ASSUME IInv, CheckRegistryKey
  PROVE  IInv'
<1>1. hive \in Hives /\ hive # "none"
  BY DEF IInv, HiveIsKnown, CheckRegistryKey, Hives
<1>2. EvaluateRegistryKey(hive, subkeys, Exceptions) \in Verdict
  BY <1>1, RegistryKeyVerdict DEF Verdict
<1>. QED  BY <1>1, <1>2, AnswerKeepsIInv DEF CheckRegistryKey

(* The invariant is kept by every step.                                     *)
LEMMA NextKeepsIInv == IInv /\ [Next]_vars => IInv'
<1>. SUFFICES ASSUME IInv, [Next]_vars PROVE IInv'
  OBVIOUS
<1>1. ASSUME NEW form \in RootForm, NEW inside \in SUBSET {4, 8, 15}, SplitRoot(form, inside)
      PROVE  IInv'
  BY <1>1, SplitRootStep
<1>2. CASE Skip
  BY <1>2, SkipStep
<1>3. CASE Parent
  BY <1>3, ParentStep
<1>4. CASE DotsOnly
  BY <1>4, AnswerKeepsIInv DEF DotsOnly, Verdict, PathError
<1>5. ASSUME NEW raw \in RawComponents, Name(raw)
      PROVE  IInv'
  BY <1>5, NameStep
<1>6. CASE EndOfPath
  BY <1>6, EndOfPathStep
<1>7. ASSUME NEW stage \in Stage, CheckPath(stage)
      PROVE  IInv'
  BY <1>7, CheckPathStep
<1>8. CASE EmptyKey \/ UnknownHive
  BY <1>8, RefuseKeyStep DEF EmptyKey, UnknownHive, RegKeyError
<1>9. ASSUME NEW h \in Hives, NameHive(h)
      PROVE  IInv'
  BY <1>9, NameHiveStep
<1>10. ASSUME NEW word \in KeyWords, Subkey(word)
       PROVE  IInv'
  BY <1>10, SubkeyStep
<1>11. CASE EndOfKey
  BY <1>11, EndOfKeyStep
<1>12. CASE CheckRegistryKey
  BY <1>12, CheckRegistryKeyStep
<1>13. CASE UNCHANGED vars
  BY <1>13 DEF vars, key, win32, IInv, TypeOK, HiveIsKnown, AnsweredOnce, Spelled, NamesOrOwn,
     Judged, Exceptions
<1>. QED  BY <1>1, <1>2, <1>3, <1>4, <1>5, <1>6, <1>7, <1>8, <1>9, <1>10, <1>11, <1>12, <1>13
          DEF Next

(* The invariant holds on every way a path or a key takes through the gate  *)
(* (paths.rs, denylist.rs).                                                 *)
THEOREM GateInvariant == Spec => []IInv
BY InitIInv, NextKeepsIInv, PTL DEF Spec

(* The gate keeps its types (paths.rs, denylist.rs).                        *)
THEOREM TypeCorrect == Spec => []TypeOK
<1>1. IInv => TypeOK
  BY DEF IInv
<1>. QED  BY <1>1, GateInvariant, PTL

-------------------------------------------------------------------------------
(* No table mentions the name of its own Windows may have for a spelling.   *)
LEMMA OtherNameIsUnmentioned == Unmentioned(OtherName)
<1>1. OtherName \notin UserHives
  BY SafetyGateAssumption DEF SafetyGateAssumption
<1>2. OtherName \notin ProtectedTopLevel
  BY DEF OtherName, ProtectedTopLevel
<1>3. OtherName \notin ContainerTopLevel
  BY DEF OtherName, ContainerTopLevel
<1>4. OtherName \notin LibraryLeaves \cup SteamappsContainers
  BY DEF OtherName, LibraryLeaves, SteamappsContainers
<1>5. OtherName \notin ProfileFolders \cup AppDataRoots \cup ProgramFiles
  BY DEF OtherName, ProfileFolders, AppDataRoots, ProgramFiles
<1>6. \A pattern \in Containers : Avoids(pattern, OtherName)
  <2>1. OtherName \notin {"USERS", "*", "APPDATA", "LOCAL", "DOCUMENTS", "MY GAMES", "PROGRAMDATA",
                          "PACKAGE CACHE", "PROGRAMS", "PACKAGES", "TEMP", "COMMON FILES", "STEAM"}
    BY DEF OtherName
  <2>2. Avoids(<<"USERS", "*">>, OtherName) /\ Avoids(<<"PROGRAMDATA", "PACKAGE CACHE">>, OtherName)
    BY <2>1, TuplesAvoid
  <2>3. Avoids(<<"USERS", "*", "APPDATA">>, OtherName)
    BY <2>1, TuplesAvoid
  <2>4. Avoids(<<"USERS", "*", "DOCUMENTS", "MY GAMES">>, OtherName)
    BY <2>1, TuplesAvoid
  <2>5. \A d \in ProfileFolders : Avoids(<<"USERS", "*", d>>, OtherName)
    BY <1>5, <2>1, TuplesAvoid
  <2>6. \A d \in AppDataRoots : Avoids(<<"USERS", "*", "APPDATA", d>>, OtherName)
    BY <1>5, <2>1, TuplesAvoid
  <2>7. \A d \in {"PROGRAMS", "PACKAGES", "TEMP"} :
          Avoids(<<"USERS", "*", "APPDATA", "LOCAL", d>>, OtherName)
    BY <2>1, TuplesAvoid
  <2>8. \A pattern \in ProgramFiles \X {"COMMON FILES", "STEAM"} : Avoids(pattern, OtherName)
    <3>1. \A pattern \in ProgramFiles \X {"COMMON FILES", "STEAM"} :
            /\ Len(pattern) = 2
            /\ pattern[1] \in ProgramFiles
            /\ pattern[2] \in {"COMMON FILES", "STEAM"}
      OBVIOUS
    <3>2. \A i \in 1..2 : i \in {1, 2}
      OBVIOUS
    <3>3. \A p \in ProgramFiles \cup {"COMMON FILES", "STEAM"} : p # OtherName
      BY <1>5, <2>1, Zenon
    <3>. QED  BY <3>1, <3>2, <3>3, Zenon DEF Avoids
  <2>. SUFFICES ASSUME NEW pattern \in Containers PROVE Avoids(pattern, OtherName)
    OBVIOUS
  <2>9. CASE pattern \in ProgramFiles \X {"COMMON FILES", "STEAM"}
    BY <2>8, <2>9
  <2>10. CASE pattern \in {<<"USERS", "*", d>> : d \in ProfileFolders}
    BY <2>5, <2>10
  <2>11. CASE pattern \in {<<"USERS", "*", "APPDATA", d>> : d \in AppDataRoots}
    BY <2>6, <2>11
  <2>12. CASE pattern \in {<<"USERS", "*", "APPDATA", "LOCAL", d>> : d \in {"PROGRAMS", "PACKAGES", "TEMP"}}
    BY <2>7, <2>12
  <2>13. CASE pattern \in {<<"USERS", "*">>, <<"USERS", "*", "APPDATA">>,
                           <<"USERS", "*", "DOCUMENTS", "MY GAMES">>, <<"PROGRAMDATA", "PACKAGE CACHE">>}
    BY <2>2, <2>3, <2>4, <2>13
  <2>. QED  BY <2>9, <2>10, <2>11, <2>12, <2>13 DEF Containers
<1>7. \A pattern \in WindowsData \cup {<<"PROGRAMDATA", "MICROSOFT">>} : Avoids(pattern, OtherName)
  <2>1. OtherName \notin {"USERS", "*", "APPDATA", "PROGRAMDATA", "MICROSOFT", "PROGRAM FILES",
                          "WINDOWSAPPS", "WINDOWS DEFENDER",
                          "WINDOWS DEFENDER ADVANCED THREAT PROTECTION"}
    BY DEF OtherName
  <2>2. Avoids(<<"PROGRAM FILES", "WINDOWSAPPS">>, OtherName)
    BY <2>1, TuplesAvoid
  <2>3. Avoids(<<"PROGRAM FILES", "WINDOWS DEFENDER ADVANCED THREAT PROTECTION">>, OtherName)
    BY <2>1, TuplesAvoid
  <2>4. Avoids(<<"PROGRAMDATA", "MICROSOFT">>, OtherName)
    BY <2>1, TuplesAvoid
  <2>5. \A d \in AppDataRoots : Avoids(<<"USERS", "*", "APPDATA", d, "MICROSOFT">>, OtherName)
    BY <1>5, <2>1, TuplesAvoid
  <2>6. \A p \in ProgramFiles : Avoids(<<p, "WINDOWS DEFENDER">>, OtherName)
    BY <1>5, <2>1, TuplesAvoid
  <2>. QED  BY <2>2, <2>3, <2>4, <2>5, <2>6 DEF WindowsData
<1>. QED  BY <1>1, <1>2, <1>3, <1>4, <1>6, <1>7 DEF Unmentioned, Patterns

(* Whatever the text and the aliases of the machine, no spelling of a place *)
(* the deny-list refuses passes it (paths.rs, normalise_components).        *)
THEOREM SpellingsAreSafe == Spec => []NoSpellingEscapes
<1>1. IInv => NoSpellingEscapes
  <2>. SUFFICES ASSUME IInv, PathAllowed, path.components[1] \notin ProtectedTopLevel
                PROVE  EvaluateLocation(opens, NoExceptions) = "Ok"
    BY DEF NoSpellingEscapes
  <2>1. pc = "answered" /\ hive = "none" /\ verdict = "Ok"
    BY DEF IInv, AnsweredOnce, PathAllowed
  <2>2. ~path.shortName /\ EvaluateLocation(path.components, Exceptions) = "Ok"
    BY <2>1 DEF IInv, Judged
  <2>3. path.components \in Seq(Words) /\ opens \in Seq(Opened)
    BY DEF IInv, TypeOK
  <2>4. /\ Len(opens) = Len(path.components)
        /\ \A i \in 1..Len(path.components) : opens[i] \in {path.components[i], OtherName}
    BY <2>2 DEF IInv, Spelled, NamesOrOwn
  <2>. QED  BY <2>2, <2>3, <2>4, OtherNameIsUnmentioned, UnmentionedPasses
<1>. QED  BY <1>1, GateInvariant, PTL

(* Whatever the entry declares, nothing of Windows passes but a driver file *)
(* of its own (denylist.rs, windows_directory_exception, Exceptions::new).  *)
THEOREM CarveOutIsNarrow == Spec => []OnlyTheNamedDriver
<1>1. IInv => OnlyTheNamedDriver
  <2>. DEFINE file == path.components[Len(path.components)]
  <2>. SUFFICES ASSUME IInv, PathAllowed, path.components[1] \in ProtectedTopLevel
                PROVE  /\ path.components = <<"WINDOWS", "SYSTEM32", "DRIVERS", file>>
                       /\ \E raw \in Drivers : file = raw[Len(raw)]
                       /\ file \notin InboxDrivers
    BY DEF OnlyTheNamedDriver
  <2>1. EvaluateLocation(path.components, Exceptions) = "Ok"
    BY DEF IInv, AnsweredOnce, PathAllowed, Judged
  <2>2. path.components \in Seq(Words)
    BY DEF IInv, TypeOK
  <2>3. /\ Len(path.components) = 4
        /\ path.components = <<"WINDOWS", "SYSTEM32", "DRIVERS", path.components[4]>>
        /\ path.components[4] \in Exceptions.drivers
    BY <2>1, <2>2, AllowedInWindows
  <2>4. \A f \in Exceptions.drivers : f \notin InboxDrivers /\ \E raw \in Drivers : f = raw[Len(raw)]
    BY DEF Exceptions, NewExceptions, BaseFileName
  <2>. QED  BY <2>3, <2>4
<1>. QED  BY <1>1, GateInvariant, PTL

(* Whatever the entry declares, no key under SYSTEM passes but a service of *)
(* its own, and nothing below it (denylist.rs, service_key_leaf).           *)
THEOREM ServicesAreNamed == Spec => []OnlyTheNamedService
<1>1. IInv => OnlyTheNamedService
  <2>. SUFFICES ASSUME IInv, KeyAllowed
                PROVE  /\ hive # "HKCC"
                       /\ hive = "HKLM" /\ subkeys[1] = "SYSTEM" =>
                            /\ Len(subkeys) = 4
                            /\ subkeys[2] \in ControlSets /\ subkeys[3] = "SERVICES"
                            /\ subkeys[4] \in Services \ InboxServices
    BY DEF OnlyTheNamedService
  <2>1. hive \in Hives /\ EvaluateRegistryKey(hive, subkeys, Exceptions) = "Ok"
    BY DEF IInv, AnsweredOnce, KeyAllowed, Judged
  <2>2. hive # "HKCC"
    BY <2>1 DEF EvaluateRegistryKey
  <2>3. ASSUME hive = "HKLM", subkeys[1] = "SYSTEM"
        PROVE  /\ Len(subkeys) = 4
               /\ subkeys[2] \in ControlSets /\ subkeys[3] = "SERVICES"
               /\ subkeys[4] \in Services \ InboxServices
    <3>1. EvaluateMachineKey(subkeys, Exceptions) = "Ok"
      BY <2>1, <2>3 DEF EvaluateRegistryKey
    <3>2. subkeys # <<>>
      BY <3>1, AllowedMachineKey
    <3>3. Exceptions.services = Services \ (InboxServices \cup {""})
      BY ExceptionsAreTheEntrysOwn DEF Exceptions
    <3>. QED  BY <2>3, <3>1, <3>2, <3>3, AllowedInSystem
  <2>. QED  BY <2>2, <2>3
<1>. QED  BY <1>1, GateInvariant, PTL

-------------------------------------------------------------------------------
(* A finished path is, name for name, the location Win32 opens, but for an  *)
(* alias and for a name only one of the two layers of Windows can spell     *)
(* (paths.rs, normalise_components).                                        *)
THEOREM PathsNameWhatOpens == Spec => []CanonicalNamesWhatOpens
<1>1. IInv => CanonicalNamesWhatOpens
  <2>. SUFFICES ASSUME IInv, pc = "path", ~path.shortName,
                       \A i \in 1..Len(opens) : opens[i] # OtherName
                PROVE  path.components = opens
    BY DEF CanonicalNamesWhatOpens
  <2>. DEFINE components == path.components
  <2>1. components \in Seq(Words) /\ opens \in Seq(Opened)
    BY DEF IInv, TypeOK
  <2>2. /\ Len(opens) = Len(components)
        /\ \A i \in 1..Len(components) : opens[i] \in {components[i], OtherName}
    BY DEF IInv, Spelled, NamesOrOwn
  <2>. HIDE DEF components
  <2>3. \A i \in 1..Len(components) : components[i] = opens[i]
    BY <2>2
  <2>4. components \in Seq(Opened)
    <3>1. \A i \in 1..Len(components) : components[i] \in Opened
      BY <2>1, <2>2, <2>3, ElementOfSeq
    <3>. QED  BY <2>1, <3>1, SeqOfItsElements
  <2>5. components = opens
    BY <2>1, <2>2, <2>3, <2>4, SeqEqual
  <2>. QED  BY <2>5 DEF components
<1>. QED  BY <1>1, GateInvariant, PTL

(* What it is to be above a place, name for name.                           *)
LEMMA AboveMatches ==
  ASSUME NEW S, NEW components \in Seq(S), NEW place, IsAbove(components, place)
  PROVE  /\ Len(components) <= Len(place)
         /\ \A i \in 1..Len(components) : place[i] \in {"*", components[i]}
<1>. DEFINE n == Len(components)
            head == SubSeq(place, 1, n)
            T == {place[i] : i \in 1..n}
<1>1. n \in Nat /\ \A i \in 1..n : place[i] \in T
  OBVIOUS
<1>2. n <= Len(place) /\ StartsWithPattern(components, head)
  BY DEF IsAbove
<1>. HIDE DEF n, T, head
<1>3. /\ SubSeq(place, 1, n) \in Seq(T)
      /\ Len(SubSeq(place, 1, n)) = IF 1 <= n THEN n - 1 + 1 ELSE 0
      /\ \A i \in 1..(n - 1 + 1) : SubSeq(place, 1, n)[i] = place[1 + i - 1]
  BY <1>1, SubSeqProperties
<1>4. Len(head) = n /\ \A i \in 1..n : head[i] = place[i]
  <2>1. n - 1 + 1 = n /\ \A i \in 1..n : 1 + i - 1 = i
    BY <1>1
  <2>2. (IF 1 <= n THEN n - 1 + 1 ELSE 0) = n
    BY <1>1
  <2>. QED  BY <1>3, <2>1, <2>2 DEF head
<1>5. \A i \in 1..n : head[i] \in {"*", components[i]}
  BY <1>2, <1>4 DEF StartsWithPattern
<1>. QED  BY <1>2, <1>4, <1>5 DEF n

(* No directory and no key passes that holds a place or a key of the tables *)
(* (denylist.rs, CONTAINERS, WINDOWS_DATA, evaluate_machine_key and         *)
(* evaluate_user_key).                                                      *)
LEMMA NoDirectoryAbove ==
  ASSUME IInv, PathAllowed
  PROVE  \A place \in ProtectedLocations : ~IsAbove(path.components, place)
<1>1. path.components \in Seq(Words)
  BY DEF IInv, TypeOK
<1>2. EvaluateLocation(path.components, Exceptions) = "Ok"
  BY DEF IInv, AnsweredOnce, PathAllowed, Judged
<1>3. \A place \in ProtectedLocations : place \in Patterns
  BY DEF ProtectedLocations, Patterns
<1>. QED  BY <1>1, <1>2, <1>3, AboveMatches, NothingAboveALocation

LEMMA NoKeyAbove ==
  ASSUME IInv, KeyAllowed
  PROVE  \A place \in ProtectedKeys : ~IsAbove(subkeys, place)
<1>. DEFINE n == Len(subkeys)
            S == KeyWords \ {""}
<1>1. subkeys \in Seq(S) /\ n \in Nat
  <2>1. subkeys \in Seq(S)
    BY DEF IInv, TypeOK
  <2>. HIDE DEF S
  <2>. QED  BY <2>1
<1>. HIDE DEF S
<1>2. hive \in Hives /\ EvaluateRegistryKey(hive, subkeys, Exceptions) = "Ok"
  BY DEF IInv, AnsweredOnce, KeyAllowed, Judged
<1>. SUFFICES ASSUME NEW place \in ProtectedKeys, IsAbove(subkeys, place) PROVE FALSE
  OBVIOUS
<1>3. n <= Len(place) /\ \A i \in 1..n : place[i] \in {"*", subkeys[i]}
  BY <1>1, AboveMatches
<1>4. CASE hive = "HKLM"
  <2>1. EvaluateMachineKey(subkeys, Exceptions) = "Ok"
    BY <1>2, <1>4 DEF EvaluateRegistryKey
  <2>2. PICK p \in MachineKeys : place \in {p, Wow6432Node \o Tail(p)}
    BY <1>4 DEF ProtectedKeys, MachineKeys
  <2>3. ~\A i \in 1..Len(subkeys) : place[i] \in {"*", subkeys[i]}
    <3>1. Len(subkeys) <= Len(place)
      BY <1>3
    <3>. QED  BY <1>1, <2>1, <2>2, <3>1, NothingAboveAMachineKey, Zenon
  <2>. QED  BY <1>3, <2>3
<1>5. CASE hive = "HKCU"
  <2>1. EvaluateUserKey(subkeys) = "Ok"
    BY <1>2, <1>5 DEF EvaluateRegistryKey
  <2>2. place \in UserContainerKeys
    BY <1>5 DEF ProtectedKeys
  <2>. QED  BY <1>1, <1>3, <2>1, <2>2, NothingAboveAUserKey
<1>6. CASE hive = "HKU"
  <2>. DEFINE t == Tail(subkeys)
  <2>1. n \in Nat /\ n >= 2
    <3>1. ~(Len(subkeys) < 2)
      BY <1>2, <1>6 DEF EvaluateRegistryKey
    <3>. HIDE DEF n
    <3>. QED  BY <1>1, <3>1 DEF n
  <2>2. t \in Seq(S) /\ Len(t) = n - 1 /\ \A i \in 1..(n - 1) : t[i] = subkeys[i + 1]
    <3>1. subkeys # <<>>
      BY <2>1
    <3>2. t \in Seq(S) /\ Len(t) = Len(subkeys) - 1 /\ \A i \in 1..Len(t) : t[i] = subkeys[i + 1]
      BY <1>1, <3>1, HeadTailProperties
    <3>. QED  BY <3>2
  <2>3. CASE subkeys[1] \notin ClassesHives
    <3>1. EvaluateUserKey(t) = "Ok"
      BY <1>2, <1>6, <2>1, <2>3 DEF EvaluateRegistryKey
    <3>2. PICK p \in UserContainerKeys : place = <<"*">> \o p
      BY <1>6, <2>3 DEF ProtectedKeys
    <3>3. Len(place) = Len(p) + 1 /\ \A i \in 1..Len(p) : place[i + 1] = p[i]
      BY <3>2, ForAnyUser
    <3>4. Len(t) <= Len(p) /\ \A i \in 1..Len(t) : p[i] \in {"*", t[i]}
      <4>. HIDE DEF n, t
      <4>1. Len(p) \in Nat
        BY UserKeysHaveLengths
      <4>2. n \in Nat /\ n >= 2 /\ Len(t) = n - 1 /\ n <= Len(p) + 1
        BY <1>3, <2>1, <2>2, <3>3 DEF n
      <4>3. /\ Len(t) <= Len(p)
            /\ \A i \in 1..Len(t) : i \in 1..Len(p) /\ i + 1 \in 1..n /\ i \in 1..(n - 1)
        BY <4>1, <4>2
      <4>. QED  BY <1>3, <2>2, <3>3, <4>3 DEF n
    <3>. QED  BY <2>2, <3>1, <3>4, NothingAboveAUserKey
  <2>4. CASE subkeys[1] \in ClassesHives
    <3>1. EvaluateUserKey(Classes \o t) = "Ok"
      BY <1>2, <1>6, <2>1, <2>4 DEF EvaluateRegistryKey
    <3>2. place = <<"*", "CLSID">>
      BY <1>6, <2>4 DEF ProtectedKeys
    <3>3. Len(place) = 2 /\ place[2] = "CLSID"
      BY <3>2
    <3>4. n = 2
      BY <1>3, <2>1, <3>3
    <3>5. subkeys[2] = "CLSID"
      BY <1>3, <3>3, <3>4
    <3>6. t = <<"CLSID">>
      <4>1. Len(t) = 1 /\ t[1] = "CLSID"
        <5>. HIDE DEF n, t
        <5>1. n - 1 = 1 /\ 1 + 1 = 2
          BY <3>4
        <5>. QED  BY <2>2, <3>5, <5>1
      <4>. HIDE DEF t
      <4>. QED  BY <2>2, <4>1
    <3>7. Classes \o t \in UserContainerKeys
      BY <3>6 DEF UserContainerKeys
    <3>8. EqualsPattern(Classes \o t, Classes \o t)
      <4>. DEFINE c == Classes \o t
      <4>1. c = <<"SOFTWARE", "CLASSES", "CLSID">>
        BY <3>6, KeysWrittenOut
      <4>. HIDE DEF c
      <4>2. Len(c) = 3
        BY <4>1
      <4>3. EqualsPattern(c, c)
        BY <4>2 DEF EqualsPattern, StartsWithPattern
      <4>. QED  BY <4>3 DEF c
    <3>. QED  BY <3>1, <3>7, <3>8, Zenon DEF EvaluateUserKey
  <2>. QED  BY <2>3, <2>4
<1>7. CASE hive \in {"HKCR", "HKCC"}
  BY <1>7 DEF ProtectedKeys
<1>. QED  BY <1>2, <1>4, <1>5, <1>6, <1>7 DEF Hives

(* Whoever removes what passed removes nothing the tables protect with it:  *)
(* no directory above a protected one, and no key above a protected key, in *)
(* either view and for any user.                                            *)
THEOREM NothingProtectedIsInside == Spec => []NothingAboveProtected
<1>1. IInv => NothingAboveProtected
  BY NoDirectoryAbove, NoKeyAbove DEF NothingAboveProtected
<1>. QED  BY <1>1, GateInvariant, PTL

(* What is refused under one of its names passes under no other: in the     *)
(* 32-bit view, under HKU or in HKCR (denylist.rs, evaluate_machine_key,    *)
(* evaluate_registry_key).                                                  *)
THEOREM EveryNameIsJudged == Spec => []NamesAreJudgedAlike
<1>1. IInv => NamesAreJudgedAlike
  <2>. SUFFICES ASSUME IInv, KeyAllowed PROVE NamesAreJudgedAlike
    BY DEF NamesAreJudgedAlike
  <2>1. subkeys \in Seq(KeyWords \ {""})
    BY DEF IInv, TypeOK
  <2>2. hive \in Hives /\ EvaluateRegistryKey(hive, subkeys, Exceptions) = "Ok"
    BY DEF IInv, AnsweredOnce, KeyAllowed, Judged
  <2>3. ASSUME hive = "HKLM", Len(subkeys) >= 3, StartsWithPattern(subkeys, Wow6432Node),
               subkeys[3] # "WOW6432NODE"
        PROVE  EvaluateMachineKey(NativeView(subkeys), Exceptions) = "Ok"
    <3>1. EvaluateMachineKey(subkeys, Exceptions) = "Ok"
      BY <2>2, <2>3 DEF EvaluateRegistryKey
    <3>. QED  BY <2>1, <2>3, <3>1, NativeViewPasses
  <2>4. ASSUME hive = "HKU"
        PROVE  EvaluateUserKey(IF subkeys[1] \in ClassesHives THEN Classes \o Tail(subkeys)
                                                              ELSE Tail(subkeys)) = "Ok"
    BY <2>2, <2>4 DEF EvaluateRegistryKey
  <2>5. ASSUME hive = "HKCR"
        PROVE  EvaluateMachineKey(Classes \o subkeys, Exceptions) = "Ok"
    <3>1. ~(Len(subkeys) < 2)
      BY <2>2, <2>5 DEF EvaluateRegistryKey, ShallowFloor
    <3>. QED  BY <2>1, <3>1, DeepInClassesPasses
  <2>. QED  BY <2>3, <2>4, <2>5 DEF NamesAreJudgedAlike
<1>. QED  BY <1>1, GateInvariant, PTL
================================================================================
