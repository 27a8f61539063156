---------------------------- MODULE DenyListTables ----------------------------
(***************************************************************************)
(* The tables of the deny-list leave no gap: what passes is neither a place *)
(* they protect nor anything that holds one.                               *)
(***************************************************************************)
EXTENDS DenyListProofs

(* A word added to a sequence written out.                                  *)
LEMMA JoinedOne ==
  /\ \A a, b, c : <<a, b>> \o <<c>> = <<a, b, c>>
  /\ \A a, b, c, d, e : <<a, b, c, d>> \o <<e>> = <<a, b, c, d, e>>
<1>1. ASSUME NEW a, NEW b, NEW c PROVE <<a, b>> \o <<c>> = <<a, b, c>>
  <2> DEFINE S == {a, b, c}
             s == <<a, b>>
             t == <<c>>
             u == <<a, b, c>>
  <2>1. /\ s \in Seq(S) /\ t \in Seq(S) /\ u \in Seq(S)
        /\ Len(s) = 2 /\ Len(t) = 1 /\ Len(u) = 3
        /\ u[1] = s[1] /\ u[2] = s[2] /\ u[3] = t[1]
    OBVIOUS
  <2> HIDE DEF S, s, t, u
  <2>2. /\ s \o t \in Seq(S) /\ Len(s \o t) = 3
        /\ \A i \in 1..3 : (s \o t)[i] = IF i <= 2 THEN s[i] ELSE t[i - 2]
    <3>1. /\ s \o t \in Seq(S) /\ Len(s \o t) = Len(s) + Len(t)
          /\ \A i \in 1..(Len(s) + Len(t)) :
                (s \o t)[i] = IF i <= Len(s) THEN s[i] ELSE t[i - Len(s)]
      BY <2>1, ConcatProperties, Zenon
    <3>2. 2 + 1 = 3
      OBVIOUS
    <3> QED BY <2>1, <3>1, <3>2, Zenon
  <2>3. \A i \in 1..3 : (s \o t)[i] = u[i]
    BY <2>1, <2>2
  <2>4. s \o t = u
    BY <2>1, <2>2, <2>3, SeqEqual
  <2> QED BY <2>4 DEF s, t, u
<1>2. ASSUME NEW a, NEW b, NEW c, NEW d, NEW e PROVE <<a, b, c, d>> \o <<e>> = <<a, b, c, d, e>>
  <2> DEFINE S == {a, b, c, d, e}
             s == <<a, b, c, d>>
             t == <<e>>
             u == <<a, b, c, d, e>>
  <2>1. /\ s \in Seq(S) /\ t \in Seq(S) /\ u \in Seq(S)
        /\ Len(s) = 4 /\ Len(t) = 1 /\ Len(u) = 5
        /\ u[1] = s[1] /\ u[2] = s[2] /\ u[3] = s[3] /\ u[4] = s[4] /\ u[5] = t[1]
    OBVIOUS
  <2> HIDE DEF S, s, t, u
  <2>2. /\ s \o t \in Seq(S) /\ Len(s \o t) = 5
        /\ \A i \in 1..5 : (s \o t)[i] = IF i <= 4 THEN s[i] ELSE t[i - 4]
    <3>1. /\ s \o t \in Seq(S) /\ Len(s \o t) = Len(s) + Len(t)
          /\ \A i \in 1..(Len(s) + Len(t)) :
                (s \o t)[i] = IF i <= Len(s) THEN s[i] ELSE t[i - Len(s)]
      BY <2>1, ConcatProperties, Zenon
    <3>2. 4 + 1 = 5
      OBVIOUS
    <3> QED BY <2>1, <3>1, <3>2, Zenon
  <2>3. \A i \in 1..5 : (s \o t)[i] = u[i]
    BY <2>1, <2>2
  <2>4. s \o t = u
    BY <2>1, <2>2, <2>3, SeqEqual
  <2> QED BY <2>4 DEF s, t, u
<1> QED BY <1>1, <1>2

(* Two words added to two.                                                  *)
LEMMA JoinedTwo == \A a, b, c, d : <<a, b>> \o <<c, d>> = <<a, b, c, d>>
<1> SUFFICES ASSUME NEW a, NEW b, NEW c, NEW d PROVE <<a, b>> \o <<c, d>> = <<a, b, c, d>>
  OBVIOUS
  <1> DEFINE S == {a, b, c, d}
             s == <<a, b>>
             t == <<c, d>>
             u == <<a, b, c, d>>
  <1>1. /\ s \in Seq(S) /\ t \in Seq(S) /\ u \in Seq(S)
        /\ Len(s) = 2 /\ Len(t) = 2 /\ Len(u) = 4
        /\ u[1] = s[1] /\ u[2] = s[2] /\ u[3] = t[1] /\ u[4] = t[2]
    OBVIOUS
  <1> HIDE DEF S, s, t, u
  <1>2. /\ s \o t \in Seq(S) /\ Len(s \o t) = 4
        /\ \A i \in 1..4 : (s \o t)[i] = IF i <= 2 THEN s[i] ELSE t[i - 2]
    <2>1. /\ s \o t \in Seq(S) /\ Len(s \o t) = Len(s) + Len(t)
          /\ \A i \in 1..(Len(s) + Len(t)) :
                (s \o t)[i] = IF i <= Len(s) THEN s[i] ELSE t[i - Len(s)]
      BY <1>1, ConcatProperties, Zenon
    <2>2. 2 + 2 = 4
      OBVIOUS
    <2> QED BY <1>1, <2>1, <2>2, Zenon
  <1>3. \A i \in 1..4 : (s \o t)[i] = u[i]
    BY <1>1, <1>2
  <1>4. s \o t = u
    BY <1>1, <1>2, <1>3, SeqEqual
  <1> QED BY <1>4 DEF s, t, u

(* Every shorter beginning of p, from two words on, is in a table itself.   *)
Covered(p, table) ==
  \A n \in 2..Len(p) : \E q \in table : Len(q) = n /\ \A i \in 1..n : q[i] = p[i]

(* A pattern written out is covered if each of its beginnings is listed.    *)
LEMMA TuplesAreCovered ==
  ASSUME NEW T
  PROVE  /\ \A a, b : <<a, b>> \in T => Covered(<<a, b>>, T)
         /\ \A a, b, c : <<a, b>> \in T /\ <<a, b, c>> \in T => Covered(<<a, b, c>>, T)
         /\ \A a, b, c, d : <<a, b>> \in T /\ <<a, b, c>> \in T /\ <<a, b, c, d>> \in T
              => Covered(<<a, b, c, d>>, T)
         /\ \A a, b, c, d, e :
              <<a, b>> \in T /\ <<a, b, c>> \in T /\ <<a, b, c, d>> \in T /\ <<a, b, c, d, e>> \in T
              => Covered(<<a, b, c, d, e>>, T)
<1>1. ASSUME NEW a, NEW b, <<a, b>> \in T PROVE Covered(<<a, b>>, T)
  BY <1>1 DEF Covered
<1>2. ASSUME NEW a, NEW b, NEW c,
             <<a, b>> \in T, <<a, b, c>> \in T
      PROVE  Covered(<<a, b, c>>, T)
  <2> DEFINE p2 == <<a, b>>
             p3 == <<a, b, c>>
  <2>1. /\ Len(p2) = 2 /\ p2 \in T
        /\ Len(p3) = 3 /\ p3 \in T
    BY <1>2
  <2>2. \A i \in 1..2 : p2[i] = p3[i]
    OBVIOUS
  <2> HIDE DEF p2, p3
  <2>3. Covered(p3, T)
    <3> SUFFICES ASSUME NEW n \in 2..3 PROVE \E q \in T : Len(q) = n /\ \A i \in 1..n : q[i] = p3[i]
      BY <2>1 DEF Covered
    <3>1. CASE n = 2
      BY <2>1, <2>2, <3>1
    <3>2. CASE n = 3
      BY <2>1, <3>2
    <3> QED BY <3>1, <3>2
  <2> QED BY <2>3 DEF p3
<1>3. ASSUME NEW a, NEW b, NEW c, NEW d,
             <<a, b>> \in T, <<a, b, c>> \in T, <<a, b, c, d>> \in T
      PROVE  Covered(<<a, b, c, d>>, T)
  <2> DEFINE p2 == <<a, b>>
             p3 == <<a, b, c>>
             p4 == <<a, b, c, d>>
  <2>1. /\ Len(p2) = 2 /\ p2 \in T
        /\ Len(p3) = 3 /\ p3 \in T
        /\ Len(p4) = 4 /\ p4 \in T
    BY <1>3
  <2>2. \A i \in 1..2 : p2[i] = p4[i]
    OBVIOUS
  <2>3. \A i \in 1..3 : p3[i] = p4[i]
    OBVIOUS
  <2> HIDE DEF p2, p3, p4
  <2>4. Covered(p4, T)
    <3> SUFFICES ASSUME NEW n \in 2..4 PROVE \E q \in T : Len(q) = n /\ \A i \in 1..n : q[i] = p4[i]
      BY <2>1 DEF Covered
    <3>1. CASE n = 2
      BY <2>1, <2>2, <3>1
    <3>2. CASE n = 3
      BY <2>1, <2>3, <3>2
    <3>3. CASE n = 4
      BY <2>1, <3>3
    <3> QED BY <3>1, <3>2, <3>3
  <2> QED BY <2>4 DEF p4
<1>4. ASSUME NEW a, NEW b, NEW c, NEW d, NEW e,
             <<a, b>> \in T, <<a, b, c>> \in T, <<a, b, c, d>> \in T, <<a, b, c, d, e>> \in T
      PROVE  Covered(<<a, b, c, d, e>>, T)
  <2> DEFINE p2 == <<a, b>>
             p3 == <<a, b, c>>
             p4 == <<a, b, c, d>>
             p5 == <<a, b, c, d, e>>
  <2>1. /\ Len(p2) = 2 /\ p2 \in T
        /\ Len(p3) = 3 /\ p3 \in T
        /\ Len(p4) = 4 /\ p4 \in T
        /\ Len(p5) = 5 /\ p5 \in T
    BY <1>4
  <2>2. \A i \in 1..2 : p2[i] = p5[i]
    OBVIOUS
  <2>3. \A i \in 1..3 : p3[i] = p5[i]
    OBVIOUS
  <2>4. \A i \in 1..4 : p4[i] = p5[i]
    OBVIOUS
  <2> HIDE DEF p2, p3, p4, p5
  <2>5. Covered(p5, T)
    <3> SUFFICES ASSUME NEW n \in 2..5 PROVE \E q \in T : Len(q) = n /\ \A i \in 1..n : q[i] = p5[i]
      BY <2>1 DEF Covered
    <3>1. CASE n = 2
      BY <2>1, <2>2, <3>1
    <3>2. CASE n = 3
      BY <2>1, <2>3, <3>2
    <3>3. CASE n = 4
      BY <2>1, <2>4, <3>3
    <3>4. CASE n = 5
      BY <2>1, <3>4
    <3> QED BY <3>1, <3>2, <3>3, <3>4
  <2> QED BY <2>5 DEF p5
<1> QED BY <1>1, <1>2, <1>3, <1>4

(* CONTAINERS and WINDOWS_DATA hold every directory between USERS, or any   *)
(* other of their roots, and what they protect below it.                    *)
LEMMA LocationsHaveNoGap == \A p \in Patterns : Covered(p, Patterns)
<1>1. /\ <<"USERS", "*">> \in Patterns /\ <<"USERS", "*", "APPDATA">> \in Patterns
      /\ \A d \in AppDataRoots : <<"USERS", "*", "APPDATA", d>> \in Patterns
      /\ \A d \in ProfileFolders : <<"USERS", "*", d>> \in Patterns
  BY DEF Patterns, Containers
<1>2. "LOCAL" \in AppDataRoots /\ "DOCUMENTS" \in ProfileFolders
  BY DEF AppDataRoots, ProfileFolders
<1>3. \A a, b : <<a, b>> \in Patterns => Covered(<<a, b>>, Patterns)
  BY TuplesAreCovered
<1>4. Covered(<<"USERS", "*", "APPDATA">>, Patterns)
  BY <1>1, TuplesAreCovered
<1>5. \A d \in ProfileFolders : Covered(<<"USERS", "*", d>>, Patterns)
  BY <1>1, TuplesAreCovered
<1>6. Covered(<<"USERS", "*", "DOCUMENTS", "MY GAMES">>, Patterns)
  <2>1. <<"USERS", "*", "DOCUMENTS", "MY GAMES">> \in Patterns
    BY DEF Patterns, Containers
  <2>2. <<"USERS", "*", "DOCUMENTS">> \in Patterns
    BY <1>1, <1>2
  <2> QED BY <1>1, <2>1, <2>2, TuplesAreCovered
<1>7. \A d \in AppDataRoots : Covered(<<"USERS", "*", "APPDATA", d>>, Patterns)
  BY <1>1, TuplesAreCovered
<1>8. \A d \in {"PROGRAMS", "PACKAGES", "TEMP"} :
        Covered(<<"USERS", "*", "APPDATA", "LOCAL", d>>, Patterns)
  <2>1. <<"USERS", "*", "APPDATA", "LOCAL">> \in Patterns
    BY <1>1, <1>2
  <2>2. \A d \in {"PROGRAMS", "PACKAGES", "TEMP"} :
          <<"USERS", "*", "APPDATA", "LOCAL", d>> \in Patterns
    BY DEF Patterns, Containers
  <2> QED BY <1>1, <2>1, <2>2, TuplesAreCovered
<1>9. \A d \in AppDataRoots : Covered(<<"USERS", "*", "APPDATA", d, "MICROSOFT">>, Patterns)
  <2>1. \A d \in AppDataRoots : <<"USERS", "*", "APPDATA", d, "MICROSOFT">> \in Patterns
    BY DEF Patterns, WindowsData
  <2> QED BY <1>1, <2>1, TuplesAreCovered
<1>10. \A p \in ProgramFiles \X {"COMMON FILES", "STEAM"} : Covered(p, Patterns)
  <2>3. \A n \in 2..2 : n = 2
    OBVIOUS
  <2> SUFFICES ASSUME NEW p \in ProgramFiles \X {"COMMON FILES", "STEAM"} PROVE Covered(p, Patterns)
    OBVIOUS
  <2>1. Len(p) = 2
    OBVIOUS
  <2>2. p \in Patterns
    BY Zenon DEF Patterns, Containers
  <2> QED BY <2>1, <2>2, <2>3, Zenon DEF Covered
<1> SUFFICES ASSUME NEW p \in Patterns PROVE Covered(p, Patterns)
  OBVIOUS
<1>11. CASE p \in Containers
  <2>1. CASE p \in {<<"USERS", "*">>, <<"PROGRAMDATA", "PACKAGE CACHE">>}
    BY <1>3, <2>1
  <2>2. CASE p \in {<<"USERS", "*", "APPDATA">>, <<"USERS", "*", "DOCUMENTS", "MY GAMES">>}
    BY <1>4, <1>6, <2>2
  <2>3. CASE p \in {<<"USERS", "*", d>> : d \in ProfileFolders}
    BY <1>5, <2>3
  <2>4. CASE p \in {<<"USERS", "*", "APPDATA", d>> : d \in AppDataRoots}
    BY <1>7, <2>4
  <2>5. CASE p \in {<<"USERS", "*", "APPDATA", "LOCAL", d>> : d \in {"PROGRAMS", "PACKAGES", "TEMP"}}
    BY <1>8, <2>5
  <2>6. CASE p \in ProgramFiles \X {"COMMON FILES", "STEAM"}
    BY <1>10, <2>6
  <2> QED BY <1>11, <2>1, <2>2, <2>3, <2>4, <2>5, <2>6 DEF Containers
<1>12. CASE p \in WindowsData
  <2>1. CASE p \in {<<"USERS", "*", "APPDATA", d, "MICROSOFT">> : d \in AppDataRoots}
    BY <1>9, <2>1
  <2>2. CASE p \in {<<f, "WINDOWS DEFENDER">> : f \in ProgramFiles}
    BY <1>3, <2>2
  <2>3. CASE p \in {<<"PROGRAM FILES", "WINDOWSAPPS">>,
                    <<"PROGRAM FILES", "WINDOWS DEFENDER ADVANCED THREAT PROTECTION">>}
    BY <1>3, <2>3
  <2> QED BY <1>12, <2>1, <2>2, <2>3 DEF WindowsData
<1>13. CASE p = <<"PROGRAMDATA", "MICROSOFT">>
  BY <1>3, <1>13
<1> QED BY <1>11, <1>12, <1>13 DEF Patterns

(* Nothing passes that holds a place of the tables (evaluate_path).         *)
LEMMA NothingAboveALocation ==
  ASSUME NEW S, NEW components \in Seq(S), NEW exceptions,
         EvaluateLocation(components, exceptions) = "Ok",
         NEW place \in Patterns, Len(components) <= Len(place)
  PROVE  ~\A i \in 1..Len(components) : place[i] \in {"*", components[i]}
<1> DEFINE n == Len(components)
<1> SUFFICES ASSUME \A i \in 1..n : place[i] \in {"*", components[i]} PROVE FALSE
  OBVIOUS
<1>1. components # <<>> /\ n \in Nat /\ n >= 1
  BY DEF EvaluateLocation
<1>2. place[1] \in ContainerTopLevel
  <2>1. \A p \in ProgramFiles \X {"COMMON FILES", "STEAM"} : p[1] \in ProgramFiles
    OBVIOUS
  <2>2. \A b, c, d, e : /\ <<"USERS", b>>[1] = "USERS" /\ <<"USERS", b, c>>[1] = "USERS"
                        /\ <<"USERS", b, c, d>>[1] = "USERS" /\ <<"USERS", b, c, d, e>>[1] = "USERS"
    OBVIOUS
  <2>3. \A a, b : <<a, b>>[1] = a
    OBVIOUS
  <2> DEFINE Tops == {"USERS", "PROGRAMDATA"} \cup ProgramFiles
  <2>4. \A f \in ProgramFiles : \A w : <<f, w>>[1] \in Tops
    OBVIOUS
  <2>5. /\ <<"PROGRAMDATA", "PACKAGE CACHE">>[1] \in Tops
        /\ <<"PROGRAMDATA", "MICROSOFT">>[1] \in Tops
        /\ \A w : <<"PROGRAM FILES", w>>[1] \in Tops
    BY DEF ProgramFiles
  <2>6. ASSUME NEW p \in Containers PROVE p[1] \in Tops
    <3>1. CASE p \in ProgramFiles \X {"COMMON FILES", "STEAM"}
      BY <2>1, <3>1
    <3>2. CASE p = <<"PROGRAMDATA", "PACKAGE CACHE">>
      BY <2>5, <3>2
    <3>3. CASE p \in {<<"USERS", "*">>, <<"USERS", "*", "APPDATA">>,
                      <<"USERS", "*", "DOCUMENTS", "MY GAMES">>}
      <4>1. CASE p = <<"USERS", "*">>
        BY <2>2, <4>1
      <4>2. CASE p = <<"USERS", "*", "APPDATA">>
        BY <2>2, <4>2
      <4>3. CASE p = <<"USERS", "*", "DOCUMENTS", "MY GAMES">>
        BY <2>2, <4>3
      <4> QED BY <3>3, <4>1, <4>2, <4>3
    <3>4. CASE p \in {<<"USERS", "*", d>> : d \in ProfileFolders}
      BY <2>2, <3>4
    <3>5. CASE p \in {<<"USERS", "*", "APPDATA", d>> : d \in AppDataRoots}
      BY <2>2, <3>5
    <3>6. CASE p \in {<<"USERS", "*", "APPDATA", "LOCAL", d>> :
                        d \in {"PROGRAMS", "PACKAGES", "TEMP"}}
      BY <2>2, <3>6
    <3> QED BY <2>6, <3>1, <3>2, <3>3, <3>4, <3>5, <3>6 DEF Containers
  <2>7. ASSUME NEW p \in WindowsData PROVE p[1] \in Tops
    <3>1. CASE p \in {<<"USERS", "*", "APPDATA", d, "MICROSOFT">> : d \in AppDataRoots}
      BY <2>2, <3>1
    <3>2. CASE p \in {<<f, "WINDOWS DEFENDER">> : f \in ProgramFiles}
      BY <2>4, <3>2
    <3>3. CASE p \in {<<"PROGRAM FILES", "WINDOWSAPPS">>,
                      <<"PROGRAM FILES", "WINDOWS DEFENDER ADVANCED THREAT PROTECTION">>}
      BY <2>5, <3>3
    <3> QED BY <2>7, <3>1, <3>2, <3>3 DEF WindowsData
  <2> QED BY <2>5, <2>6, <2>7 DEF Patterns, ContainerTopLevel, ProgramFiles
<1>3. components[1] \in ContainerTopLevel \ ProtectedTopLevel
  <2>1. \A w \in ContainerTopLevel : w # "*" /\ w \notin ProtectedTopLevel
    BY DEF ContainerTopLevel, ProtectedTopLevel
  <2>2. place[1] \in {"*", components[1]}
    BY <1>1
  <2> QED BY <1>2, <2>1, <2>2
<1>4. n >= 2
  <2>1. Len(components) # 1
    BY <1>1, <1>3, Zenon DEF EvaluateLocation
  <2> HIDE DEF n
  <2>2. n # 1
    BY <2>1 DEF n
  <2> QED BY <1>1, <2>2
<1>5. PICK q \in Patterns : Len(q) = n /\ \A i \in 1..n : q[i] = place[i]
  <2>1. n \in 2..Len(place)
    BY <1>1, <1>4, PatternsHaveLengths
  <2> QED BY <2>1, LocationsHaveNoGap DEF Covered
<1>6. EqualsPattern(components, q)
  BY <1>1, <1>5 DEF EqualsPattern, StartsWithPattern
<1>7. EvaluateLocation(components, exceptions) # "Ok"
  <2>1. CASE q \in Containers
    BY <1>1, <1>3, <1>6, <2>1 DEF EvaluateLocation, IsContainer
  <2>2. CASE q \in WindowsData \cup {<<"PROGRAMDATA", "MICROSOFT">>}
    BY <1>1, <1>3, <1>6, <2>2 DEF EvaluateLocation, EqualsPattern
  <2> QED BY <2>1, <2>2 DEF Patterns
<1> QED BY <1>7

-------------------------------------------------------------------------------
(* The tables of keys, written out.                                         *)
MachineKeys == MachineProtectedKeys \cup MachineContainerKeys

LEMMA KeysWrittenOut ==
  /\ Microsoft = <<"SOFTWARE", "MICROSOFT">> /\ Classes = <<"SOFTWARE", "CLASSES">>
  /\ Policies = <<"SOFTWARE", "POLICIES">> /\ Wow6432Node = <<"SOFTWARE", "WOW6432NODE">>
  /\ CurrentVersion = <<"SOFTWARE", "MICROSOFT", "WINDOWS", "CURRENTVERSION">>
  /\ NtCurrentVersion = <<"SOFTWARE", "MICROSOFT", "WINDOWS NT", "CURRENTVERSION">>
  /\ \A k : Microsoft \o <<k>> = <<"SOFTWARE", "MICROSOFT", k>>
  /\ \A k : Classes \o <<k>> = <<"SOFTWARE", "CLASSES", k>>
  /\ \A k : Policies \o <<k>> = <<"SOFTWARE", "POLICIES", k>>
  /\ \A k, l : Policies \o <<k, l>> = <<"SOFTWARE", "POLICIES", k, l>>
  /\ \A k : CurrentVersion \o <<k>> = <<"SOFTWARE", "MICROSOFT", "WINDOWS", "CURRENTVERSION", k>>
  /\ \A k : NtCurrentVersion \o <<k>> = <<"SOFTWARE", "MICROSOFT", "WINDOWS NT", "CURRENTVERSION", k>>
<1>1. /\ Microsoft = <<"SOFTWARE", "MICROSOFT">> /\ Classes = <<"SOFTWARE", "CLASSES">>
      /\ Policies = <<"SOFTWARE", "POLICIES">> /\ Wow6432Node = <<"SOFTWARE", "WOW6432NODE">>
  BY DEF Microsoft, Classes, Policies, Wow6432Node
<1>2. /\ CurrentVersion = <<"SOFTWARE", "MICROSOFT", "WINDOWS", "CURRENTVERSION">>
      /\ NtCurrentVersion = <<"SOFTWARE", "MICROSOFT", "WINDOWS NT", "CURRENTVERSION">>
  BY JoinedTwo, Zenon DEF Microsoft, CurrentVersion, NtCurrentVersion
<1>3. /\ \A k : Microsoft \o <<k>> = <<"SOFTWARE", "MICROSOFT", k>>
      /\ \A k : Classes \o <<k>> = <<"SOFTWARE", "CLASSES", k>>
      /\ \A k : Policies \o <<k>> = <<"SOFTWARE", "POLICIES", k>>
  BY <1>1, JoinedOne, Zenon
<1>4. \A k, l : Policies \o <<k, l>> = <<"SOFTWARE", "POLICIES", k, l>>
  BY <1>1, JoinedTwo, Zenon
<1>5. \A k : CurrentVersion \o <<k>> = <<"SOFTWARE", "MICROSOFT", "WINDOWS", "CURRENTVERSION", k>>
  BY <1>2, JoinedOne, Zenon
<1>6. \A k : NtCurrentVersion \o <<k>>
               = <<"SOFTWARE", "MICROSOFT", "WINDOWS NT", "CURRENTVERSION", k>>
  BY <1>2, JoinedOne, Zenon
<1> QED BY <1>1, <1>2, <1>3, <1>4, <1>5, <1>6

LEMMA UserKeysWrittenOut ==
  UserContainerKeys =
    {<<"SOFTWARE", "CLASSES">>, <<"SOFTWARE", "CLASSES", "CLSID">>, <<"SOFTWARE", "MICROSOFT">>,
     <<"SOFTWARE", "MICROSOFT", "WINDOWS">>, <<"SOFTWARE", "MICROSOFT", "WINDOWS", "CURRENTVERSION">>,
     <<"SOFTWARE", "POLICIES">>, <<"SOFTWARE", "WOW6432NODE">>}
    \cup {<<"SOFTWARE", "MICROSOFT", "WINDOWS", "CURRENTVERSION", k>> :
            k \in {"RUN", "RUNONCE", "UNINSTALL"}}
<1>1. {CurrentVersion \o <<k>> : k \in {"RUN", "RUNONCE", "UNINSTALL"}} =
      {<<"SOFTWARE", "MICROSOFT", "WINDOWS", "CURRENTVERSION", k>> :
         k \in {"RUN", "RUNONCE", "UNINSTALL"}}
  BY KeysWrittenOut
<1>2. {Classes, Classes \o <<"CLSID">>, Microsoft, Microsoft \o <<"WINDOWS">>, CurrentVersion,
       Policies, Wow6432Node} =
      {<<"SOFTWARE", "CLASSES">>, <<"SOFTWARE", "CLASSES", "CLSID">>, <<"SOFTWARE", "MICROSOFT">>,
       <<"SOFTWARE", "MICROSOFT", "WINDOWS">>,
       <<"SOFTWARE", "MICROSOFT", "WINDOWS", "CURRENTVERSION">>,
       <<"SOFTWARE", "POLICIES">>, <<"SOFTWARE", "WOW6432NODE">>}
  BY KeysWrittenOut
<1> QED BY <1>1, <1>2 DEF UserContainerKeys

LEMMA MachineKeysWrittenOut ==
  /\ MachineContainerKeys =
       UserContainerKeys
       \cup {<<"SOFTWARE", "CLASSES", k>> : k \in {"APPID", "INTERFACE", "TYPELIB"}}
       \cup {<<"SOFTWARE", "MICROSOFT", "WINDOWS", "CURRENTVERSION", k>> :
               k \in {"APP PATHS", "EXPLORER", "SHAREDDLLS"}}
       \cup {<<"SOFTWARE", "MICROSOFT", "WINDOWS NT">>,
             <<"SOFTWARE", "MICROSOFT", "WINDOWS NT", "CURRENTVERSION">>,
             <<"SOFTWARE", "MICROSOFT", "WINDOWS NT", "CURRENTVERSION", "IMAGE FILE EXECUTION OPTIONS">>,
             <<"SOFTWARE", "CLIENTS">>, <<"SOFTWARE", "POLICIES", "MICROSOFT">>,
             <<"SOFTWARE", "REGISTEREDAPPLICATIONS">>}
  /\ MachineProtectedKeys =
       {<<"SOFTWARE", "MICROSOFT", "CRYPTOGRAPHY">>,
        <<"SOFTWARE", "MICROSOFT", "WINDOWS NT", "CURRENTVERSION", "WINLOGON">>,
        <<"SOFTWARE", "MICROSOFT", "WINDOWS DEFENDER">>,
        <<"SOFTWARE", "POLICIES", "MICROSOFT", "WINDOWS DEFENDER">>}
<1>1. {Classes \o <<k>> : k \in {"APPID", "INTERFACE", "TYPELIB"}} =
      {<<"SOFTWARE", "CLASSES", k>> : k \in {"APPID", "INTERFACE", "TYPELIB"}}
  <2>1. \A k : Classes \o <<k>> = <<"SOFTWARE", "CLASSES", k>>
    BY KeysWrittenOut, Zenon
  <2> QED BY <2>1
<1>2. {CurrentVersion \o <<k>> : k \in {"APP PATHS", "EXPLORER", "SHAREDDLLS"}} =
      {<<"SOFTWARE", "MICROSOFT", "WINDOWS", "CURRENTVERSION", k>> :
         k \in {"APP PATHS", "EXPLORER", "SHAREDDLLS"}}
  <2>1. \A k : CurrentVersion \o <<k>> =
                 <<"SOFTWARE", "MICROSOFT", "WINDOWS", "CURRENTVERSION", k>>
    BY KeysWrittenOut, Zenon
  <2> QED BY <2>1
<1>3. {Microsoft \o <<"WINDOWS NT">>, NtCurrentVersion,
       NtCurrentVersion \o <<"IMAGE FILE EXECUTION OPTIONS">>,
       <<"SOFTWARE", "CLIENTS">>, Policies \o <<"MICROSOFT">>,
       <<"SOFTWARE", "REGISTEREDAPPLICATIONS">>} =
      {<<"SOFTWARE", "MICROSOFT", "WINDOWS NT">>,
       <<"SOFTWARE", "MICROSOFT", "WINDOWS NT", "CURRENTVERSION">>,
       <<"SOFTWARE", "MICROSOFT", "WINDOWS NT", "CURRENTVERSION", "IMAGE FILE EXECUTION OPTIONS">>,
       <<"SOFTWARE", "CLIENTS">>, <<"SOFTWARE", "POLICIES", "MICROSOFT">>,
       <<"SOFTWARE", "REGISTEREDAPPLICATIONS">>}
  <2>1. /\ Microsoft \o <<"WINDOWS NT">> = <<"SOFTWARE", "MICROSOFT", "WINDOWS NT">>
        /\ NtCurrentVersion = <<"SOFTWARE", "MICROSOFT", "WINDOWS NT", "CURRENTVERSION">>
        /\ Policies \o <<"MICROSOFT">> = <<"SOFTWARE", "POLICIES", "MICROSOFT">>
    BY KeysWrittenOut, Zenon
  <2>2. NtCurrentVersion \o <<"IMAGE FILE EXECUTION OPTIONS">> =
          <<"SOFTWARE", "MICROSOFT", "WINDOWS NT", "CURRENTVERSION", "IMAGE FILE EXECUTION OPTIONS">>
    BY KeysWrittenOut, Zenon
  <2> QED BY <2>1, <2>2, Zenon
<1>4. MachineProtectedKeys =
       {<<"SOFTWARE", "MICROSOFT", "CRYPTOGRAPHY">>,
        <<"SOFTWARE", "MICROSOFT", "WINDOWS NT", "CURRENTVERSION", "WINLOGON">>,
        <<"SOFTWARE", "MICROSOFT", "WINDOWS DEFENDER">>,
        <<"SOFTWARE", "POLICIES", "MICROSOFT", "WINDOWS DEFENDER">>}
  BY KeysWrittenOut DEF MachineProtectedKeys
<1> QED BY <1>1, <1>2, <1>3, <1>4 DEF MachineContainerKeys

(* USER_CONTAINER_KEYS leaves no gap ...                                    *)
LEMMA UserKeysHaveNoGap == \A p \in UserContainerKeys : Covered(p, UserContainerKeys)
<1> DEFINE U == UserContainerKeys
<1>1. /\ <<"SOFTWARE", "CLASSES">> \in U /\ <<"SOFTWARE", "CLASSES", "CLSID">> \in U
      /\ <<"SOFTWARE", "MICROSOFT">> \in U /\ <<"SOFTWARE", "MICROSOFT", "WINDOWS">> \in U
      /\ <<"SOFTWARE", "MICROSOFT", "WINDOWS", "CURRENTVERSION">> \in U
      /\ <<"SOFTWARE", "POLICIES">> \in U /\ <<"SOFTWARE", "WOW6432NODE">> \in U
      /\ \A k \in {"RUN", "RUNONCE", "UNINSTALL"} :
           <<"SOFTWARE", "MICROSOFT", "WINDOWS", "CURRENTVERSION", k>> \in U
  BY UserKeysWrittenOut, Zenon
<1> HIDE DEF U
<1>2. /\ Covered(<<"SOFTWARE", "CLASSES">>, U) /\ Covered(<<"SOFTWARE", "MICROSOFT">>, U)
      /\ Covered(<<"SOFTWARE", "POLICIES">>, U) /\ Covered(<<"SOFTWARE", "WOW6432NODE">>, U)
  BY <1>1, TuplesAreCovered, Zenon
<1>3. /\ Covered(<<"SOFTWARE", "CLASSES", "CLSID">>, U)
      /\ Covered(<<"SOFTWARE", "MICROSOFT", "WINDOWS">>, U)
  BY <1>1, TuplesAreCovered, Zenon
<1>4. Covered(<<"SOFTWARE", "MICROSOFT", "WINDOWS", "CURRENTVERSION">>, U)
  BY <1>1, TuplesAreCovered, Zenon
<1>5. \A k \in {"RUN", "RUNONCE", "UNINSTALL"} :
        Covered(<<"SOFTWARE", "MICROSOFT", "WINDOWS", "CURRENTVERSION", k>>, U)
  BY <1>1, TuplesAreCovered, Zenon
<1> QED BY <1>2, <1>3, <1>4, <1>5, UserKeysWrittenOut, Zenon DEF U

(* ... and neither does what it is for the machine.                         *)
LEMMA MachineKeysHaveNoGap == \A p \in MachineKeys : Covered(p, MachineKeys)
<1> DEFINE M == MachineKeys
           Run == <<"SOFTWARE", "MICROSOFT", "WINDOWS", "CURRENTVERSION">>
           Nt  == <<"SOFTWARE", "MICROSOFT", "WINDOWS NT", "CURRENTVERSION">>
<1>1. \A p \in UserContainerKeys : Covered(p, M)
  <2>1. UserContainerKeys \subseteq M
    BY MachineKeysWrittenOut DEF MachineKeys
  <2> QED BY <2>1, UserKeysHaveNoGap, Zenon DEF Covered
<1>2. /\ <<"SOFTWARE", "CLASSES">> \in M /\ <<"SOFTWARE", "MICROSOFT">> \in M
      /\ <<"SOFTWARE", "POLICIES">> \in M /\ <<"SOFTWARE", "MICROSOFT", "WINDOWS">> \in M
      /\ Run \in M
  BY UserKeysWrittenOut, MachineKeysWrittenOut, Zenon DEF MachineKeys
<1>3. /\ <<"SOFTWARE", "MICROSOFT", "WINDOWS NT">> \in M /\ Nt \in M
      /\ <<"SOFTWARE", "MICROSOFT", "WINDOWS NT", "CURRENTVERSION", "IMAGE FILE EXECUTION OPTIONS">> \in M
      /\ <<"SOFTWARE", "CLIENTS">> \in M /\ <<"SOFTWARE", "POLICIES", "MICROSOFT">> \in M
      /\ <<"SOFTWARE", "REGISTEREDAPPLICATIONS">> \in M
      /\ \A k \in {"APPID", "INTERFACE", "TYPELIB"} : <<"SOFTWARE", "CLASSES", k>> \in M
      /\ \A k \in {"APP PATHS", "EXPLORER", "SHAREDDLLS"} :
           <<"SOFTWARE", "MICROSOFT", "WINDOWS", "CURRENTVERSION", k>> \in M
  BY MachineKeysWrittenOut, Zenon DEF MachineKeys
<1>4. /\ <<"SOFTWARE", "MICROSOFT", "CRYPTOGRAPHY">> \in M
      /\ <<"SOFTWARE", "MICROSOFT", "WINDOWS NT", "CURRENTVERSION", "WINLOGON">> \in M
      /\ <<"SOFTWARE", "MICROSOFT", "WINDOWS DEFENDER">> \in M
      /\ <<"SOFTWARE", "POLICIES", "MICROSOFT", "WINDOWS DEFENDER">> \in M
  BY MachineKeysWrittenOut, Zenon DEF MachineKeys
<1> HIDE DEF M
<1>5. /\ \A k \in {"APPID", "INTERFACE", "TYPELIB"} : Covered(<<"SOFTWARE", "CLASSES", k>>, M)
      /\ \A k \in {"APP PATHS", "EXPLORER", "SHAREDDLLS"} :
           Covered(<<"SOFTWARE", "MICROSOFT", "WINDOWS", "CURRENTVERSION", k>>, M)
  BY <1>2, <1>3, TuplesAreCovered, Zenon
<1>6. /\ Covered(<<"SOFTWARE", "CLIENTS">>, M) /\ Covered(<<"SOFTWARE", "REGISTEREDAPPLICATIONS">>, M)
      /\ Covered(<<"SOFTWARE", "MICROSOFT", "WINDOWS NT">>, M)
      /\ Covered(<<"SOFTWARE", "POLICIES", "MICROSOFT">>, M)
      /\ Covered(Nt, M)
      /\ Covered(<<"SOFTWARE", "MICROSOFT", "WINDOWS NT", "CURRENTVERSION",
                   "IMAGE FILE EXECUTION OPTIONS">>, M)
  BY <1>2, <1>3, TuplesAreCovered, Zenon
<1>7. /\ Covered(<<"SOFTWARE", "MICROSOFT", "CRYPTOGRAPHY">>, M)
      /\ Covered(<<"SOFTWARE", "MICROSOFT", "WINDOWS NT", "CURRENTVERSION", "WINLOGON">>, M)
      /\ Covered(<<"SOFTWARE", "MICROSOFT", "WINDOWS DEFENDER">>, M)
      /\ Covered(<<"SOFTWARE", "POLICIES", "MICROSOFT", "WINDOWS DEFENDER">>, M)
  BY <1>2, <1>3, <1>4, TuplesAreCovered, Zenon
<1>8. \A p \in MachineContainerKeys : Covered(p, M)
  BY <1>1, <1>5, <1>6, MachineKeysWrittenOut, Zenon
<1>9. \A p \in MachineProtectedKeys : Covered(p, M)
  BY <1>7, MachineKeysWrittenOut, Zenon
<1> QED BY <1>8, <1>9 DEF M, MachineKeys

(* What the tables of keys have in common: all is under SOFTWARE, and below *)
(* its Classes only what is directly there.                                 *)
LEMMA TopsOfKeys ==
  /\ \A p \in MachineKeys : Len(p) \in 2..5 /\ p[1] = "SOFTWARE" /\ p[2] # "*"
  /\ \A p \in MachineProtectedKeys : p[2] \in {"MICROSOFT", "POLICIES"}
  /\ \A p \in MachineContainerKeys : p[2] = "CLASSES" => Len(p) <= 3
<1>1. \A b, c, d, e : LET p == <<"SOFTWARE", b>>
                          q == <<"SOFTWARE", b, c>>
                          r == <<"SOFTWARE", b, c, d>>
                          s == <<"SOFTWARE", b, c, d, e>>
                      IN  /\ p[1] = "SOFTWARE" /\ p[2] = b /\ Len(p) = 2
                          /\ q[1] = "SOFTWARE" /\ q[2] = b /\ Len(q) = 3
                          /\ r[1] = "SOFTWARE" /\ r[2] = b /\ Len(r) = 4
                          /\ s[1] = "SOFTWARE" /\ s[2] = b /\ Len(s) = 5
  OBVIOUS
<1> DEFINE Good(p) == /\ p[1] = "SOFTWARE" /\ Len(p) \in {2, 3, 4, 5}
                      /\ p[2] \in {"CLASSES", "MICROSOFT", "POLICIES", "WOW6432NODE", "CLIENTS",
                                   "REGISTEREDAPPLICATIONS"}
                      /\ p[2] = "CLASSES" => Len(p) \in {2, 3}
<1>2. \A k : /\ Good(<<"SOFTWARE", "CLASSES", k>>)
             /\ Good(<<"SOFTWARE", "MICROSOFT", "WINDOWS", "CURRENTVERSION", k>>)
             /\ Good(<<"SOFTWARE", "MICROSOFT", "WINDOWS NT", "CURRENTVERSION", k>>)
             /\ Good(<<"SOFTWARE", "MICROSOFT", k>>) /\ Good(<<"SOFTWARE", "POLICIES", k>>)
             /\ Good(<<"SOFTWARE", "MICROSOFT", k, "CURRENTVERSION">>)
  BY <1>1
<1>3. /\ Good(<<"SOFTWARE", "CLASSES">>) /\ Good(<<"SOFTWARE", "MICROSOFT">>)
      /\ Good(<<"SOFTWARE", "POLICIES">>) /\ Good(<<"SOFTWARE", "WOW6432NODE">>)
      /\ Good(<<"SOFTWARE", "CLIENTS">>) /\ Good(<<"SOFTWARE", "REGISTEREDAPPLICATIONS">>)
      /\ Good(<<"SOFTWARE", "POLICIES", "MICROSOFT", "WINDOWS DEFENDER">>)
  BY <1>1
<1>4. \A p \in MachineProtectedKeys : p[2] \in {"MICROSOFT", "POLICIES"}
  <2> DEFINE High(p) == p[2] \in {"MICROSOFT", "POLICIES"}
  <2>1. /\ High(<<"SOFTWARE", "MICROSOFT", "CRYPTOGRAPHY">>)
        /\ High(<<"SOFTWARE", "MICROSOFT", "WINDOWS NT", "CURRENTVERSION", "WINLOGON">>)
        /\ High(<<"SOFTWARE", "MICROSOFT", "WINDOWS DEFENDER">>)
        /\ High(<<"SOFTWARE", "POLICIES", "MICROSOFT", "WINDOWS DEFENDER">>)
    BY <1>1
  <2> HIDE DEF High
  <2>2. \A p \in MachineProtectedKeys : High(p)
    BY <2>1, MachineKeysWrittenOut, Zenon
  <2> QED BY <2>2 DEF High
<1> HIDE DEF Good
<1>5. \A p \in UserContainerKeys : Good(p)
  BY <1>2, <1>3, UserKeysWrittenOut, Zenon
<1>6. \A p \in MachineKeys : Good(p)
  BY <1>2, <1>3, <1>5, MachineKeysWrittenOut, Zenon DEF MachineKeys
<1>7. ASSUME NEW p, Good(p)
      PROVE  /\ Len(p) \in 2..5 /\ p[1] = "SOFTWARE" /\ p[2] # "*"
             /\ p[2] = "CLASSES" => Len(p) <= 3
  <2>1. Len(p) \in {2, 3, 4, 5} /\ p[1] = "SOFTWARE" /\ (p[2] = "CLASSES" => Len(p) \in {2, 3})
    BY <1>7, Zenon DEF Good
  <2>2. p[2] # "*"
    BY <1>7 DEF Good
  <2>3. \A m : (m \in {2, 3, 4, 5} => m \in 2..5) /\ (m \in {2, 3} => m <= 3)
    BY Z3
  <2> QED BY <2>1, <2>2, <2>3, Zenon
<1>8. \A p \in MachineContainerKeys \cup MachineProtectedKeys : p \in MachineKeys
  BY DEF MachineKeys
<1> QED BY <1>4, <1>6, <1>7, <1>8

(* A sequence is one over any set that holds its elements.                  *)
LEMMA SeqOfItsElements ==
  ASSUME NEW S, NEW s \in Seq(S), NEW T, \A i \in 1..Len(s) : s[i] \in T
  PROVE  s \in Seq(T)
OBVIOUS

(* So is a key of a table.                                                  *)
LEMMA KeysAreSeqs ==
  ASSUME NEW p \in MachineKeys, NEW T, \A i \in 1..Len(p) : p[i] \in T
  PROVE  p \in Seq(T)
<1> DEFINE IsSeq(q) == q \in Seq({q[i] : i \in 1..Len(q)})
<1>1. /\ \A a, b : IsSeq(<<a, b>>)
      /\ \A a, b, c : IsSeq(<<a, b, c>>)
      /\ \A a, b, c, d : IsSeq(<<a, b, c, d>>)
      /\ \A a, b, c, d, e : IsSeq(<<a, b, c, d, e>>)
  OBVIOUS
<1> HIDE DEF IsSeq
<1>2. \A q \in UserContainerKeys : IsSeq(q)
  BY <1>1, UserKeysWrittenOut, Zenon
<1>3. \A k : /\ IsSeq(<<"SOFTWARE", "CLASSES", k>>)
             /\ IsSeq(<<"SOFTWARE", "MICROSOFT", k>>)
             /\ IsSeq(<<"SOFTWARE", "MICROSOFT", "WINDOWS", "CURRENTVERSION", k>>)
             /\ IsSeq(<<"SOFTWARE", "MICROSOFT", "WINDOWS NT", "CURRENTVERSION", k>>)
             /\ IsSeq(<<"SOFTWARE", "MICROSOFT", k, "CURRENTVERSION">>)
             /\ IsSeq(<<"SOFTWARE", k>>)
             /\ IsSeq(<<"SOFTWARE", "POLICIES", k>>)
             /\ IsSeq(<<"SOFTWARE", "POLICIES", "MICROSOFT", k>>)
  BY <1>1, Zenon
<1>4. \A q \in MachineContainerKeys : IsSeq(q)
  BY <1>2, <1>3, MachineKeysWrittenOut, Zenon
<1>5. \A q \in MachineProtectedKeys : IsSeq(q)
  BY <1>3, MachineKeysWrittenOut, Zenon
<1>6. p \in Seq({p[i] : i \in 1..Len(p)})
  BY <1>4, <1>5 DEF IsSeq, MachineKeys
<1> QED BY <1>6, SeqOfItsElements

(* The other view drops the second component, and nothing else.             *)
LEMMA NativeViewProperties ==
  ASSUME NEW S, NEW components \in Seq(S), Len(components) >= 2
  PROVE  /\ NativeView(components) \in Seq(S)
         /\ Len(NativeView(components)) = Len(components) - 1
         /\ NativeView(components)[1] = components[1]
         /\ \A i \in 2..(Len(components) - 1) : NativeView(components)[i] = components[i + 1]
<1> DEFINE n == Len(components)
           s == <<components[1]>>
           t == SubSeq(components, 3, n)
<1>1. n \in Nat /\ n >= 2 /\ \A i \in 1..n : components[i] \in S
  OBVIOUS
<1>2. s \in Seq(S) /\ Len(s) = 1 /\ s[1] = components[1]
  BY <1>1
<1>3. /\ t \in Seq(S) /\ Len(t) = n - 2
      /\ \A i \in 1..(n - 2) : t[i] = components[i + 2]
  <2>1. \A i \in 3..n : components[i] \in S
    BY <1>1
  <2>2. /\ t \in Seq(S)
        /\ Len(t) = IF 3 <= n THEN n - 3 + 1 ELSE 0
        /\ \A i \in 1..(n - 3 + 1) : t[i] = components[3 + i - 1]
    <3> HIDE DEF n
    <3> QED BY <1>1, <2>1, SubSeqProperties
  <2> HIDE DEF n, t
  <2>3. \A i \in 1..(n - 2) : i \in 1..(n - 3 + 1) /\ 3 + i - 1 = i + 2
    BY <1>1
  <2>4. Len(t) = n - 2
    BY <1>1, <2>2
  <2> QED BY <2>2, <2>3, <2>4
<1> HIDE DEF s, t
<1>4. /\ s \o t \in Seq(S) /\ Len(s \o t) = Len(s) + Len(t)
      /\ \A i \in 1..(Len(s) + Len(t)) : (s \o t)[i] = IF i <= Len(s) THEN s[i] ELSE t[i - Len(s)]
  BY <1>2, <1>3, ConcatProperties, Zenon
<1>5. NativeView(components) = s \o t
  BY DEF NativeView, s, t
<1> DEFINE v == s \o t
<1> HIDE DEF v, n
<1>6. /\ v \in Seq(S) /\ Len(v) = n - 1 /\ n >= 2
      /\ \A i \in 1..(n - 1) : v[i] = IF i <= 1 THEN s[i] ELSE t[i - 1]
  BY <1>1, <1>2, <1>3, <1>4 DEF v, n
<1>7. v[1] = components[1]
  BY <1>1, <1>2, <1>6
<1>8. \A i \in 2..(n - 1) : v[i] = components[i + 1]
  <2>1. \A i \in 2..(n - 1) : /\ i \in 1..(n - 1) /\ ~(i <= 1) /\ i - 1 \in 1..(n - 2)
                              /\ i - 1 + 2 = i + 1
    BY <1>1
  <2> QED BY <1>3, <1>6, <2>1
<1> QED BY <1>5, <1>6, <1>7, <1>8 DEF v, n

-------------------------------------------------------------------------------
(* What a key of the user that passes is not above (evaluate_user_key).     *)
LEMMA NothingAboveAUserKey ==
  ASSUME NEW S, NEW components \in Seq(S), EvaluateUserKey(components) = "Ok",
         NEW place \in UserContainerKeys, Len(components) <= Len(place)
  PROVE  ~\A i \in 1..Len(components) : place[i] \in {"*", components[i]}
<1> SUFFICES ASSUME \A i \in 1..Len(components) : place[i] \in {"*", components[i]} PROVE FALSE
  OBVIOUS
<1>1. Len(components) >= 2 /\ \A p \in UserContainerKeys : ~EqualsPattern(components, p)
  BY DEF EvaluateUserKey, ShallowFloor
<1>2. Len(place) \in Nat
  <2>1. place \in MachineKeys
    BY MachineKeysWrittenOut DEF MachineKeys
  <2> QED BY <2>1, TopsOfKeys
<1>3. Len(components) \in 2..Len(place)
  BY <1>1, <1>2
<1>4. PICK q \in UserContainerKeys :
        Len(q) = Len(components) /\ \A i \in 1..Len(components) : q[i] = place[i]
  BY <1>3, UserKeysHaveNoGap DEF Covered
<1>5. EqualsPattern(components, q)
  BY <1>3, <1>4 DEF EqualsPattern, StartsWithPattern
<1> QED BY <1>1, <1>5

(* A key under SOFTWARE that passes is of no table in any view              *)
(* (evaluate_machine_key).                                                  *)
LEMMA AllowedInSoftware ==
  ASSUME NEW components, NEW exceptions, components # <<>>, components[1] = "SOFTWARE",
         EvaluateMachineKey(components, exceptions) = "Ok"
  PROVE  /\ ~(Len(components) < 2)
         /\ \A view \in Views(components) :
              /\ \A p \in MachineProtectedKeys : ~StartsWithPattern(view, p)
              /\ \A p \in MachineKeys : ~EqualsPattern(view, p)
<1>1. ~SlicesACharacter(components) /\ ~IsServicesKey(components) /\ components[1] # "SYSTEM"
  BY DEF IsServicesKey, SlicesACharacter
<1>2. ~(components[1] \in BcdHives \cup ProtectedMachineHives)
  BY DEF EvaluateMachineKey
<1>3. ~\E view \in Views(components) :
         \/ \E p \in MachineProtectedKeys : StartsWithPattern(view, p)
         \/ \E p \in MachineContainerKeys : EqualsPattern(view, p)
  BY <1>1, <1>2 DEF EvaluateMachineKey
<1>4. ShallowFloor(components) = "Ok"
  BY <1>1, <1>2, <1>3, Zenon DEF EvaluateMachineKey
<1> QED BY <1>3, <1>4 DEF ShallowFloor, MachineKeys, EqualsPattern

(* A key of a table as it is called in the 32-bit view.                     *)
LEMMA InTheOtherView ==
  ASSUME NEW p \in MachineKeys
  PROVE  LET place == Wow6432Node \o Tail(p)
         IN  /\ Len(place) = Len(p) + 1
             /\ place[1] = "SOFTWARE" /\ place[2] = "WOW6432NODE"
             /\ \A i \in 3..(Len(p) + 1) : place[i] = p[i - 1]
<1> DEFINE s == Wow6432Node
           t == Tail(p)
           m == Len(p)
           S == {p[i] : i \in 1..m} \cup {"SOFTWARE", "WOW6432NODE"}
<1>1. m \in Nat /\ m >= 2
  BY TopsOfKeys
<1>2. s \in Seq(S) /\ Len(s) = 2 /\ s[1] = "SOFTWARE" /\ s[2] = "WOW6432NODE"
  BY DEF Wow6432Node
<1>3. t \in Seq(S) /\ Len(t) = m - 1 /\ \A i \in 1..(m - 1) : t[i] = p[i + 1]
  <2>1. p \in Seq(S)
    <3>1. \A i \in 1..m : p[i] \in S
      OBVIOUS
    <3> HIDE DEF S
    <3> QED BY <3>1, KeysAreSeqs
  <2> HIDE DEF S
  <2> QED BY <1>1, <2>1
<1> HIDE DEF s, t, S, m
<1>4. /\ s \o t \in Seq(S) /\ Len(s \o t) = Len(s) + Len(t)
      /\ \A i \in 1..(Len(s) + Len(t)) : (s \o t)[i] = IF i <= Len(s) THEN s[i] ELSE t[i - Len(s)]
  BY <1>2, <1>3, ConcatProperties, Zenon
<1> DEFINE v == s \o t
<1> HIDE DEF v
<1>5. /\ Len(v) = m + 1
      /\ \A i \in 1..(m + 1) : v[i] = IF i <= 2 THEN s[i] ELSE t[i - 2]
  BY <1>1, <1>2, <1>3, <1>4 DEF v
<1>6. v[1] = "SOFTWARE" /\ v[2] = "WOW6432NODE"
  BY <1>1, <1>2, <1>5
<1>7. \A i \in 3..(m + 1) : v[i] = p[i - 1]
  <2>1. \A i \in 3..(m + 1) : /\ i \in 1..(m + 1) /\ ~(i <= 2) /\ i - 2 \in 1..(m - 1)
                              /\ i - 2 + 1 = i - 1
    BY <1>1
  <2> QED BY <1>3, <1>5, <2>1
<1> QED BY <1>5, <1>6, <1>7 DEF v, s, t, m

(* What a key of the machine that passes is not above, in its own view or   *)
(* in the 32-bit one (evaluate_machine_key).                                *)
LEMMA NothingAboveAMachineKey ==
  ASSUME NEW S, NEW components \in Seq(S), NEW exceptions,
         EvaluateMachineKey(components, exceptions) = "Ok",
         NEW p \in MachineKeys, NEW place \in {p, Wow6432Node \o Tail(p)},
         Len(components) <= Len(place)
  PROVE  ~\A i \in 1..Len(components) : place[i] \in {"*", components[i]}
<1> DEFINE n == Len(components)
           native == NativeView(components)
<1> SUFFICES ASSUME \A i \in 1..n : place[i] \in {"*", components[i]} PROVE FALSE
  OBVIOUS
<1>1. n \in Nat /\ components # <<>> /\ n >= 1
  BY AllowedMachineKey
<1>2. Len(p) \in 2..5 /\ p[1] = "SOFTWARE"
  BY TopsOfKeys
<1>3. /\ Len(Wow6432Node \o Tail(p)) = Len(p) + 1
      /\ (Wow6432Node \o Tail(p))[1] = "SOFTWARE" /\ (Wow6432Node \o Tail(p))[2] = "WOW6432NODE"
      /\ \A i \in 3..(Len(p) + 1) : (Wow6432Node \o Tail(p))[i] = p[i - 1]
  BY <1>2, InTheOtherView
<1>4. components[1] = "SOFTWARE"
  BY <1>1, <1>2, <1>3
<1>5. /\ n >= 2
      /\ \A view \in Views(components) : \A q \in MachineKeys : ~EqualsPattern(view, q)
  BY <1>1, <1>4, AllowedInSoftware
<1>6. CASE place = p
  <2>1. n \in 2..Len(p)
    BY <1>1, <1>2, <1>5, <1>6
  <2>2. PICK q \in MachineKeys : Len(q) = n /\ \A i \in 1..n : q[i] = p[i]
    BY <2>1, MachineKeysHaveNoGap DEF Covered
  <2>3. EqualsPattern(components, q)
    BY <1>1, <1>6, <2>2 DEF EqualsPattern, StartsWithPattern
  <2> QED BY <1>5, <2>3 DEF Views
<1>7. CASE place = Wow6432Node \o Tail(p)
  <2>1. components[2] = "WOW6432NODE"
    BY <1>1, <1>3, <1>5, <1>7
  <2>2. StartsWithPattern(components, Wow6432Node)
    BY <1>1, <1>4, <1>5, <2>1 DEF StartsWithPattern, Wow6432Node
  <2>3. n # 2
    <3>1. Wow6432Node \in MachineKeys
      BY DEF MachineKeys, MachineContainerKeys, UserContainerKeys
    <3>2. n = 2 => EqualsPattern(components, Wow6432Node)
      BY <2>2 DEF EqualsPattern, Wow6432Node
    <3> QED BY <1>5, <3>1, <3>2 DEF Views
  <2>4. native \in Views(components)
    BY <2>2 DEF Views
  <2>5. /\ Len(native) = n - 1 /\ native[1] = components[1]
        /\ \A i \in 2..(n - 1) : native[i] = components[i + 1]
    BY <1>5, NativeViewProperties
  <2> HIDE DEF native
  <2>6. n - 1 \in 2..Len(p) /\ n <= Len(p) + 1
    <3>1. n <= Len(p) + 1
      BY <1>3, <1>7
    <3>2. n \in Nat /\ n >= 2 /\ n # 2 /\ Len(p) \in Nat
      BY <1>1, <1>2, <1>5, <2>3
    <3> HIDE DEF n
    <3> QED BY <3>1, <3>2
  <2>7. PICK q \in MachineKeys : Len(q) = n - 1 /\ \A i \in 1..(n - 1) : q[i] = p[i]
    BY <2>6, MachineKeysHaveNoGap DEF Covered
  <2>8. \A i \in 1..(n - 1) : q[i] \in {"*", native[i]}
    <3> SUFFICES ASSUME NEW i \in 1..(n - 1) PROVE q[i] \in {"*", native[i]}
      OBVIOUS
    <3>1. CASE i = 1
      BY <1>2, <1>4, <2>5, <2>7, <3>1
    <3>2. CASE i # 1
      <4>1. i \in 2..(n - 1) /\ i + 1 \in 3..(Len(p) + 1) /\ i + 1 \in 1..n /\ i + 1 - 1 = i
        BY <1>1, <1>2, <2>6, <3>2
      <4>2. place[i + 1] = p[i] /\ place[i + 1] \in {"*", components[i + 1]}
        BY <1>3, <1>7, <4>1
      <4> QED BY <2>5, <2>7, <4>1, <4>2
    <3> QED BY <3>1, <3>2
  <2>9. EqualsPattern(native, q)
    BY <2>5, <2>6, <2>7, <2>8 DEF EqualsPattern, StartsWithPattern
  <2> QED BY <1>5, <2>4, <2>9
<1> QED BY <1>6, <1>7

(* Every key of the user's table has a length.                              *)
LEMMA UserKeysHaveLengths == \A p \in UserContainerKeys : Len(p) \in Nat
<1>1. \A p \in UserContainerKeys : p \in MachineKeys
  BY MachineKeysWrittenOut DEF MachineKeys
<1> QED BY <1>1, TopsOfKeys

(* A key of a table below the root of any one user.                         *)
LEMMA ForAnyUser ==
  ASSUME NEW p \in UserContainerKeys
  PROVE  LET place == <<"*">> \o p
         IN  Len(place) = Len(p) + 1 /\ \A i \in 1..Len(p) : place[i + 1] = p[i]
<1> DEFINE s == <<"*">>
           m == Len(p)
           S == {p[i] : i \in 1..m} \cup {"*"}
<1>1. m \in Nat
  BY UserKeysHaveLengths
<1>2. s \in Seq(S) /\ Len(s) = 1
  OBVIOUS
<1>3. p \in Seq(S)
  <2>1. p \in MachineKeys
    BY MachineKeysWrittenOut DEF MachineKeys
  <2>2. \A i \in 1..m : p[i] \in S
    OBVIOUS
  <2> HIDE DEF S
  <2> QED BY <2>1, <2>2, KeysAreSeqs
<1> HIDE DEF s, S
<1>4. /\ Len(s \o p) = Len(s) + Len(p)
      /\ \A i \in 1..(Len(s) + Len(p)) : (s \o p)[i] = IF i <= Len(s) THEN s[i] ELSE p[i - Len(s)]
  BY <1>2, <1>3, ConcatProperties, Zenon
<1> DEFINE v == s \o p
<1> HIDE DEF v, m
<1>5. Len(v) = m + 1 /\ \A i \in 1..(m + 1) : v[i] = IF i <= 1 THEN s[i] ELSE p[i - 1]
  BY <1>1, <1>2, <1>4 DEF v, m
<1>6. \A i \in 1..m : v[i + 1] = p[i]
  <2>1. \A i \in 1..m : i + 1 \in 1..(m + 1) /\ ~(i + 1 <= 1) /\ i + 1 - 1 = i
    BY <1>1
  <2> QED BY <1>5, <2>1
<1> QED BY <1>5, <1>6 DEF v, s, m

-------------------------------------------------------------------------------
(* A key of the 32-bit view that passes would pass in the other one, too    *)
(* (evaluate_machine_key).                                                  *)
LEMMA NativeViewPasses ==
  ASSUME NEW S, NEW components \in Seq(S), NEW exceptions, Len(components) >= 3,
         StartsWithPattern(components, Wow6432Node), components[3] # "WOW6432NODE",
         EvaluateMachineKey(components, exceptions) = "Ok"
  PROVE  EvaluateMachineKey(NativeView(components), exceptions) = "Ok"
<1> DEFINE v == NativeView(components)
           n == Len(components)
<1>1. n \in Nat /\ components # <<>>
  OBVIOUS
<1>2. components[1] = "SOFTWARE"
  BY DEF StartsWithPattern, Wow6432Node
<1>3. /\ Len(v) = n - 1 /\ v[1] = "SOFTWARE" /\ v[2] = components[3]
  <2>1. n >= 2 /\ 2 \in 2..(n - 1)
    BY <1>1
  <2>2. /\ Len(v) = n - 1 /\ v[1] = components[1]
        /\ \A i \in 2..(n - 1) : v[i] = components[i + 1]
    BY <2>1, NativeViewProperties
  <2> HIDE DEF v, n
  <2>3. v[2] = components[2 + 1]
    BY <2>1, <2>2
  <2> QED BY <1>2, <2>2, <2>3
<1>4. v \in Views(components)
  BY DEF Views
<1>5. \A view \in Views(components) :
        /\ \A p \in MachineProtectedKeys : ~StartsWithPattern(view, p)
        /\ \A p \in MachineKeys : ~EqualsPattern(view, p)
  BY <1>1, <1>2, AllowedInSoftware
<1>6. components[1] \notin BcdHives \cup ProtectedMachineHives
  BY <1>1 DEF EvaluateMachineKey
<1> HIDE DEF v
<1>7. Views(v) = {v}
  <2>1. ~StartsWithPattern(v, Wow6432Node)
    BY <1>3 DEF StartsWithPattern, Wow6432Node
  <2> QED BY <2>1 DEF Views
<1>8. /\ ~SlicesACharacter(v) /\ ~IsServicesKey(v) /\ v[1] # "SYSTEM"
      /\ v[1] \notin BcdHives \cup ProtectedMachineHives
  BY <1>2, <1>3, <1>6 DEF IsServicesKey, SlicesACharacter
<1>9. ~\E view \in Views(v) :
         \/ \E p \in MachineProtectedKeys : StartsWithPattern(view, p)
         \/ \E p \in MachineContainerKeys : EqualsPattern(view, p)
  BY <1>4, <1>5, <1>7 DEF MachineKeys
<1>10. ~(Len(v) < 2)
  BY <1>1, <1>3
<1> QED BY <1>8, <1>9, <1>10, Zenon DEF v, EvaluateMachineKey, ShallowFloor

(* A key of two components or more below Classes passes wherever it is      *)
(* judged (evaluate_machine_key).                                           *)
LEMMA DeepInClassesPasses ==
  ASSUME NEW S, NEW components \in Seq(S), NEW exceptions, ~(Len(components) < 2)
  PROVE  EvaluateMachineKey(Classes \o components, exceptions) = "Ok"
<1> DEFINE m == Len(components)
           T == S \cup {"SOFTWARE", "CLASSES"}
           v == Classes \o components
<1>1. m \in Nat /\ m >= 2
  OBVIOUS
<1>2. Classes \in Seq(T) /\ Len(Classes) = 2 /\ Classes[1] = "SOFTWARE" /\ Classes[2] = "CLASSES"
  BY DEF Classes
<1>3. components \in Seq(T)
  OBVIOUS
<1> HIDE DEF T
<1>4. /\ Len(v) = Len(Classes) + Len(components)
      /\ \A i \in 1..(Len(Classes) + Len(components)) :
            v[i] = IF i <= Len(Classes) THEN Classes[i] ELSE components[i - Len(Classes)]
  BY <1>2, <1>3, ConcatProperties, Zenon
<1> HIDE DEF v, m
<1>5. Len(v) = m + 2 /\ v[1] = "SOFTWARE" /\ v[2] = "CLASSES"
  BY <1>1, <1>2, <1>4 DEF m
<1>6. v[1] \notin BcdHives \cup ProtectedMachineHives
  <2>1. "SOFTWARE" \notin ProtectedMachineHives
    BY DEF ProtectedMachineHives
  <2> QED BY <1>5, <2>1, DenyListAssumption
<1>7. ~SlicesACharacter(v) /\ ~IsServicesKey(v) /\ v[1] # "SYSTEM"
  BY <1>5 DEF IsServicesKey, SlicesACharacter
<1>8. Views(v) = {v}
  <2>1. ~StartsWithPattern(v, Wow6432Node)
    BY <1>5 DEF StartsWithPattern, Wow6432Node
  <2> QED BY <2>1 DEF Views
<1>9. ASSUME NEW p \in MachineProtectedKeys PROVE ~StartsWithPattern(v, p)
  <2>1. p[2] \in {"MICROSOFT", "POLICIES"} /\ 2 \in 1..Len(p)
    BY TopsOfKeys DEF MachineKeys
  <2> QED BY <1>5, <2>1 DEF StartsWithPattern
<1>10. ASSUME NEW p \in MachineContainerKeys PROVE ~EqualsPattern(v, p)
  <2>1. Len(p) \in 2..5 /\ p[2] # "*" /\ (p[2] = "CLASSES" => Len(p) <= 3)
    BY TopsOfKeys DEF MachineKeys
  <2>2. Len(p) = Len(v) => p[2] # v[2]
    BY <1>1, <1>5, <2>1
  <2> QED BY <1>5, <2>1, <2>2 DEF EqualsPattern, StartsWithPattern
<1>11. ~(Len(v) < 2)
  BY <1>1, <1>5
<1> QED BY <1>6, <1>7, <1>8, <1>9, <1>10, <1>11, Zenon DEF v, EvaluateMachineKey, ShallowFloor
================================================================================
