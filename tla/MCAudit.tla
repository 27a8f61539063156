-------------------------------- MODULE MCAudit --------------------------------
(* Audit with three catalogs.  The first has an entry with a service and a *)
(* driver registered under two names, and an entry that names no publisher. *)
(* The second has an entry with files in two game libraries, redirected     *)
(* keys of which one is refused and a template that does not expand, and an *)
(* entry whose directory is, on this machine, under a protected one.  The   *)
(* only publisher of the third's is Microsoft's attestation.                *)
EXTENDS Audit

NamedEntries == <<
  [services |-> <<"vgc">>, drivers |-> <<"vgk.sys">>, paths |-> <<>>,
   registry |-> <<>>, authenticode_cn |-> {"Vendor"}],
  [services |-> <<>>, drivers |-> <<>>, paths |-> <<"own">>,
   registry |-> <<>>, authenticode_cn |-> {}] >>

FileEntries == <<
  [services |-> <<>>, drivers |-> <<>>, paths |-> <<"library", "typo">>,
   registry |-> <<[key |-> "HKLM Vendor", view |-> "both"],
                  [key |-> "HKLM Windows", view |-> "64"]>>,
   authenticode_cn |-> {"Vendor"}],
  [services |-> <<>>, drivers |-> <<>>, paths |-> <<"data">>,
   registry |-> <<>>, authenticode_cn |-> {"Vendor"}] >>

AttestedEntries == <<
  [services |-> <<"ace">>, drivers |-> <<>>, paths |-> <<>>,
   registry |-> <<[key |-> "HKLM ACE", view |-> "32"],
                  [key |-> "HKCU Vendor", view |-> "both"]>>,
   authenticode_cn |-> {"Attestation"}] >>

MCCatalogs == {NamedEntries, FileEntries, AttestedEntries}
MCExpansions == [library |-> {"C:ac.exe", "D:ac.exe"}, data |-> {"C:windows data"},
                 own |-> {"C:own.exe"}]
MCSteamFolders == {<<"C:", "Steam">>}
MCEpicGames == "game.item" :> <<"D:", "Games", "game">>
MCWithin == "C:ac.exe" :> <<"C:", "Steam">> @@ "D:ac.exe" :> <<"D:", "Games">>
MCDriverKeys == {[name |-> "vgk", file |-> "vgk.sys"], [name |-> "vgk2", file |-> "vgk.sys"]}
================================================================================
