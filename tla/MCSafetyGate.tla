------------------------------ MODULE MCSafetyGate -----------------------------
(***************************************************************************)
(* Paths for TLC.  MICROS~1 is an alias of Microsoft on this machine, and  *)
(* BACKUP~1 a long name that only looks like one.                          *)
(***************************************************************************)
EXTENDS SafetyGate

MCLongName == [w \in {"MICROS~1"} |-> "MICROSOFT"]

Raw(words, trails, streams) == [word : words, trails : trails, stream : streams]
Trails == {"nothing", "a dot", "dots and spaces"}

(* The words the tables tell apart, written plainly, and a few of them in   *)
(* every other way.                                                         *)
MCRawComponents ==
  Raw({"WINDOWS", "SYSTEM32", "DRIVERS", "VGK.SYS", "NTFS.SYS", "USERS", "VENDOR", "APPDATA",
       "LOCAL", "MICROSOFT", "NTUSER.DAT", "STEAMAPPS", "PROGRAMDATA", "MICROS~1",
       "BACKUP~1"}, {"nothing"}, {FALSE})
  \cup Raw({"MICROSOFT", "PROGRAMDATA"}, Trails, {FALSE})
  \cup Raw({"MICROSOFT"}, {"nothing"}, {TRUE})

(* A driver of the entry's own, written with a folder, one of Windows, and  *)
(* a blank.                                                                 *)
MCDrivers == {<<"DRIVERS", "VGK.SYS">>, <<"NTFS.SYS">>, <<"">>}
================================================================================
