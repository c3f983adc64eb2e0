----------------------------- MODULE DevConfig -----------------------------
(***************************************************************************)
(* The device configuration: settings in RAM that the shell and the web    *)
(* interface change, a task that writes them to PART_CONFIG when it is     *)
(* asked to, and their way back at boot (devConfig.c).  Power may fail     *)
(* between any two steps.                                                  *)
(*                                                                         *)
(* The settings are a level and a network; a network is a name and a key   *)
(* of its own, empty for an open one.  The table of offsets (FATE) is not  *)
(* modelled: at boot the parameters are read at a fixed place.             *)
(***************************************************************************)
EXTENDS Naturals

CONSTANTS Levels,       \* the legal debug levels
          Report,       \* DLEVEL_REPORT
          Networks,     \* what can be entered: records of ssid and psk
          Empty,        \* the empty string
          Erased,       \* what an erased cell reads as
          MaxChanges,   \* bound: changes and requests
          MaxFailures   \* bound: power failures and failed writes

ASSUME LevelAssumption == Report \in Levels /\ Erased \notin Levels
ASSUME NetworkAssumption ==
  /\ Empty # Erased
  /\ \A n \in Networks : n.ssid \notin {Empty, Erased} /\ n.psk # Erased
ASSUME BoundAssumption == MaxChanges \in Nat /\ MaxFailures \in Nat

VARIABLES ram,        \* g_pstDevParam->stDevParam
          bySave,     \* the request to write it
          magic,      \* the header in flash carries DEV_MNG_MAGIC
          flash,      \* the parameters in flash
          up,         \* waitDevCfgModuleInit
          writer,     \* where rebuildCfg stands, and for whom
          shell,      \* the shell's debugLevel command, with its copy
          web,        \* ESP8266_WifiCredSave
          changes, failures,
          crossed     \* a change met a save, or a write failed

vars == <<ram, bySave, magic, flash, up, writer, shell, web, changes, failures, crossed>>

Settings == [level |-> Report, ssid |-> Empty, psk |-> Empty]    \* devInfoParamRestore

NoSettings == [level |-> Erased, ssid |-> Erased, psk |-> Erased]

Idle == [at |-> "idle", copy |-> Settings]

Init == /\ ram = Settings /\ bySave = FALSE
        /\ magic = FALSE /\ flash = NoSettings
        /\ up = FALSE
        /\ writer = "off"
        /\ shell = Idle /\ web = "idle"
        /\ changes = 0 /\ failures = 0
        /\ crossed = FALSE

-----------------------------------------------------------------------------
(* Boot: devPara_init                                                      *)

\* wifi_nv_str_ok: neither erased nor empty.
StringOk(s) == s \notin {Empty, Erased}

LevelOf(p) == IF p.level \in Levels THEN p.level ELSE Report

\* Mutant: only what is erased is dropped, not what is empty beside it.
Healed_Each(p) == [level |-> LevelOf(p),
                   ssid |-> IF p.ssid = Erased THEN Empty ELSE p.ssid,
                   psk |-> IF p.psk = Erased THEN Empty ELSE p.psk]

\* A level that is none becomes REPORT; unless name and key are both
\* strings, both are dropped.
Healed(p) ==
  [level |-> LevelOf(p),
   ssid |-> IF StringOk(p.ssid) /\ StringOk(p.psk) THEN p.ssid ELSE Empty,
   psk |-> IF StringOk(p.ssid) /\ StringOk(p.psk) THEN p.psk ELSE Empty]

\* Mutant: what was put right stays in RAM.
WriteBack_Never(p) == FALSE

\* What was put right, or only found empty, is written back.
WriteBack(p) == p.level \notin Levels \/ ~StringOk(p.ssid) \/ ~StringOk(p.psk)

Load == /\ ram' = Healed(flash)
        /\ bySave' = WriteBack(flash)
        /\ up' = TRUE
        /\ writer' = "idle"

BootFound ==
  /\ writer = "off" /\ magic
  /\ Load
  /\ UNCHANGED <<magic, flash, shell, web, changes, failures, crossed>>

\* Without the magic, or when the first save was cut short and used_size
\* ends before the parameters, the defaults are written and read again.
BootRestores ==
  /\ writer = "off" /\ (~magic \/ flash.psk = Erased)
  /\ ram' = Settings
  /\ writer' = "erase"
  /\ UNCHANGED <<bySave, magic, flash, up, shell, web, changes, failures, crossed>>

-----------------------------------------------------------------------------
(* rebuildCfg, in the boot or in devParam_Mng_task                         *)

Writing == writer \in {"erase", "head", "ssid", "psk", "done"}

TaskStarts ==
  /\ up /\ writer = "idle" /\ bySave
  /\ writer' = "erase"
  /\ UNCHANGED <<ram, bySave, magic, flash, up, shell, web, changes, failures, crossed>>

\* The write of the header, at offset 0: it erases the sector.
EraseAll ==
  /\ writer = "erase"
  /\ magic' = FALSE /\ flash' = NoSettings
  /\ writer' = "head"
  /\ UNCHANGED <<ram, bySave, up, shell, web, changes, failures, crossed>>

WriteHeader ==
  /\ writer = "head"
  /\ magic' = TRUE
  /\ writer' = "ssid"
  /\ UNCHANGED <<ram, bySave, flash, up, shell, web, changes, failures, crossed>>

\* The parameters are read without the lock while they are programmed.
WriteFirst ==
  /\ writer = "ssid"
  /\ flash' = [flash EXCEPT !.level = ram.level, !.ssid = ram.ssid]
  /\ writer' = "psk"
  /\ UNCHANGED <<ram, bySave, magic, up, shell, web, changes, failures, crossed>>

WriteRest ==
  /\ writer = "psk"
  /\ flash' = [flash EXCEPT !.psk = ram.psk]
  /\ writer' = "done"
  /\ UNCHANGED <<ram, bySave, magic, up, shell, web, changes, failures, crossed>>

Failed == failures < MaxFailures /\ failures' = failures + 1

\* A write that fails ends rebuildCfg; nobody looks at its result.
WriteFails ==
  /\ writer \in {"head", "ssid", "psk"} /\ Failed
  /\ writer' = "done"
  /\ crossed' = TRUE
  /\ UNCHANGED <<ram, bySave, magic, flash, up, shell, web, changes>>

\* The task takes the request back, whatever came meanwhile.
TaskDone ==
  /\ up /\ writer = "done"
  /\ bySave' = FALSE
  /\ writer' = "idle"
  /\ UNCHANGED <<ram, magic, flash, up, shell, web, changes, failures, crossed>>

\* The boot reads what it wrote; without a header the module stays closed.
BootRereads ==
  /\ ~up /\ writer = "done"
  /\ IF magic THEN Load
     ELSE writer' = "closed" /\ UNCHANGED <<ram, bySave, up>>
  /\ UNCHANGED <<magic, flash, shell, web, changes, failures, crossed>>

Writer == \/ TaskStarts \/ EraseAll \/ WriteHeader \/ WriteFirst \/ WriteRest
          \/ TaskDone \/ BootRereads \/ BootFound \/ BootRestores

-----------------------------------------------------------------------------
(* Those who change settings                                               *)

Counted == changes < MaxChanges /\ changes' = changes + 1

\* Whether a change or a request meets a save that is under way.
Crosses == crossed' = (crossed \/ Writing)

\* debugLevel: the settings are copied, the copy changed and put back.
ShellReads ==
  /\ up /\ shell.at = "idle" /\ Counted
  /\ shell' = [at |-> "copied", copy |-> ram]
  /\ UNCHANGED <<ram, bySave, magic, flash, up, writer, web, failures, crossed>>

ShellSets ==
  /\ shell.at = "copied"
  /\ \E l \in Levels : ram' = [shell.copy EXCEPT !.level = l]
  /\ shell' = [at |-> "set", copy |-> shell.copy]
  /\ Crosses
  /\ UNCHANGED <<bySave, magic, flash, up, writer, web, changes, failures>>

\* devParamSave
ShellSaves ==
  /\ shell.at = "set"
  /\ bySave' = TRUE
  /\ shell' = Idle
  /\ Crosses
  /\ UNCHANGED <<ram, magic, flash, up, writer, web, changes, failures>>

\* dhcp: a request without a change.
ShellSavesOnly ==
  /\ up /\ shell.at = "idle" /\ Counted
  /\ bySave' = TRUE
  /\ Crosses
  /\ UNCHANGED <<ram, magic, flash, up, writer, shell, web, failures>>

\* Mutant: the request to save is forgotten.
WebSets_Only ==
  /\ up /\ web = "idle" /\ Counted
  /\ \E n \in Networks : ram' = [ram EXCEPT !.ssid = n.ssid, !.psk = n.psk]
  /\ Crosses
  /\ UNCHANGED <<bySave, magic, flash, up, writer, shell, web, failures>>

\* setWifiStaParam
WebSets ==
  /\ up /\ web = "idle" /\ Counted
  /\ \E n \in Networks : ram' = [ram EXCEPT !.ssid = n.ssid, !.psk = n.psk]
  /\ web' = "set"
  /\ Crosses
  /\ UNCHANGED <<bySave, magic, flash, up, writer, shell, failures>>

WebSaves ==
  /\ web = "set"
  /\ bySave' = TRUE
  /\ web' = "idle"
  /\ Crosses
  /\ UNCHANGED <<ram, magic, flash, up, writer, shell, changes, failures>>

\* The partition's header is rewritten behind the parameters: without it
\* nothing is read any more.
PowerFails ==
  /\ Failed
  /\ magic' \in {magic, magic /\ writer # "psk"}
  /\ ram' = Settings /\ bySave' = FALSE
  /\ up' = FALSE
  /\ writer' = "off"
  /\ shell' = Idle /\ web' = "idle"
  /\ UNCHANGED <<flash, changes, crossed>>

Next == \/ Writer \/ WriteFails \/ PowerFails
        \/ ShellReads \/ ShellSets \/ ShellSaves \/ ShellSavesOnly
        \/ WebSets \/ WebSaves

\* Every task that has begun goes on; nobody has to change anything.
Spec == /\ Init /\ [][Next]_vars
        /\ WF_vars(Writer)
        /\ WF_vars(ShellSets) /\ WF_vars(ShellSaves) /\ WF_vars(WebSaves)

-----------------------------------------------------------------------------
Counters == changes \in 0 .. MaxChanges /\ failures \in 0 .. MaxFailures

TypeOK ==
  /\ writer \in {"off", "closed", "idle", "erase", "head", "ssid", "psk", "done"}
  /\ shell.at \in {"idle", "copied", "set"} /\ web \in {"idle", "set"}
  /\ Counters

\* The pairs of name and key somebody entered, and no network at all.
Entered == {[ssid |-> n.ssid, psk |-> n.psk] : n \in Networks} \cup {[ssid |-> Empty, psk |-> Empty]}

PairOf(p) == [ssid |-> p.ssid, psk |-> p.psk]

\* Wherever power failed, the board comes back with a level that has a name
\* and, if no change met a save, with a network that was entered: never with
\* an erased string, nor with the name of one network and the key of another.
Sane == /\ TypeOK
        /\ up => /\ ram.level \in Levels
                 /\ Erased \notin {ram.ssid, ram.psk}
                 /\ crossed \/ PairOf(ram) \in Entered

Held == magic /\ flash = ram

AtRest == up /\ writer = "idle" /\ ~bySave /\ shell.at # "set" /\ web = "idle"

\* When nothing waits to be written, flash holds what RAM holds, if no
\* change met a save.
RestIsSaved == AtRest /\ ~crossed => Held

Strings == {n.ssid : n \in Networks} \cup {n.psk : n \in Networks} \cup {Empty}

Clean == [level : Levels, ssid : Strings, psk : Strings]

Stored == [level : Levels \cup {Erased}, ssid : Strings \cup {Erased}, psk : Strings \cup {Erased}]

\* The settings in RAM are clean at any time, and so is the shell's copy.
RamOk == ram \in Clean /\ (crossed \/ PairOf(ram) \in Entered)

CopyOk == shell.copy \in Clean /\ (crossed \/ PairOf(shell.copy) \in Entered)

\* A save that was interrupted left the key erased.
FlashOk == flash \in Stored /\ (crossed \/ flash.psk = Erased \/ PairOf(flash) \in Entered)

\* What a save has written so far, if no change met it.
SaveOk == crossed \/ /\ writer \in {"ssid", "psk"} => magic
                     /\ writer \in {"head", "ssid"} => flash = NoSettings
                     /\ writer = "psk" =>
                          flash = [level |-> ram.level, ssid |-> ram.ssid, psk |-> Erased]
                     /\ writer = "done" => Held

\* The inductive invariant.
IInv == TypeOK /\ RamOk /\ CopyOk /\ FlashOk /\ SaveOk /\ RestIsSaved

\* Settings that differ from flash are written in the end, also those the
\* boot has put right, if no change meets a save and power stays.
FinallySaved == up /\ ~Held ~> Held \/ crossed \/ ~up
=============================================================================
