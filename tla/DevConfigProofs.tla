-------------------------- MODULE DevConfigProofs --------------------------
(***************************************************************************)
(* For any levels and networks, any number of changes and of power         *)
(* failures: the configuration that comes back is sane, and what is at     *)
(* rest is saved, as long as no change meets a save.                       *)
(***************************************************************************)
EXTENDS DevConfig, TLAPS

\* What the boot makes of the flash is clean, whatever stood there.
LEMMA HealedIsClean == ASSUME NEW p \in Stored PROVE Healed(p) \in Clean
<1>1. LevelOf(p) \in Levels
  BY LevelAssumption DEF LevelOf
<1>2. StringOk(p.ssid) => p.ssid \in Strings
  BY DEF StringOk, Stored
<1>3. StringOk(p.psk) => p.psk \in Strings
  BY DEF StringOk, Stored
<1>4. Empty \in Strings
  BY DEF Strings
<1>. QED  BY <1>1, <1>2, <1>3, <1>4 DEF Healed, Clean

\* A key that is erased takes the name with it; a pair that was entered stays
\* one or, for an open network, is dropped.
LEMMA HealedWasEntered ==
  ASSUME NEW p, p.psk = Erased \/ PairOf(p) \in Entered
  PROVE  PairOf(Healed(p)) \in Entered
<1>1. CASE StringOk(p.ssid) /\ StringOk(p.psk)
  <2>1. PairOf(p) \in Entered
    BY <1>1 DEF StringOk
  <2>2. Healed(p).ssid = p.ssid /\ Healed(p).psk = p.psk
    BY <1>1 DEF Healed
  <2>. QED  BY <2>1, <2>2 DEF PairOf
<1>2. CASE ~(StringOk(p.ssid) /\ StringOk(p.psk))
  <2>1. Healed(p).ssid = Empty /\ Healed(p).psk = Empty
    BY <1>2 DEF Healed
  <2>. QED  BY <2>1 DEF Entered, PairOf
<1>. QED  BY <1>1, <1>2

\* What needs no writing back is what stands in flash.
LEMMA NothingToWriteBack == ASSUME NEW p \in Stored, ~WriteBack(p) PROVE Healed(p) = p
<1>1. p.level \in Levels /\ StringOk(p.ssid) /\ StringOk(p.psk)
  BY DEF WriteBack
<1>2. Healed(p) = [level |-> p.level, ssid |-> p.ssid, psk |-> p.psk]
  BY <1>1 DEF Healed, LevelOf
<1>. QED  BY <1>2 DEF Stored

\* No string that can be entered reads as erased, and what was entered is one.
LEMMA EnteredStrings ==
  /\ Erased \notin Strings
  /\ \A n \in Networks : n.ssid \in Strings /\ n.psk \in Strings
BY NetworkAssumption DEF Strings

\* The defaults are clean and as good as entered.
LEMMA DefaultsAreClean == Settings \in Clean /\ PairOf(Settings) \in Entered
BY LevelAssumption DEF Settings, Clean, Strings, PairOf, Entered

LEMMA ErasedIsStored == NoSettings \in Stored /\ NoSettings.psk = Erased
BY DEF NoSettings, Stored

-----------------------------------------------------------------------------
LEMMA InitEstablishes == Init => IInv
<1>. SUFFICES ASSUME Init PROVE IInv
  OBVIOUS
<1>1. Counters
  BY BoundAssumption DEF Init, Counters
<1>2. TypeOK
  BY <1>1 DEF Init, TypeOK, Idle
<1>3. RamOk /\ CopyOk
  BY DefaultsAreClean DEF Init, RamOk, CopyOk, Idle
<1>4. FlashOk
  BY ErasedIsStored DEF Init, FlashOk
<1>5. SaveOk /\ RestIsSaved
  BY DEF Init, SaveOk, RestIsSaved, AtRest
<1>. QED  BY <1>2, <1>3, <1>4, <1>5 DEF IInv

\* Changes and failures stay within their bounds.
LEMMA CountersBounded == Counters /\ [Next]_vars => Counters'
<1>. SUFFICES ASSUME Counters, [Next]_vars PROVE Counters'
  OBVIOUS
<1>1. changes' = changes \/ Counted
  BY DEF Next, vars, Writer, TaskStarts, EraseAll, WriteHeader, WriteFirst, WriteRest, TaskDone,
         BootRereads, BootFound, BootRestores, WriteFails, PowerFails, ShellReads, ShellSets,
         ShellSaves, ShellSavesOnly, WebSets, WebSaves
<1>2. failures' = failures \/ Failed
  BY DEF Next, vars, Writer, TaskStarts, EraseAll, WriteHeader, WriteFirst, WriteRest, TaskDone,
         BootRereads, BootFound, BootRestores, WriteFails, PowerFails, ShellReads, ShellSets,
         ShellSaves, ShellSavesOnly, WebSets, WebSaves
<1>. QED  BY <1>1, <1>2, BoundAssumption DEF Counters, Counted, Failed

LEMMA TypePreserved == TypeOK /\ [Next]_vars => TypeOK'
<1>. SUFFICES ASSUME TypeOK, [Next]_vars PROVE TypeOK'
  OBVIOUS
<1>1. Counters'
  BY CountersBounded DEF TypeOK
<1>2. writer' \in {"off", "closed", "idle", "erase", "head", "ssid", "psk", "done"}
  BY DEF TypeOK, Next, vars, Writer, TaskStarts, EraseAll, WriteHeader, WriteFirst, WriteRest,
         TaskDone, BootRereads, BootFound, Load, BootRestores, WriteFails, PowerFails, ShellReads,
         ShellSets, ShellSaves, ShellSavesOnly, WebSets, WebSaves
<1>3. shell'.at \in {"idle", "copied", "set"}
  <2>1. shell' = shell \/ shell' = Idle \/ shell' = [at |-> "copied", copy |-> ram]
          \/ shell' = [at |-> "set", copy |-> shell.copy]
    BY DEF Next, vars, Writer, TaskStarts, EraseAll, WriteHeader, WriteFirst, WriteRest,
         TaskDone, BootRereads, BootFound, BootRestores, WriteFails, PowerFails, ShellReads,
         ShellSets, ShellSaves, ShellSavesOnly, WebSets, WebSaves
  <2>. QED  BY <2>1 DEF TypeOK, Idle
<1>4. web' \in {"idle", "set"}
  BY DEF TypeOK, Next, vars, Writer, TaskStarts, EraseAll, WriteHeader, WriteFirst, WriteRest,
         TaskDone, BootRereads, BootFound, BootRestores, WriteFails, PowerFails, ShellReads,
         ShellSets, ShellSaves, ShellSavesOnly, WebSets, WebSaves
<1>. QED  BY <1>1, <1>2, <1>3, <1>4 DEF TypeOK

-----------------------------------------------------------------------------
\* What a step leaves alone stays as it should be.
LEMMA RamFrame == ASSUME IInv, ram' = ram, crossed => crossed' PROVE RamOk'
BY DEF IInv, RamOk

LEMMA CopyFrame == ASSUME IInv, shell'.copy = shell.copy, crossed => crossed' PROVE CopyOk'
BY DEF IInv, CopyOk

LEMMA FlashFrame == ASSUME IInv, flash' = flash, crossed => crossed' PROVE FlashOk'
BY DEF IInv, FlashOk

\* The boot's reading of the flash, whether it found a header or wrote it.
LEMMA LoadPreserves ==
  ASSUME IInv, TypeOK', Load, magic,
         UNCHANGED <<magic, flash, shell, web, changes, failures, crossed>>
  PROVE  IInv'
<1>1. flash \in Stored /\ ram' = Healed(flash)
  BY DEF IInv, FlashOk, Load
<1>2. RamOk'
  <2>1. ram' \in Clean
    BY <1>1, HealedIsClean
  <2>2. crossed \/ PairOf(ram') \in Entered
    BY <1>1, HealedWasEntered DEF IInv, FlashOk
  <2>. QED  BY <2>1, <2>2 DEF RamOk
<1>3. CopyOk' /\ FlashOk'
  BY CopyFrame, FlashFrame
<1>4. SaveOk'
  BY DEF SaveOk, Load
<1>5. RestIsSaved'
  <2>1. ~bySave' => ram' = flash
    BY <1>1, NothingToWriteBack DEF Load
  <2>. QED  BY <2>1 DEF RestIsSaved, AtRest, Held
<1>. QED  BY <1>2, <1>3, <1>4, <1>5 DEF IInv

\* The steps of rebuildCfg and of the boot.
LEMMA WriterPreserves == IInv /\ TypeOK' /\ (Writer \/ WriteFails) => IInv'
<1>. SUFFICES ASSUME IInv, TypeOK', Writer \/ WriteFails PROVE IInv'
  OBVIOUS
<1>1. CASE TaskStarts
  <2>1. RamOk' /\ CopyOk' /\ FlashOk'
    BY <1>1, RamFrame, CopyFrame, FlashFrame DEF TaskStarts
  <2>2. SaveOk' /\ RestIsSaved'
    BY <1>1 DEF TaskStarts, SaveOk, RestIsSaved, AtRest
  <2>. QED  BY <2>1, <2>2 DEF IInv
<1>2. CASE EraseAll
  <2>1. RamOk' /\ CopyOk'
    BY <1>2, RamFrame, CopyFrame DEF EraseAll
  <2>2. FlashOk'
    BY <1>2, ErasedIsStored DEF EraseAll, FlashOk
  <2>3. SaveOk' /\ RestIsSaved'
    BY <1>2 DEF EraseAll, SaveOk, RestIsSaved, AtRest
  <2>. QED  BY <2>1, <2>2, <2>3 DEF IInv
<1>3. CASE WriteHeader
  <2>1. RamOk' /\ CopyOk' /\ FlashOk'
    BY <1>3, RamFrame, CopyFrame, FlashFrame DEF WriteHeader
  <2>2. SaveOk' /\ RestIsSaved'
    BY <1>3 DEF WriteHeader, IInv, SaveOk, RestIsSaved, AtRest
  <2>. QED  BY <2>1, <2>2 DEF IInv
<1>4. CASE WriteFirst
  <2>1. RamOk' /\ CopyOk'
    BY <1>4, RamFrame, CopyFrame DEF WriteFirst
  <2>2. flash' = [level |-> ram.level, ssid |-> ram.ssid, psk |-> flash.psk]
    BY <1>4 DEF WriteFirst, IInv, FlashOk, Stored
  <2>3. ~crossed => magic /\ flash.psk = Erased
    BY <1>4 DEF WriteFirst, IInv, SaveOk, NoSettings
  <2>4. FlashOk'
    <3>1. flash' \in Stored
      BY <2>2 DEF IInv, FlashOk, RamOk, Stored, Clean
    <3>2. crossed' \/ flash'.psk = Erased
      BY <1>4, <2>2, <2>3 DEF WriteFirst
    <3>. QED  BY <3>1, <3>2 DEF FlashOk
  <2>5. SaveOk' /\ RestIsSaved'
    BY <1>4, <2>2, <2>3 DEF WriteFirst, SaveOk, RestIsSaved, AtRest
  <2>. QED  BY <2>1, <2>4, <2>5 DEF IInv
<1>5. CASE WriteRest
  <2>1. RamOk' /\ CopyOk'
    BY <1>5, RamFrame, CopyFrame DEF WriteRest
  <2>2. flash' = [level |-> flash.level, ssid |-> flash.ssid, psk |-> ram.psk]
    BY <1>5 DEF WriteRest, IInv, FlashOk, Stored
  <2>3. ~crossed => magic /\ flash' = ram
    <3>. SUFFICES ASSUME ~crossed PROVE magic /\ flash' = ram
      OBVIOUS
    <3>1. magic /\ flash.level = ram.level /\ flash.ssid = ram.ssid
      BY <1>5 DEF WriteRest, IInv, SaveOk
    <3>. QED  BY <2>2, <3>1 DEF IInv, RamOk, Clean
  <2>4. FlashOk'
    <3>1. flash' \in Stored
      BY <2>2 DEF IInv, FlashOk, RamOk, Stored, Clean
    <3>2. crossed' \/ PairOf(flash') \in Entered
      BY <1>5, <2>3 DEF WriteRest, IInv, RamOk
    <3>. QED  BY <3>1, <3>2 DEF FlashOk
  <2>5. SaveOk' /\ RestIsSaved'
    BY <1>5, <2>3 DEF WriteRest, SaveOk, RestIsSaved, AtRest, Held
  <2>. QED  BY <2>1, <2>4, <2>5 DEF IInv
<1>6. CASE TaskDone
  <2>1. RamOk' /\ CopyOk' /\ FlashOk'
    BY <1>6, RamFrame, CopyFrame, FlashFrame DEF TaskDone
  <2>2. SaveOk' /\ RestIsSaved'
    BY <1>6 DEF TaskDone, IInv, SaveOk, RestIsSaved, AtRest, Held
  <2>. QED  BY <2>1, <2>2 DEF IInv
<1>7. CASE BootRereads
  <2>1. CASE magic
    BY <1>7, <2>1, LoadPreserves DEF BootRereads
  <2>2. CASE ~magic
    <3>1. RamOk' /\ CopyOk' /\ FlashOk'
      BY <1>7, <2>2, RamFrame, CopyFrame, FlashFrame DEF BootRereads
    <3>2. SaveOk' /\ RestIsSaved'
      BY <1>7, <2>2 DEF BootRereads, SaveOk, RestIsSaved, AtRest
    <3>. QED  BY <3>1, <3>2 DEF IInv
  <2>. QED  BY <2>1, <2>2
<1>8. CASE BootFound
  BY <1>8, LoadPreserves DEF BootFound
<1>9. CASE BootRestores
  <2>1. RamOk'
    BY <1>9, DefaultsAreClean DEF BootRestores, RamOk
  <2>2. CopyOk' /\ FlashOk'
    BY <1>9, CopyFrame, FlashFrame DEF BootRestores
  <2>3. SaveOk' /\ RestIsSaved'
    BY <1>9 DEF BootRestores, SaveOk, RestIsSaved, AtRest
  <2>. QED  BY <2>1, <2>2, <2>3 DEF IInv
<1>10. CASE WriteFails
  <2>1. RamOk' /\ CopyOk' /\ FlashOk'
    BY <1>10, RamFrame, CopyFrame, FlashFrame DEF WriteFails
  <2>2. SaveOk' /\ RestIsSaved'
    BY <1>10 DEF WriteFails, SaveOk, RestIsSaved, AtRest
  <2>. QED  BY <2>1, <2>2 DEF IInv
<1>. QED  BY <1>1, <1>2, <1>3, <1>4, <1>5, <1>6, <1>7, <1>8, <1>9, <1>10 DEF Writer

\* A change or a request that meets a save counts as crossed; one that does
\* not finds nothing half written.
LEMMA CrossingPreserves == ASSUME IInv, Crosses, writer' = writer PROVE SaveOk'
<1>1. Writing => crossed'
  BY DEF Crosses
<1>2. ~Writing => writer' \notin {"head", "ssid", "psk", "done"}
  BY DEF Writing
<1>. QED  BY <1>1, <1>2 DEF SaveOk

\* The steps of those who change settings.
LEMMA ChangePreserves ==
  IInv /\ TypeOK' /\ (ShellReads \/ ShellSets \/ ShellSaves \/ ShellSavesOnly \/ WebSets \/ WebSaves)
    => IInv'
<1>. SUFFICES ASSUME IInv, TypeOK',
                     ShellReads \/ ShellSets \/ ShellSaves \/ ShellSavesOnly \/ WebSets \/ WebSaves
              PROVE  IInv'
  OBVIOUS
<1>1. CASE ShellReads
  <2>1. RamOk' /\ FlashOk'
    BY <1>1, RamFrame, FlashFrame DEF ShellReads
  <2>2. CopyOk'
    BY <1>1 DEF ShellReads, IInv, RamOk, CopyOk
  <2>3. SaveOk' /\ RestIsSaved'
    BY <1>1 DEF ShellReads, IInv, SaveOk, RestIsSaved, AtRest, Held
  <2>. QED  BY <2>1, <2>2, <2>3 DEF IInv
<1>2. CASE ShellSets
  <2>1. PICK l \in Levels : ram' = [shell.copy EXCEPT !.level = l]
    BY <1>2 DEF ShellSets
  <2>2. ram' = [level |-> l, ssid |-> shell.copy.ssid, psk |-> shell.copy.psk]
    BY <2>1 DEF IInv, CopyOk, Clean
  <2>3. RamOk'
    <3>1. ram' \in Clean
      BY <2>2 DEF IInv, CopyOk, Clean
    <3>2. crossed' \/ PairOf(ram') \in Entered
      BY <1>2, <2>2 DEF IInv, CopyOk, PairOf, ShellSets, Crosses
    <3>. QED  BY <3>1, <3>2 DEF RamOk
  <2>4. shell'.copy = shell.copy /\ (crossed => crossed')
    BY <1>2 DEF ShellSets, Crosses
  <2>5. CopyOk' /\ FlashOk'
    BY <1>2, <2>4, CopyFrame, FlashFrame DEF ShellSets
  <2>6. shell'.at = "set"
    BY <1>2 DEF ShellSets, IInv, TypeOK
  <2>7. SaveOk' /\ RestIsSaved'
    BY <1>2, <2>6, CrossingPreserves DEF ShellSets, RestIsSaved, AtRest
  <2>. QED  BY <2>3, <2>5, <2>7 DEF IInv
<1>3. CASE ShellSaves
  <2>1. RamOk' /\ FlashOk'
    BY <1>3, RamFrame, FlashFrame DEF ShellSaves, Crosses
  <2>2. CopyOk'
    BY <1>3, DefaultsAreClean DEF ShellSaves, CopyOk, Idle
  <2>3. SaveOk' /\ RestIsSaved'
    BY <1>3, CrossingPreserves DEF ShellSaves, RestIsSaved, AtRest
  <2>. QED  BY <2>1, <2>2, <2>3 DEF IInv
<1>4. CASE ShellSavesOnly
  <2>1. RamOk' /\ CopyOk' /\ FlashOk'
    BY <1>4, RamFrame, CopyFrame, FlashFrame DEF ShellSavesOnly, Crosses
  <2>2. SaveOk' /\ RestIsSaved'
    BY <1>4, CrossingPreserves DEF ShellSavesOnly, RestIsSaved, AtRest
  <2>. QED  BY <2>1, <2>2 DEF IInv
<1>5. CASE WebSets
  <2>1. PICK n \in Networks : ram' = [ram EXCEPT !.ssid = n.ssid, !.psk = n.psk]
    BY <1>5 DEF WebSets
  <2>2. ram' = [level |-> ram.level, ssid |-> n.ssid, psk |-> n.psk]
    BY <2>1 DEF IInv, RamOk, Clean
  <2>3. RamOk'
    <3>1. ram' \in Clean
      BY <2>2, EnteredStrings DEF IInv, RamOk, Clean
    <3>2. PairOf(ram') \in Entered
      BY <2>2 DEF PairOf, Entered
    <3>. QED  BY <3>1, <3>2 DEF RamOk
  <2>4. CopyOk' /\ FlashOk'
    BY <1>5, CopyFrame, FlashFrame DEF WebSets, Crosses
  <2>5. SaveOk' /\ RestIsSaved'
    BY <1>5, CrossingPreserves DEF WebSets, RestIsSaved, AtRest
  <2>. QED  BY <2>3, <2>4, <2>5 DEF IInv
<1>6. CASE WebSaves
  <2>1. RamOk' /\ CopyOk' /\ FlashOk'
    BY <1>6, RamFrame, CopyFrame, FlashFrame DEF WebSaves, Crosses
  <2>2. SaveOk' /\ RestIsSaved'
    BY <1>6, CrossingPreserves DEF WebSaves, RestIsSaved, AtRest
  <2>. QED  BY <2>1, <2>2 DEF IInv
<1>. QED  BY <1>1, <1>2, <1>3, <1>4, <1>5, <1>6

\* Power fails between any two of these steps; what is in flash stays.
LEMMA PowerPreserves == IInv /\ TypeOK' /\ PowerFails => IInv'
<1>. SUFFICES ASSUME IInv, TypeOK', PowerFails PROVE IInv'
  OBVIOUS
<1>1. RamOk' /\ CopyOk'
  BY DefaultsAreClean DEF PowerFails, RamOk, CopyOk, Idle
<1>2. FlashOk'
  BY FlashFrame DEF PowerFails
<1>3. SaveOk' /\ RestIsSaved'
  BY DEF PowerFails, SaveOk, RestIsSaved, AtRest
<1>. QED  BY <1>1, <1>2, <1>3 DEF IInv

LEMMA NextPreserves == IInv /\ [Next]_vars => IInv'
<1>. SUFFICES ASSUME IInv, [Next]_vars PROVE IInv'
  OBVIOUS
<1>1. TypeOK'
  BY TypePreserved DEF IInv
<1>2. CASE UNCHANGED vars
  <2>1. RamOk' /\ CopyOk' /\ FlashOk'
    BY <1>2, RamFrame, CopyFrame, FlashFrame DEF vars
  <2>2. SaveOk' /\ RestIsSaved'
    BY <1>2 DEF vars, IInv, SaveOk, RestIsSaved, AtRest, Held
  <2>. QED  BY <1>1, <2>1, <2>2 DEF IInv
<1>. QED  BY <1>1, <1>2, WriterPreserves, ChangePreserves, PowerPreserves DEF Next

-----------------------------------------------------------------------------
\* What a save has written so far, and what stands in RAM, agree at any time:
\* rebuildCfg's steps, the changes and the power failures preserve IInv.
THEOREM ConfigInvariant == Spec => []IInv
<1>1. Init => IInv  BY InitEstablishes
<1>2. IInv /\ [Next]_vars => IInv'  BY NextPreserves
<1>. QED  BY <1>1, <1>2, PTL DEF Spec

\* The board comes back with a legal level and, unless a change met a save,
\* with a network somebody entered (devPara_init).
THEOREM BootIsSane == Spec => []Sane
<1>1. IInv => Sane
  BY EnteredStrings DEF IInv, RamOk, Clean, Sane
<1>. QED  BY <1>1, ConfigInvariant, PTL

\* When the task and those who change settings are at rest, flash holds what
\* RAM holds, unless a change met a save (devParam_Mng_task, devParamSave).
THEOREM SavedAtRest == Spec => []RestIsSaved
<1>1. IInv => RestIsSaved  BY DEF IInv
<1>. QED  BY <1>1, ConfigInvariant, PTL
=============================================================================
