---------------------------- MODULE AbOtaProofs ----------------------------
(***************************************************************************)
(* Theorems of AbOta, for every set of images and with an operator who may *)
(* reflash the board at any moment.                                        *)
(***************************************************************************)
EXTENDS AbOta, TLAPS

\* What the constructors build, and what reading the flag returns.
LEMMA Constructors ==
  /\ NoFlag \in FlagType
  /\ \A a \in Slot, p \in BOOLEAN, i \in Image \cup {None} : Flag(a, p, i) \in FlagType
  /\ Blank \in Content
  /\ \A i \in Image \cup {None} : Whole(i) \in Content /\ Torn(i) \in Content
BY DEF NoFlag, FlagType, Flag, Blank, Content, Whole, Torn, Slot

LEMMA SeenType ==
  ASSUME TypeOK
  PROVE  /\ Seen \in FlagType
         /\ Seen.active \in Slot /\ Idle \in Slot /\ Idle # Seen.active
         /\ Seen.img \in Image \cup {None} /\ src.img \in Image \cup {None}
<1>1. Seen \in FlagType
  BY Constructors DEF Seen, TypeOK
<1>2. Seen.active \in Slot /\ Seen.img \in Image \cup {None}
  BY <1>1 DEF FlagType
<1>3. src.img \in Image \cup {None}
  BY DEF TypeOK, Content
<1> QED BY <1>1, <1>2, <1>3 DEF Idle, Slot

\* A record to be written to PART_OTA, with what follows it.
LEMMA WriteType ==
  ASSUME NEW f \in FlagType, NEW n \in {"boot", "cookie", "select", "reboot"}
  PROVE  [rec |-> f, next |-> n]
           \in [rec : FlagType, next : {"boot", "cookie", "select", "reboot"}]
OBVIOUS

LEMMA RestartType ==
  ASSUME TypeOK, Restart
  PROVE  /\ pc' = "boot" /\ cur' \in Slot /\ ovr' \in BOOLEAN
         /\ run' \in Slot /\ switched' \in BOOLEAN
         /\ wr' \in [rec : FlagType, next : {"boot", "cookie", "select", "reboot"}]
BY Constructors, WriteType DEF TypeOK, Restart, Slot

LEMMA TypeStep == TypeOK /\ [HostNext]_vars => TypeOK'
<1> SUFFICES ASSUME TypeOK, [HostNext]_vars PROVE TypeOK'
  OBVIOUS
<1> USE Constructors, SeenType DEF TypeOK, LoaderPcs, WritePcs, AppPcs, flash, HostSteps
<1>1. CASE FlagErase \/ FlagProgram \/ HdrErase
  BY <1>1 DEF FlagErase, FlagProgram, HdrErase
<1>2. CASE HdrProgram
  BY <1>2 DEF HdrProgram
<1>3. CASE ClearCookie \/ NoUpgrade \/ StartCopy
  BY <1>3 DEF ClearCookie, NoUpgrade, StartCopy, FwUpgrade
<1>4. CASE HostOverride
  BY <1>4 DEF HostOverride, OtaFlagCommitDone, StartWrite
<1>5. CASE BadSource
  BY <1>5 DEF BadSource, FwUpgrade, OtaFlagClear, StartWrite
<1>6. CASE AlreadyThere \/ VerifyOk
  <2>1. Idle \in Slot /\ Flag(Idle, FALSE, None) \in FlagType
    OBVIOUS
  <2>2. /\ wr' = [rec |-> Flag(Idle, FALSE, None), next |-> "select"]
        /\ pc' = "flagErase" /\ cur' = Idle /\ switched' = TRUE
        /\ UNCHANGED <<flash, ovr, run, host, spoilt>>
    BY <1>6 DEF AlreadyThere, VerifyOk, OtaFlagCommitDone, StartWrite
  <2>3. wr' \in [rec : FlagType, next : {"boot", "cookie", "select", "reboot"}]
    BY <2>1, <2>2, WriteType
  <2> QED BY <2>1, <2>2, <2>3
<1>17. CASE VerifyFail
  BY <1>17 DEF VerifyFail
<1>7. CASE CopyErase \/ CopyHead
  BY <1>7 DEF CopyErase, CopyHead
<1>8. CASE CopyTail
  <2>1. PICK ok \in BOOLEAN :
          slot' = [slot EXCEPT ![Idle] = [src EXCEPT !.whole = ok /\ @]]
    BY <1>8 DEF CopyTail
  <2>2. [src EXCEPT !.whole = ok /\ @] \in Content
    BY DEF Content
  <2> QED BY <1>8, <2>1, <2>2 DEF CopyTail
<1>9. CASE Jump \/ StayInCli
  <2>1. BootResolve \in Slot \cup {None}
    BY DEF BootResolve, Slot
  <2>2. Choice \in Slot \cup {None}
    BY <2>1 DEF Choice
  <2> QED BY <1>9, <2>2 DEF Jump, StayInCli
<1>10. CASE AppInit \/ AbortDownload
  BY <1>10 DEF AppInit, AbortDownload
<1>11. CASE \E i \in Image : StartDownload(i)
  BY <1>11 DEF StartDownload
<1>12. CASE FinishDownload
  BY ZenonT(30), <1>12 DEF FinishDownload, Content
<1>13. CASE UpgradeCommitOtaFlag
  <2>1. OtaGetActiveSlot \in Slot
    BY DEF OtaGetActiveSlot
  <2> QED BY <1>13, <2>1 DEF UpgradeCommitOtaFlag, StartWrite
<1>14. CASE Reboot \/ PowerLoss
  BY <1>14, RestartType DEF Reboot, PowerLoss
<1>15. CASE Host
  <2>1. ASSUME NEW i \in Image, HostLoadApp1(i) \/ HostLoadApp2(i)
        PROVE  TypeOK'
    <3>1. slot' \in [Slot -> Content]
      BY <2>1 DEF HostLoadApp1, HostLoadApp2
    <3> QED BY <2>1, <3>1, RestartType DEF HostLoadApp1, HostLoadApp2
  <2>2. CASE HostLoadCookie
    BY <2>2, RestartType DEF HostLoadCookie, Slot
  <2> QED BY <1>15, <2>1, <2>2 DEF Host
<1>16. CASE UNCHANGED vars
  BY <1>16 DEF vars
<1> QED
  BY <1>1, <1>2, <1>3, <1>4, <1>5, <1>6, <1>7, <1>8, <1>9, <1>10, <1>11,
     <1>12, <1>13, <1>14, <1>15, <1>16, <1>17
  DEF HostNext, Next, FlagWrite, Loader, App

LEMMA BoardType == ASSUME Board PROVE TypeOK
<1>1. slot \in [Slot -> Content] /\ src \in Content /\ flag \in FlagType
  BY Constructors DEF Board
<1>2. wr \in [rec : FlagType, next : {"boot", "cookie", "select", "reboot"}]
  BY Constructors, WriteType DEF Board
<1> QED BY <1>1, <1>2 DEF Board, TypeOK, LoaderPcs, Slot, HostSteps

THEOREM TypeCorrect == HostSpec => []TypeOK
BY BoardType, TypeStep, PTL DEF HostSpec

-----------------------------------------------------------------------------
\* Only the load of the cookie spoils, and what is spoilt stays so.
LEMMA NextSpoilsNot == [Next]_vars => spoilt' = spoilt
BY DEF vars, Next, FlagWrite, FlagErase, FlagProgram, HdrErase, HdrProgram, Loader,
   HostOverride, ClearCookie, NoUpgrade, BadSource, AlreadyThere, StartCopy, CopyErase,
   CopyHead, CopyTail, VerifyOk, VerifyFail, Jump, StayInCli, App, AppInit,
   StartDownload, AbortDownload, FinishDownload, UpgradeCommitOtaFlag, Reboot, PowerLoss

LEMMA SpoiltStays ==
  ASSUME [HostNext]_vars, spoilt
  PROVE  spoilt'
BY NextSpoilsNot DEF HostNext, Host, HostLoadApp1, HostLoadApp2, HostLoadCookie

\* What the loads of flash.sh do to APP1, and what leaves it alone.
LEMMA LoadedStep ==
  ASSUME ~Faults, TypeOK, FlagsGood, Copying, Loaded, [HostNext]_vars
  PROVE  Loaded'
<1> DEFINE Between == host \in {"app1", "app2"}
<1>1. CASE CopyErase \/ CopyHead
  <2>1. /\ pc \in CopyPcs /\ pc' \in {"copyHead", "copyTail"}
        /\ Seen' = Seen /\ Idle' = Idle /\ src' = src
    BY <1>1 DEF CopyErase, CopyHead, CopyPcs, Seen, Idle
  <2>2. Pending' /\ SrcOk' /\ Seen'.img \notin TooBig
    BY <2>1 DEF Copying, Pending, SrcOk
  <2>3. CASE Idle = 0
    BY <2>1, <2>2, <2>3 DEF Loaded, UnderCopy, CopyPcs
  <2>4. CASE Idle # 0
    <3>1. slot'[0] = slot[0] /\ host' = host
      BY <1>1, <2>4, SeenType DEF CopyErase, CopyHead, TypeOK, Slot
    <3> QED BY <2>4, <3>1 DEF Loaded, UnderCopy
  <2> QED BY <2>3, <2>4
<1>2. CASE CopyTail
  <2>1. PICK ok \in {TRUE, ~Faults} :
          slot' = [slot EXCEPT ![Idle] = [src EXCEPT !.whole = ok /\ @]]
    BY <1>2 DEF CopyTail
  <2>2. src.whole
    BY <1>2 DEF CopyTail, Copying, CopyPcs, SrcOk, Whole
  <2>3. slot'[0].whole \/ (Idle # 0 /\ slot'[0] = slot[0])
    BY <2>1, <2>2, SeenType DEF TypeOK, Content, Slot
  <2> QED BY <1>2, <2>3 DEF CopyTail, Loaded, UnderCopy
<1>3. CASE StartCopy \/ Reboot \/ PowerLoss \/ \E j \in Image : HostLoadApp2(j)
  <2>1. /\ slot'[0] = slot[0] /\ UNCHANGED <<src, flag, hdr>>
        /\ pc' \in {"boot", "copyErase"} /\ (Between' => Between)
    BY <1>3 DEF StartCopy, Reboot, PowerLoss, Restart, HostLoadApp2, flash, TypeOK, Slot
  <2>2. Seen' = Seen /\ Idle' = Idle
    BY <2>1 DEF Seen, Idle
  <2>3. pc \in {"boot"} \cup CopyPcs => (UnderCopy(0) => UnderCopy(0)')
    BY <2>1, <2>2 DEF UnderCopy, CopyPcs, Pending, SrcOk
  <2> QED BY <2>1, <2>3 DEF Loaded, UnderCopy
<1>4. CASE \E i \in Image : HostLoadApp1(i)
  BY <1>4 DEF HostLoadApp1, Whole, TypeOK, Slot, Loaded
<1>5. CASE HostLoadCookie
  BY <1>5 DEF HostLoadCookie, Loaded
<1>6. CASE HostOverride \/ NoUpgrade \/ BadSource \/ AlreadyThere \/ VerifyOk \/ VerifyFail
  <2>1. slot' = slot /\ host' = host
    BY <1>6 DEF HostOverride, NoUpgrade, BadSource, AlreadyThere, VerifyOk, VerifyFail,
                flash
  <2>2. CASE HostOverride
    BY <2>1, <2>2, AbOtaAssumption DEF HostOverride, FlagsGood, Good, Loaded
  <2>3. CASE NoUpgrade \/ BadSource
    BY <2>1, <2>3 DEF NoUpgrade, BadSource, FwUpgrade, UnderCopy, Loaded
  <2>4. CASE AlreadyThere \/ VerifyOk \/ VerifyFail
    <3>1. UnderCopy(0) => slot[0].whole
      BY <2>4 DEF AlreadyThere, VerifyOk, VerifyFail, Verified, UnderCopy, SrcOk, Whole,
                  Copying, CopyPcs
    <3> QED BY <2>1, <3>1 DEF Loaded
  <2> QED BY <1>6, <2>2, <2>3, <2>4
<1>7. CASE \/ FlagWrite \/ ClearCookie \/ Jump \/ StayInCli
           \/ AppInit \/ (\E i \in Image : StartDownload(i)) \/ AbortDownload
           \/ FinishDownload \/ UpgradeCommitOtaFlag
  <2>1. slot' = slot /\ (Between' => Between)
    BY <1>7 DEF FlagWrite, FlagErase, FlagProgram, HdrErase, HdrProgram, ClearCookie,
       Jump, StayInCli, AppInit, StartDownload, AbortDownload, FinishDownload,
       UpgradeCommitOtaFlag, flash
  <2>2. pc \notin {"boot"} \cup CopyPcs
    BY <1>7 DEF FlagWrite, FlagErase, FlagProgram, HdrErase, HdrProgram, ClearCookie,
       Jump, StayInCli, AppInit, StartDownload, AbortDownload, FinishDownload,
       UpgradeCommitOtaFlag, CopyPcs
  <2> QED BY <2>1, <2>2 DEF Loaded, UnderCopy
<1>8. CASE UNCHANGED vars
  BY <1>8 DEF vars, flash, Loaded, UnderCopy, Pending, Idle, SrcOk, Seen
<1> QED BY <1>1, <1>2, <1>3, <1>4, <1>5, <1>6, <1>7, <1>8
        DEF HostNext, Host, Next, FlagWrite, Loader, App

LEMMA SoundStep ==
  ASSUME ~Faults, TypeOK, Sound, ~spoilt, ~spoilt', [HostNext]_vars
  PROVE  Sound'
<1>0. TypeOK'
  BY TypeStep
<1>27. Loaded'
  BY <1>0, LoadedStep DEF Sound
<1> USE <1>0, SeenType, AbOtaAssumption
<1> USE DEF Sound, BootIntact, ActiveSlotHonoured, FlagsGood, HalfWrittenHidden, Copying,
            Chosen, Writing, AppRuns, CopyPcs, WritePcs, AppPcs, Pending, SrcOk,
            HalfWritten, UnderCopy, Good, AppImageValid, Slot, flash
<1> DEFINE Goal == (BootIntact /\ ActiveSlotHonoured /\ FlagsGood /\ HalfWrittenHidden
                     /\ Copying /\ Chosen /\ Writing)'
<1> SUFFICES Goal
  BY <1>27
<1>1. CASE FlagErase
  BY <1>1 DEF FlagErase, NoFlag, Seen
<1>2. CASE FlagProgram
  BY <1>2 DEF FlagProgram, NoFlag, Seen
<1>3. CASE HdrErase
  BY ZenonT(30), <1>3 DEF HdrErase, Seen
<1>4. CASE HdrProgram
  <2>1. wr.next \in {"cookie", "select", "reboot"}
    BY <1>4 DEF HdrProgram, TypeOK
  <2> QED BY <1>4, <2>1 DEF HdrProgram, Seen, Flag
<1>5. CASE HostOverride
  BY <1>5 DEF HostOverride, OtaFlagCommitDone, StartWrite, Flag, Seen
<1>6. CASE ClearCookie
  BY <1>6 DEF ClearCookie, Flag, Seen
<1>7. CASE NoUpgrade
  BY <1>7 DEF NoUpgrade, Seen
<1>8. CASE BadSource
  BY <1>8 DEF BadSource, FwUpgrade, OtaFlagClear, StartWrite, NoFlag, Seen
<1>9. CASE AlreadyThere
  BY <1>9 DEF AlreadyThere, FwUpgrade, OtaFlagCommitDone, StartWrite, Flag, Whole, Idle, Seen
<1>10. CASE StartCopy
  <2>1. /\ pc = "boot" /\ pc' = "copyErase" /\ cookie = None
        /\ UNCHANGED <<slot, src, flag, hdr, cookie, cur, ovr, wr, run>>
        /\ Pending /\ SrcOk /\ Seen.img \notin TooBig
    BY <1>10 DEF StartCopy, FwUpgrade
  <2>2. Seen' = Seen /\ Idle' = Idle
    BY <2>1 DEF Seen, Idle
  <2>3. HalfWrittenHidden' /\ Copying'
    BY <2>1, <2>2
  <2> QED BY <2>1, <2>2, <2>3
<1>11. CASE CopyErase
  <2>1. /\ pc = "copyErase" /\ pc' = "copyHead"
        /\ UNCHANGED <<src, flag, hdr, cookie, cur, ovr, wr, run>>
        /\ Seen' = Seen /\ Idle' = Idle
    BY <1>11 DEF CopyErase, Seen, Idle
  <2>2. slot'[Idle] = Blank /\ slot'[1 - Idle] = slot[1 - Idle]
    BY <1>11 DEF CopyErase, TypeOK, Content, Torn, Whole, Idle
  <2>3. Seen.magic /\ Seen = flag /\ Good(1 - Idle) /\ Seen.active = 1 - Idle
    BY <2>1 DEF Seen, NoFlag, Idle
  <2> QED BY <2>1, <2>2, <2>3 DEF Blank, Torn, Whole
<1>12. CASE CopyHead
  <2>1. /\ pc = "copyHead" /\ pc' = "copyTail"
        /\ UNCHANGED <<src, flag, hdr, cookie, cur, ovr, wr, run>>
        /\ Seen' = Seen /\ Idle' = Idle
    BY <1>12 DEF CopyHead, Seen, Idle
  <2>2. slot'[Idle] = Torn(src.img) /\ slot'[1 - Idle] = slot[1 - Idle]
    BY <1>12 DEF CopyHead, TypeOK, Content, Torn, Whole, Idle
  <2>3. Seen.magic /\ Seen = flag /\ Good(1 - Idle) /\ Seen.active = 1 - Idle
    BY <2>1 DEF Seen, NoFlag, Idle
  <2> QED BY <2>1, <2>2, <2>3 DEF Blank, Torn, Whole
<1>13. CASE CopyTail
  <2>1. /\ pc = "copyTail" /\ pc' = "verify"
        /\ UNCHANGED <<src, flag, hdr, cookie, cur, ovr, wr, run>>
        /\ Seen' = Seen /\ Idle' = Idle
    BY <1>13 DEF CopyTail, Seen, Idle
  <2>2. slot'[Idle] = Whole(src.img) /\ slot'[1 - Idle] = slot[1 - Idle]
    <3>1. src.whole = TRUE
      BY <1>13 DEF CopyTail, Whole
    <3>2. PICK ok \in {TRUE, ~Faults} :
            slot' = [slot EXCEPT ![Idle] = [src EXCEPT !.whole = ok /\ @]]
      BY <1>13 DEF CopyTail
    <3> DEFINE copied == [src EXCEPT !.whole = ok /\ @]
    <3>3. copied = Whole(src.img)
      <4>0. ok = TRUE
        BY <3>2, Zenon
      <4>1. src.whole = TRUE /\ ok = TRUE
        BY <3>1, <4>0
      <4>2. copied \in Content
        BY DEF TypeOK, Content
      <4>3. copied.img = src.img /\ copied.whole = TRUE
        BY <4>1 DEF TypeOK, Content
      <4> HIDE DEF copied
      <4> QED BY <4>2, <4>3 DEF Content, Whole
    <3> QED BY <3>2, <3>3 DEF TypeOK, Idle
  <2>3. Seen.magic /\ Seen = flag /\ Good(1 - Idle) /\ Seen.active = 1 - Idle
    BY <2>1 DEF Seen, NoFlag, Idle
  <2> QED BY <2>1, <2>2, <2>3 DEF Blank, Torn, Whole
<1>14. CASE VerifyOk
  BY <1>14 DEF VerifyOk, Verified, OtaFlagCommitDone, StartWrite, Flag, Whole, Idle, Seen
<1>15. CASE VerifyFail
  BY <1>15 DEF VerifyFail, Verified, Whole, Idle, Seen
<1>16. CASE Jump
  <2>1. /\ pc = "select" /\ pc' = "appInit" /\ run' = Choice /\ Choice \in Slot
        /\ UNCHANGED <<slot, src, flag, hdr, cookie, ovr, wr>> /\ Seen' = Seen
    BY <1>16 DEF Jump, TypeOK, Seen
  <2>2. Seen.magic => Good(Seen.active)
    BY DEF Seen, NoFlag
  <2>3. Good(Choice) /\ (Seen.magic => Seen.active = Choice)
    BY <2>1, <2>2 DEF Choice, BootResolve
  <2> QED BY <2>1, <2>3
<1>17. CASE StayInCli
  BY <1>17 DEF StayInCli, Seen
<1>18. CASE AppInit
  BY <1>18 DEF AppInit, NoFlag, Seen
<1>19. CASE AbortDownload
  BY <1>19 DEF AbortDownload, Seen
<1>20. CASE FinishDownload
  BY <1>20 DEF FinishDownload, Seen
<1>21. CASE UpgradeCommitOtaFlag
  BY <1>21 DEF UpgradeCommitOtaFlag, OtaGetActiveSlot, StartWrite, Flag, Seen
<1>22. CASE Reboot
  BY <1>22 DEF Reboot, Restart, Seen
<1>23. CASE PowerLoss
  <2>1. /\ pc' = "boot" /\ cur' = 0 /\ ~ovr'
        /\ UNCHANGED <<slot, src, flag, hdr, cookie>>
    BY <1>23 DEF PowerLoss, Restart
  <2>2. Seen' = Seen /\ Idle' = Idle
    BY <2>1 DEF Seen, Idle
  <2>3. FlagsGood' /\ HalfWrittenHidden'
    BY <2>1, <2>2
  <2> QED BY <2>1, <2>3
<1>24. CASE \E i \in Image : StartDownload(i)
  BY <1>24 DEF StartDownload, Seen
<1>25. CASE Host
  <2>1. /\ pc' = "boot" /\ cur' = 0 /\ ~ovr'
        /\ UNCHANGED <<src, flag, hdr>> /\ Seen' = Seen /\ Idle' = Idle
    BY <1>25 DEF Host, HostLoadApp1, HostLoadApp2, HostLoadCookie, Restart, Seen, Idle
  <2>2. (BootIntact /\ ActiveSlotHonoured /\ Copying /\ Chosen /\ Writing)'
    BY <2>1
  <2>3. flag.active \in Slot
    BY DEF TypeOK, FlagType
  <2>4. ASSUME NEW i \in Image, HostLoadApp1(i)
        PROVE  FlagsGood' /\ HalfWrittenHidden'
    <3>1. Good(0)' /\ slot'[1] = slot[1] /\ cookie' = cookie
      BY <2>4 DEF HostLoadApp1, Whole, TypeOK
    <3> QED BY <2>1, <2>3, <3>1
  <2>5. ASSUME NEW i \in Image, HostLoadApp2(i)
        PROVE  FlagsGood' /\ HalfWrittenHidden'
    <3>1. Good(1)' /\ slot'[0] = slot[0] /\ cookie' = cookie
      BY <2>5 DEF HostLoadApp2, Whole, TypeOK
    <3> QED BY <2>1, <2>3, <3>1
  <2>6. CASE HostLoadCookie
    <3>1. Good(0) /\ cookie' = 0 /\ slot' = slot
      BY <2>6 DEF HostLoadCookie
    <3> QED BY <2>1, <2>2, <3>1
  <2> QED BY <1>25, <2>2, <2>4, <2>5, <2>6 DEF Host
<1>26. CASE UNCHANGED vars
  <2>1. Seen' = Seen /\ Idle' = Idle
    BY <1>26 DEF vars, Seen, Idle
  <2>2. (BootIntact /\ ActiveSlotHonoured /\ FlagsGood /\ HalfWrittenHidden)'
    BY <1>26, <2>1 DEF vars
  <2>3. (Copying /\ Chosen)'
    BY <1>26, <2>1 DEF vars
  <2>4. Writing'
    BY <1>26, <2>1 DEF vars
  <2> QED BY <2>2, <2>3, <2>4
<1> QED
  BY <1>1, <1>2, <1>3, <1>4, <1>5, <1>6, <1>7, <1>8, <1>9, <1>10, <1>11, <1>12, <1>13, <1>14, <1>15, <1>16, <1>17, <1>18, <1>19, <1>20, <1>21, <1>22, <1>23, <1>24, <1>25, <1>26
  DEF HostNext, Next, FlagWrite, Loader, App

LEMMA IInvStep ==
  ASSUME ~Faults, IInv, [HostNext]_vars
  PROVE  IInv'
<1>1. TypeOK /\ TypeOK'
  BY TypeStep DEF IInv
<1>2. CASE spoilt'
  BY <1>1, <1>2 DEF IInv
<1>3. CASE ~spoilt'
  <2>1. ~spoilt
    BY <1>3, SpoiltStays
  <2> QED BY <1>1, <1>3, <2>1, SoundStep DEF IInv
<1> QED BY <1>2, <1>3

\* Invariance of IInv, with an operator who may run flash.sh at any moment.
THEOREM IInvCorrect == ~Faults => (HostSpec => []IInv)
<1> SUFFICES ASSUME ~Faults PROVE HostSpec => []IInv
  OBVIOUS
<1>1. Board => IInv
  <2> SUFFICES ASSUME Board PROVE IInv
    OBVIOUS
  <2>1. TypeOK
    BY BoardType
  <2> QED
    BY <2>1 DEF Board, IInv, Sound, BootIntact, ActiveSlotHonoured, FlagsGood,
       HalfWrittenHidden, Copying, Chosen, Writing, Loaded, AppRuns, CopyPcs, WritePcs,
       AppPcs, HalfWritten, Good, AppImageValid, Seen, NoFlag, Blank, Whole, Slot
<1>2. IInv /\ [HostNext]_vars => IInv'
  BY IInvStep
<1> QED BY <1>1, <1>2, PTL DEF HostSpec

\* The loader never starts half an image, wherever power fails and however the
\* resets between the loads of flash.sh fall, unless a cookie was loaded beside
\* an APP1 that was not whole.
THEOREM BootsIntact == ~Faults => (HostSpec => []BootIntact)
<1>1. IInv => BootIntact
  BY DEF IInv, Sound, BootIntact
<1> QED BY <1>1, IInvCorrect, PTL

-----------------------------------------------------------------------------
\* Without an operator nothing is ever spoilt.
LEMMA SpecSound == ~Faults => (Spec => [](TypeOK /\ Sound /\ ~spoilt))
<1> SUFFICES ASSUME ~Faults PROVE Spec => [](TypeOK /\ Sound /\ ~spoilt)
  OBVIOUS
<1>1. Init => Board /\ ~spoilt
  BY DEF Init, Board
<1>2. ~spoilt /\ [Next]_vars => ~spoilt'
  BY NextSpoilsNot
<1>3. [Next]_vars => [HostNext]_vars
  BY DEF HostNext
<1>4. IInv /\ ~spoilt => TypeOK /\ Sound
  BY DEF IInv
<1>5. Spec => HostSpec
  BY <1>1, <1>3, PTL DEF Spec, HostSpec
<1> QED BY <1>1, <1>2, <1>4, <1>5, IInvCorrect, PTL DEF Spec

\* The slot the application believes to be its own is its own.
THEOREM HonoursActiveSlot == ~Faults => (Spec => []ActiveSlotHonoured)
<1>1. Sound => ActiveSlotHonoured
  BY DEF Sound
<1> QED BY <1>1, SpecSound, PTL

\* So it is with an operator, until a cookie is loaded beside a damaged APP1.
THEOREM HonoursActiveSlotHost ==
  ~Faults => (HostSpec => [](spoilt \/ ActiveSlotHonoured))
<1>1. IInv => spoilt \/ ActiveSlotHonoured
  BY DEF IInv, Sound
<1> QED BY <1>1, IInvCorrect, PTL

LEMMA IdleGood ==
  ASSUME TypeOK, Sound, pc \in CopyPcs
  PROVE  Good(1 - Idle)
<1>1. Seen.magic /\ Seen = flag
  BY DEF Sound, Copying, Pending, Seen, NoFlag
<1>2. 1 - Idle = Seen.active
  BY SeenType DEF Idle, Slot
<1> QED BY <1>1, <1>2 DEF Sound, FlagsGood

LEMMA IdleSlotStep ==
  ASSUME TypeOK, Sound, [Next]_vars
  PROVE  \A s \in Slot : slot'[s] # slot[s] => Good(1 - s) /\ ~AppRuns
<1>1. CASE CopyErase \/ CopyHead \/ CopyTail
  <2>1. \A s \in Slot : slot'[s] # slot[s] => s = Idle
    BY <1>1, SeenType DEF CopyErase, CopyHead, CopyTail, TypeOK, Slot, Idle
  <2>2. Good(1 - Idle)
    BY <1>1, IdleGood DEF CopyErase, CopyHead, CopyTail, CopyPcs
  <2>3. ~AppRuns
    BY <1>1 DEF CopyErase, CopyHead, CopyTail, AppRuns, AppPcs, WritePcs
  <2> QED BY <2>1, <2>2, <2>3
<1>2. CASE ~(CopyErase \/ CopyHead \/ CopyTail)
  <2>1. slot' = slot
    BY <1>2 DEF vars, flash, Next, FlagWrite, FlagErase, FlagProgram, HdrErase,
       HdrProgram, Loader, HostOverride, ClearCookie, NoUpgrade, BadSource,
       AlreadyThere, StartCopy, VerifyOk, VerifyFail, Jump, StayInCli, App, AppInit,
       StartDownload, AbortDownload, FinishDownload, UpgradeCommitOtaFlag,
       Reboot, PowerLoss
  <2> QED BY <2>1
<1> QED BY <1>1, <1>2

\* The loader works on the idle slot only, and never while it is the last one
\* that could be started.
THEOREM TouchesIdleSlotOnly == ~Faults => (Spec => IdleSlotOnly)
<1>1. TypeOK /\ Sound /\ [Next]_vars =>
        [\A s \in Slot : slot'[s] # slot[s] => Good(1 - s) /\ ~AppRuns]_vars
  BY IdleSlotStep
<1> QED BY <1>1, SpecSound, PTL DEF Spec, IdleSlotOnly

-----------------------------------------------------------------------------
\* The refinement: what SafeUpdate sees of a slot, and its steps.
LEMMA HaveType ==
  ASSUME TypeOK, NEW s \in Slot
  PROVE  /\ Have(s) # None <=> Good(s)
         /\ Have(s) \in Image \cup {None}
BY AbOtaAssumption DEF Have, Good, AppImageValid, TypeOK, Content

LEMMA RefinementStep ==
  ASSUME ~Faults, TypeOK, Sound, ~spoilt, [Next]_vars
  PROVE  [Safe!Next]_(Safe!vars)
<1> DEFINE have == [s \in Slot |-> Have(s)]
<1>13. ~spoilt' /\ [HostNext]_vars
  BY NextSpoilsNot DEF HostNext
<1>0. TypeOK' /\ Sound'
  BY <1>13, TypeStep, SoundStep
<1> USE <1>0 DEF Safe!vars
<1>1. CASE slot' = slot /\ Running' = Running
  BY <1>1 DEF Have, Good, AppImageValid
<1>2. CASE FlagWrite
  <2>1. slot' = slot /\ run' = run
    BY <1>2 DEF FlagWrite, FlagErase, FlagProgram, HdrErase, HdrProgram
  <2>2. AppRuns' = AppRuns
    BY <1>2 DEF FlagWrite, FlagErase, FlagProgram, HdrErase, HdrProgram, AppRuns,
                AppPcs, WritePcs, TypeOK
  <2> QED BY <1>1, <2>1, <2>2 DEF Running
<1>3. CASE HostOverride \/ BadSource \/ AlreadyThere \/ VerifyOk
  <2> DEFINE Writes == /\ slot' = slot /\ pc \in {"boot", "verify"}
                       /\ pc' = "flagErase" /\ wr'.next # "reboot"
  <2>3. HostOverride => Writes
    BY DEF HostOverride, OtaFlagCommitDone, StartWrite, flash
  <2>4. BadSource => Writes
    BY DEF BadSource, FwUpgrade, OtaFlagClear, StartWrite, flash
  <2>5. AlreadyThere => Writes
    BY DEF AlreadyThere, FwUpgrade, OtaFlagCommitDone, StartWrite, flash
  <2>6. VerifyOk => Writes
    BY DEF VerifyOk, OtaFlagCommitDone, StartWrite, flash
  <2>1. Writes
    BY <1>3, <2>3, <2>4, <2>5, <2>6
  <2>2. ~AppRuns /\ ~AppRuns'
    BY <2>1 DEF AppRuns, AppPcs, WritePcs
  <2> QED BY <1>1, <2>1, <2>2 DEF Running
<1>11. CASE ClearCookie \/ NoUpgrade \/ StartCopy \/ VerifyFail \/ StayInCli
  <2>1. slot' = slot /\ ~AppRuns /\ ~AppRuns'
    BY <1>11 DEF ClearCookie, NoUpgrade, FwUpgrade, StartCopy, VerifyFail, StayInCli,
                 flash, AppRuns, AppPcs, WritePcs
  <2> QED BY <1>1, <2>1 DEF Running
<1>4. CASE CopyErase
  <2>1. ~AppRuns /\ ~AppRuns'
    BY <1>4 DEF CopyErase, AppRuns, AppPcs, WritePcs
  <2>2. have' = [have EXCEPT ![Idle] = None]
    BY <1>4, SeenType DEF CopyErase, Have, Good, AppImageValid, Blank, TypeOK
  <2>3. have[1 - Idle] # None
    BY <1>4, IdleGood, HaveType, SeenType DEF CopyErase, CopyPcs, Idle, Slot
  <2> QED BY <2>1, <2>2, <2>3, SeenType DEF Running, Safe!Next, Safe!GiveUp, Safe!Slot, Slot
<1>5. CASE CopyHead
  <2>1. ~AppRuns /\ ~AppRuns'
    BY <1>5 DEF CopyHead, AppRuns, AppPcs, WritePcs
  <2>2. have' = have
    BY <1>5, SeenType DEF CopyHead, Sound, Copying, CopyPcs, Have, Good, AppImageValid,
       Blank, Torn, TypeOK
  <2> QED BY <2>1, <2>2 DEF Running
<1>6. CASE CopyTail
  <2>1. ~AppRuns /\ ~AppRuns'
    BY <1>6 DEF CopyTail, AppRuns, AppPcs, WritePcs
  <2>2. have[Idle] = None
    BY <1>6, SeenType DEF CopyTail, Sound, Copying, CopyPcs, Have, Good, Torn
  <2>3. \A s \in Slot \ {Idle} : slot'[s] = slot[s]
    BY <1>6, SeenType DEF CopyTail, TypeOK
  <2>4. have' = [have EXCEPT ![Idle] = have'[Idle]]
    BY <2>3, SeenType DEF Have, Good, AppImageValid
  <2>5. have'[Idle] \in Image \cup {None}
    BY SeenType DEF Have, Good, AppImageValid, TypeOK, Content
  <2> QED BY <2>1, <2>2, <2>4, <2>5, SeenType
          DEF Running, Safe!Next, Safe!Install, Safe!Slot, Slot
<1>7. CASE Jump
  <2>1. ~AppRuns /\ AppRuns' /\ slot' = slot /\ run' \in Slot
    BY <1>7 DEF Jump, AppRuns, AppPcs, WritePcs, flash, TypeOK
  <2>2. Good(run)'
    BY <1>13, <2>1 DEF Sound, BootIntact
  <2>3. have' = have /\ have[run'] # None
    BY <2>1, <2>2, HaveType DEF Have, Good, AppImageValid
  <2> QED BY <2>1, <2>3 DEF Running, Safe!Next, Safe!Start, Safe!Slot, Slot
<1>8. CASE Reboot \/ PowerLoss
  <2>1. slot' = slot /\ ~AppRuns'
    BY <1>8 DEF Reboot, PowerLoss, Restart, flash, AppRuns, AppPcs, WritePcs
  <2>2. have' = have
    BY <2>1 DEF Have, Good, AppImageValid
  <2>3. CASE AppRuns
    BY <2>1, <2>2, <2>3, AbOtaAssumption DEF Running, Safe!Next, Safe!Stop, TypeOK
  <2> QED BY <1>1, <2>1, <2>3 DEF Running
<1>9. CASE AppInit \/ (\E i \in Image : StartDownload(i)) \/ AbortDownload
           \/ FinishDownload
  <2>1. slot' = slot /\ run' = run /\ AppRuns /\ AppRuns'
    BY <1>9 DEF AppInit, StartDownload, AbortDownload, FinishDownload,
                flash, AppRuns, AppPcs
  <2> QED BY <1>1, <2>1 DEF Running
<1>12. CASE UpgradeCommitOtaFlag
  <2>1. /\ slot' = slot /\ run' = run /\ pc = "commit"
        /\ pc' = "flagErase" /\ wr'.next = "reboot"
    BY <1>12 DEF UpgradeCommitOtaFlag, StartWrite, flash
  <2> QED BY <1>1, <2>1 DEF Running, AppRuns, AppPcs, WritePcs
<1>10. CASE UNCHANGED vars
  BY <1>1, <1>10 DEF vars, flash, Running, AppRuns
<1> QED
  BY <1>2, <1>3, <1>4, <1>5, <1>6, <1>7, <1>8, <1>9, <1>10,
     <1>11, <1>12
  DEF Next, Loader, App

\* The A/B update with its flag, its copy and its power failures implements
\* the update that gives up a slot only while the other one can be started.
THEOREM ImplementsSafeUpdate == ~Faults => (Spec => Safely)
<1> SUFFICES ASSUME ~Faults PROVE Spec => Safely
  OBVIOUS
<1>1. Init => Safe!Init
  <2> SUFFICES ASSUME Init PROVE Safe!Init
    OBVIOUS
  <2>1. TypeOK /\ Good(0) /\ ~AppRuns
    BY BoardType DEF Init, Board, AppRuns, AppPcs, WritePcs
  <2>2. Have(0) # None /\ \A s \in Slot : Have(s) \in Image \cup {None}
    BY <2>1, HaveType DEF Slot
  <2> QED BY <2>1, <2>2 DEF Safe!Init, Safe!Slot, Slot, Running
<1>2. TypeOK /\ Sound /\ ~spoilt /\ [Next]_vars => [Safe!Next]_(Safe!vars)
  BY RefinementStep
<1> QED BY <1>1, <1>2, SpecSound, PTL DEF Spec, Safely

-----------------------------------------------------------------------------
(* The application an operator loaded, from the load of the cookie on.     *)

HostRecord == Flag(0, FALSE, None)

\* The cookie is there until the record it calls for is written.
CookieSet ==
  /\ cookie = 0
  /\ \/ pc = "boot"
     \/ pc \in WritePcs /\ wr = [rec |-> HostRecord, next |-> "cookie"]
        /\ (pc \in {"hdrErase", "hdrProgram"} => flag = HostRecord)
     \/ pc = "cookie" /\ flag = HostRecord /\ hdr = "ok"

\* The cookie is gone: the record makes APP1 active, and nothing is pending.
CookieDone ==
  /\ cookie = None
  /\ flag = HostRecord /\ hdr = "ok"
  /\ pc \in {"boot", "select"}

\* The cookie was loaded beside a whole APP1, and no application started since:
\* the loader has APP1 in hand.
Called == host = "cookie" /\ ~spoilt
HostKept == Called => AppImageValid(0) /\ cur = 0 /\ (CookieSet \/ CookieDone)

\* While the record stands, APP1 is what the loader chooses.
LEMMA RecordChooses ==
  ASSUME flag = HostRecord, hdr = "ok"
  PROVE  /\ ~Pending
         /\ cur = 0 /\ AppImageValid(0) => Choice = 0
BY DEF HostRecord, Flag, Pending, Seen, Choice, BootResolve

\* What a reset keeps of it.
LEMMA RestartHost ==
  ASSUME HostKept, Called, Restart, UNCHANGED <<flash, host, spoilt>>
  PROVE  HostKept'
BY DEF HostKept, Called, Restart, flash, AppImageValid, CookieSet, CookieDone

\* One step: the record is written before the cookie is cleared, so that no
\* pending update is seen in between.
LEMMA HostStepKept ==
  ASSUME TypeOK, HostKept, [HostNext]_vars
  PROVE  /\ HostKept'
         /\ Called => /\ slot'[0] = slot[0] \/ host' = "app1"
                      /\ pc' = "appInit" => run' = 0
<1> None \notin Slot /\ 0 # None
  BY AbOtaAssumption DEF Slot
<1> USE DEF Called
<1>1. CASE ~Called /\ host' = host /\ spoilt' = spoilt
  BY <1>1 DEF HostKept
<1>2. CASE Called /\ (FlagErase \/ FlagProgram \/ HdrErase)
  <2>1. CookieSet /\ pc \in WritePcs
    BY <1>2 DEF HostKept, FlagErase, FlagProgram, HdrErase, CookieSet, CookieDone, WritePcs
  <2>2. /\ slot' = slot /\ cookie' = cookie /\ cur' = cur /\ wr' = wr
        /\ host' = host /\ spoilt' = spoilt
        /\ pc' \in {"flagProgram", "hdrErase", "hdrProgram"}
    BY <1>2 DEF FlagErase, FlagProgram, HdrErase
  <2>3. /\ wr = [rec |-> HostRecord, next |-> "cookie"] /\ cookie = 0
        /\ pc \in {"hdrErase", "hdrProgram"} => flag = HostRecord
    BY <2>1 DEF CookieSet, WritePcs
  <2>4. pc' \in {"hdrErase", "hdrProgram"} => flag' = HostRecord
    <3>1. CASE FlagErase
      BY <3>1 DEF FlagErase
    <3>2. CASE FlagProgram
      BY <2>3, <3>2 DEF FlagProgram
    <3>3. CASE HdrErase
      BY <2>3, <3>3 DEF HdrErase
    <3> QED BY <1>2, <3>1, <3>2, <3>3
  <2>5. CookieSet'
    BY <2>2, <2>3, <2>4 DEF CookieSet, WritePcs
  <2> QED BY <1>2, <2>2, <2>5 DEF HostKept, AppImageValid
<1>3. CASE Called /\ HdrProgram
  <2>1. /\ CookieSet /\ wr.next = "cookie" /\ flag = HostRecord
    BY <1>3 DEF HostKept, HdrProgram, CookieSet, CookieDone, WritePcs
  <2> QED BY <1>3, <2>1 DEF HostKept, HdrProgram, CookieSet, AppImageValid
<1>4. CASE Called /\ HostOverride
  <2>1. CookieSet
    BY <1>4 DEF HostKept, HostOverride, CookieDone
  <2> QED BY <1>4, <2>1 DEF HostKept, HostOverride, OtaFlagCommitDone, StartWrite,
       CookieSet, WritePcs, AppImageValid, flash, HostRecord
<1>5. CASE Called /\ ClearCookie
  <2>1. flag = HostRecord /\ hdr = "ok"
    BY <1>5 DEF HostKept, ClearCookie, CookieSet, CookieDone, WritePcs
  <2> QED BY <1>5, <2>1 DEF HostKept, ClearCookie, CookieDone, AppImageValid
<1>6. CASE Called /\ pc = "boot" /\ cookie = None
           /\ (NoUpgrade \/ BadSource \/ AlreadyThere \/ StartCopy)
  <2>1. CookieDone /\ ~Pending
    BY <1>6, RecordChooses DEF HostKept, CookieSet, CookieDone
  <2>2. NoUpgrade
    BY <1>6, <2>1 DEF BadSource, AlreadyThere, StartCopy, FwUpgrade
  <2> QED BY <1>6, <2>1, <2>2 DEF HostKept, NoUpgrade, CookieDone, AppImageValid, flash
<1>7. CASE Called /\ (CopyErase \/ CopyHead \/ CopyTail \/ VerifyOk \/ VerifyFail)
  BY <1>7 DEF HostKept, CopyErase, CopyHead, CopyTail, VerifyOk, VerifyFail,
     CookieSet, CookieDone, WritePcs
<1>8. CASE Called /\ (Jump \/ StayInCli)
  <2>1. CookieDone /\ AppImageValid(0) /\ cur = 0
    BY <1>8 DEF HostKept, Jump, StayInCli, CookieSet, WritePcs
  <2>2. Choice = 0
    BY <2>1, RecordChooses DEF CookieDone
  <2> QED BY <1>8, <2>2 DEF HostKept, Jump, StayInCli, flash
<1>9. CASE Called /\ App /\ ~Reboot
  BY <1>9 DEF HostKept, App, AppInit, StartDownload, AbortDownload, FinishDownload,
     UpgradeCommitOtaFlag, CookieSet, CookieDone, WritePcs
<1>10. CASE Called /\ (Reboot \/ PowerLoss)
  <2>1. Restart /\ UNCHANGED <<flash, host, spoilt>>
    BY <1>10 DEF Reboot, PowerLoss
  <2>2. slot' = slot /\ pc' = "boot"
    BY <2>1 DEF Restart, flash
  <2> QED BY <1>10, <2>1, <2>2, RestartHost
<1>11. CASE Host
  <2>1. pc' = "boot" /\ cur' = 0
    BY <1>11 DEF Host, HostLoadApp1, HostLoadApp2, HostLoadCookie, Restart
  <2>2. ASSUME NEW i \in Image, HostLoadApp1(i) \/ HostLoadApp2(i)
        PROVE  host' # "cookie" /\ (host # "cookie" \/ host' = "app1")
    BY <2>2 DEF HostLoadApp1, HostLoadApp2
  <2>3. CASE HostLoadCookie
    <3>1. host # "cookie" /\ cookie' = 0 /\ slot' = slot
      BY <2>3 DEF HostLoadCookie
    <3>2. ~spoilt' => AppImageValid(0)'
      BY <2>3, <3>1 DEF HostLoadCookie, Good, AppImageValid
    <3> QED BY <2>1, <3>1, <3>2 DEF HostKept, CookieSet
  <2> QED BY <1>11, <2>1, <2>2, <2>3 DEF Host, HostKept
<1>12. CASE UNCHANGED vars
  BY <1>12 DEF vars, flash, HostKept, CookieSet, CookieDone, AppImageValid, WritePcs
<1>13. CASE ~Called /\ Jump
  BY <1>13 DEF Jump, HostKept
<1>14. ASSUME Next, ~Jump PROVE host' = host /\ spoilt' = spoilt
  BY <1>14 DEF flash, Next, FlagWrite, FlagErase, FlagProgram, HdrErase, HdrProgram,
     Loader, HostOverride, ClearCookie, NoUpgrade, BadSource, AlreadyThere, StartCopy,
     CopyErase, CopyHead, CopyTail, VerifyOk, VerifyFail, StayInCli, App, AppInit,
     StartDownload, AbortDownload, FinishDownload, UpgradeCommitOtaFlag,
     Reboot, PowerLoss
<1>15. CASE NoUpgrade \/ BadSource \/ AlreadyThere \/ StartCopy
  <2>1. pc = "boot" /\ cookie = None
    BY <1>15 DEF NoUpgrade, BadSource, AlreadyThere, StartCopy, FwUpgrade
  <2> QED BY <1>1, <1>6, <1>14, <1>15, <2>1 DEF Next, Loader, Jump, NoUpgrade,
       BadSource, AlreadyThere, StartCopy, FwUpgrade
<1> QED BY <1>1, <1>2, <1>3, <1>4, <1>5, <1>7, <1>8, <1>9, <1>10, <1>11, <1>12, <1>13,
     <1>14, <1>15 DEF HostNext, Next, FlagWrite, Loader, App

\* Only the load of the cookie makes the session one whose cookie is loaded.
LEMMA HostOnlyByHost ==
  ASSUME [HostNext]_vars, host' = "cookie", host # "cookie"
  PROVE  HostLoadCookie
BY DEF vars, flash, HostNext, Host, HostLoadApp1, HostLoadApp2, Next, FlagWrite,
   FlagErase, FlagProgram, HdrErase, HdrProgram, Loader, HostOverride, ClearCookie,
   NoUpgrade, BadSource, AlreadyThere, StartCopy, CopyErase, CopyHead, CopyTail,
   VerifyOk, VerifyFail, Jump, StayInCli, App, AppInit, StartDownload, AbortDownload,
   FinishDownload, UpgradeCommitOtaFlag, Reboot, PowerLoss

\* When the cookie is loaded, APP1 is whole or a copy to it is pending.
LEMMA CookieFinds ==
  ASSUME IInv, ~spoilt, HostLoadCookie
  PROVE  slot[0].whole \/ (Pending /\ Idle = 0)
BY DEF IInv, Sound, Loaded, UnderCopy, HostLoadCookie

\* From the load of the cookie on an application the operator loaded is not
\* overwritten by a pending update, and is what runs next, wherever power fails;
\* the cookie finds it half written only while an update for APP1 is pending.
THEOREM KeepsHostImage == ~Faults => (HostSpec => HostImageKept)
<1> SUFFICES ASSUME ~Faults PROVE HostSpec => HostImageKept
  OBVIOUS
<1>1. Board => HostKept
  BY DEF Board, HostKept, Called
<1>2. TypeOK /\ HostKept /\ [HostNext]_vars => HostKept'
  BY HostStepKept
<1>3. IInv /\ HostKept /\ [HostNext]_vars =>
        [/\ host = "cookie" /\ ~spoilt =>
              /\ slot'[0] = slot[0] \/ host' = "app1"
              /\ pc' = "appInit" => run' = 0
         /\ host' = "cookie" /\ host # "cookie" /\ ~spoilt =>
              slot[0].whole \/ (Pending /\ Idle = 0)]_vars
  <2> SUFFICES ASSUME IInv, HostKept, [HostNext]_vars
               PROVE  /\ host = "cookie" /\ ~spoilt =>
                           /\ slot'[0] = slot[0] \/ host' = "app1"
                           /\ pc' = "appInit" => run' = 0
                      /\ host' = "cookie" /\ host # "cookie" /\ ~spoilt =>
                           slot[0].whole \/ (Pending /\ Idle = 0)
    OBVIOUS
  <2>1. TypeOK
    BY DEF IInv
  <2>2. host' = "cookie" /\ host # "cookie" => HostLoadCookie
    BY HostOnlyByHost
  <2> QED BY <2>1, <2>2, HostStepKept, CookieFinds DEF Called
<1> QED BY <1>1, <1>2, <1>3, TypeCorrect, IInvCorrect, PTL DEF HostSpec, HostImageKept
=============================================================================
