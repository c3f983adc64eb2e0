------------------------- MODULE LoaderMediaProofs -------------------------
(***************************************************************************)
(* Theorems of LoaderMedia, for every set of blobs.                        *)
(***************************************************************************)
EXTENDS LoaderMedia, TLAPS

\* What a copy holds is one of these, whichever update wrote it.
LEMMA Contents ==
  /\ Blank \in Content
  /\ \A b \in Blob : Whole(b) \in Content /\ Torn(b) \in Content
  /\ \A b \in Blob : Whole(b).whole /\ Whole(b).blob = b /\ ~Torn(b).whole
  /\ \A b, c \in Blob : Whole(b) = Whole(c) => b = c
BY DEF Content, Blank, Whole, Torn

LEMMA InitIInv == ASSUME Init PROVE IInv
BY Contents, LoaderMediaAssumption
   DEF Init, IInv, TypeOK, Survival, Success, SpiLoads, BkLoads, Loadable, BkPcs, SpiPcs

LEMMA StepIInv == ASSUME IInv, [Next]_vars PROVE IInv'
<1> USE Contents DEF IInv, TypeOK, Survival, Success, SpiLoads, BkLoads, Loadable,
                    BkPcs, SpiPcs
<1>1. CASE Stage0Loader \/ Stage0Xmodem \/ Stage0FailSafe \/ JumpToApp
  BY <1>1 DEF Stage0Loader, Stage0Xmodem, Stage0FailSafe, JumpToApp
<1>2. CASE AppInit
  BY <1>2 DEF AppInit
<1>3. CASE \E b \in Blob : StartUpdate(b)
  BY <1>3 DEF StartUpdate
<1>4. CASE BkErase \/ BkProgram
  BY <1>4 DEF BkErase, BkProgram
<1>5. CASE SkipSpi
  BY <1>5 DEF SkipSpi, SpiMatches
<1>6. CASE WriteSpi \/ TooBigForSpi
  BY <1>6 DEF WriteSpi, TooBigForSpi
<1>7. CASE SpiErase \/ SpiProgram
  BY <1>7 DEF SpiErase, SpiProgram
<1>8. CASE HdrErase \/ HdrProgram
  BY <1>8 DEF HdrErase, HdrProgram
<1>9. CASE PowerLoss
  BY <1>9 DEF PowerLoss
<1>10. CASE UNCHANGED vars
  BY <1>10 DEF vars
<1> QED
  BY <1>1, <1>2, <1>3, <1>4, <1>5, <1>6, <1>7, <1>8, <1>9, <1>10 DEF Next

\* Every variable keeps its type.
THEOREM TypeCorrect == Spec => []TypeOK
<1>1. IInv => TypeOK
  BY DEF IInv
<1> QED BY <1>1, InitIInv, StepIInv, PTL DEF Spec

\* One power failure during an update never leaves the board without a loader.
THEOREM SurvivesOneLoss == Spec => []OneLossSurvived
<1>1. IInv => OneLossSurvived
  BY DEF IInv, Survival, OneLossSurvived, BkPcs
<1> QED BY <1>1, InitIInv, StepIInv, PTL DEF Spec

\* A reported success is what stage 0 runs from then on.
THEOREM BootsReportedSuccess == Spec => []SuccessIsBooted
<1>1. IInv => SuccessIsBooted
  <2> SUFFICES ASSUME IInv, done # None PROVE Stage0Choice = done
    BY DEF SuccessIsBooted
  <2>1. done \in Blob /\ bk = Whole(done) /\ (SpiLoads => spi = Whole(done))
    BY DEF IInv, TypeOK, Success
  <2> QED BY <2>1, Contents DEF Stage0Choice, BkLoads
<1> QED BY <1>1, InitIInv, StepIInv, PTL DEF Spec
=============================================================================
