----------------------------- MODULE PartsProofs -----------------------------
(***************************************************************************)
(* The composition of the parts.  They share no variable, so a behaviour   *)
(* of the composition is one of each part, in which the steps of the       *)
(* others are stuttering: what is proved of a part holds of the            *)
(* composition that the run of MCParts checks, for any constants.          *)
(***************************************************************************)
EXTENDS MCParts, RecordersProofs, SavedFilesProofs, ActionPartsProofs, TLAPS

-----------------------------------------------------------------------------
(* Part by part. *)

\* A behaviour of the composition is one of the lifecycle watchdog.
LEMMA WatchdogSteps == PartsSpec => LwSpec
<1>1. PartsInit => LwInit
  BY DEF PartsInit
<1>2. [PartsNext]_<<part, partsVars>> => [LwNext]_lwVars
  BY DEF PartsNext, partsVars
<1>3. QED
  BY <1>1, <1>2, PTL DEF PartsSpec, LwSpec

\* A behaviour of the composition is one of the downloads.
LEMMA DownloadSteps == PartsSpec => DlSpec
<1>1. PartsInit => DlInit
  BY DEF PartsInit
<1>2. [PartsNext]_<<part, partsVars>> => [DlNext]_dlVars
  BY DEF PartsNext, partsVars
<1>3. QED
  BY <1>1, <1>2, PTL DEF PartsSpec, DlSpec

\* A behaviour of the composition is one of the HAR recorder.
LEMMA HarSteps == PartsSpec => HrSpec
<1>1. PartsInit => HrInit
  BY DEF PartsInit
<1>2. [PartsNext]_<<part, partsVars>> => [HrNext]_hrVars
  BY DEF PartsNext, partsVars
<1>3. QED
  BY <1>1, <1>2, PTL DEF PartsSpec, HrSpec

\* A behaviour of the composition is one of the video recorder.
LEMMA VideoSteps == PartsSpec => VrSpec
<1>1. PartsInit => VrInit
  BY DEF PartsInit
<1>2. [PartsNext]_<<part, partsVars>> => [VrNext]_vrVars
  BY DEF PartsNext, partsVars
<1>3. QED
  BY <1>1, <1>2, PTL DEF PartsSpec, VrSpec

\* A behaviour of the composition is one of the storage state.
LEMMA StorageSteps == PartsSpec => StSpec
<1>1. PartsInit => StInit
  BY DEF PartsInit
<1>2. [PartsNext]_<<part, partsVars>> => [StNext]_stVars
  BY DEF PartsNext, partsVars
<1>3. QED
  BY <1>1, <1>2, PTL DEF PartsSpec, StSpec

\* A behaviour of the composition is one of key input.
LEMMA KeySteps == PartsSpec => KiSpec
<1>1. PartsInit => KiInit
  BY DEF PartsInit
<1>2. [PartsNext]_<<part, partsVars>> => [KiNext]_kiVars
  BY DEF PartsNext, partsVars
<1>3. QED
  BY <1>1, <1>2, PTL DEF PartsSpec, KiSpec

\* A behaviour of the composition is one of the element captures.
LEMMA ElementSteps == PartsSpec => EiSpec
<1>1. PartsInit => EiInit
  BY DEF PartsInit
<1>2. [PartsNext]_<<part, partsVars>> => [EiNext]_eiVars
  BY DEF PartsNext, partsVars
<1>3. QED
  BY <1>1, <1>2, PTL DEF PartsSpec, EiSpec

\* A behaviour of the composition is one of a replay.
LEMMA ReplaySteps == PartsSpec => RpSpec
<1>1. PartsInit => RpInit
  BY DEF PartsInit
<1>2. [PartsNext]_<<part, partsVars>> => [RpNext]_rpVars
  BY DEF PartsNext, partsVars
<1>3. QED
  BY <1>1, <1>2, PTL DEF PartsSpec, RpSpec

\* A behaviour of the composition is one of the managed files.
LEMMA FileSteps == PartsSpec => MfSpec
<1>1. PartsInit => MfInit
  BY DEF PartsInit
<1>2. [PartsNext]_<<part, partsVars>> => [MfNext]_mfVars
  BY DEF PartsNext, partsVars
<1>3. QED
  BY <1>1, <1>2, PTL DEF PartsSpec, MfSpec

\* A behaviour of the composition is one of the stored sessions.
LEMMA SessionSteps == PartsSpec => DsSpec
<1>1. PartsInit => DsInit
  BY DEF PartsInit
<1>2. [PartsNext]_<<part, partsVars>> => [DsNext]_dsVars
  BY DEF PartsNext, partsVars
<1>3. QED
  BY <1>1, <1>2, PTL DEF PartsSpec, DsSpec

\* A behaviour of the composition is one of the writers of artifacts.
LEMMA ArtifactSteps == PartsSpec => ArSpec
<1>1. PartsInit => ArInit
  BY DEF PartsInit
<1>2. [PartsNext]_<<part, partsVars>> => [ArNext]_arVars
  BY DEF PartsNext, partsVars
<1>3. QED
  BY <1>1, <1>2, PTL DEF PartsSpec, ArSpec

\* A behaviour of the composition is one of the executor.
LEMMA ExecutorSteps == PartsSpec => XeSpec
<1>1. PartsInit => XeInit
  BY DEF PartsInit
<1>2. [PartsNext]_<<part, partsVars>> => [XeNext]_xeVars
  BY DEF PartsNext, partsVars
<1>3. QED
  BY <1>1, <1>2, PTL DEF PartsSpec, XeSpec

-----------------------------------------------------------------------------
(* What the run of MCParts checks holds of the composition. *)

\* The composition implements each of its parts: it adds no behaviour to any.
THEOREM PartsAreImplemented ==
  PartsSpec => /\ LwSpec /\ DlSpec /\ HrSpec /\ VrSpec /\ StSpec /\ KiSpec
               /\ EiSpec /\ RpSpec /\ MfSpec /\ DsSpec /\ ArSpec /\ XeSpec
BY WatchdogSteps, DownloadSteps, HarSteps, VideoSteps, StorageSteps, KeySteps,
   ElementSteps, ReplaySteps, FileSteps, SessionSteps, ArtifactSteps, ExecutorSteps, PTL

\* Every variable of every part keeps its type, in the composition.
THEOREM PartsAreTyped == PartsSpec => []PartsTypeOK
<1>1. /\ LwTypeOK /\ DlTypeOK /\ HrTypeOK /\ VrTypeOK /\ StTypeOK /\ KiTypeOK
      /\ EiTypeOK /\ RpTypeOK /\ MfTypeOK /\ DsTypeOK /\ ArTypeOK /\ XeTypeOK
      => PartsTypeOK
  BY DEF PartsTypeOK
<1>2. PartsSpec => [](/\ LwTypeOK /\ DlTypeOK /\ HrTypeOK /\ VrTypeOK /\ StTypeOK /\ KiTypeOK)
  BY PartsAreImplemented, LifecycleIsTyped, DownloadsAreTyped, HarIsTyped, VideoIsTyped,
     StorageIsTyped, KeysAreTyped, PTL
<1>3. PartsSpec => [](/\ EiTypeOK /\ RpTypeOK /\ MfTypeOK /\ DsTypeOK /\ ArTypeOK /\ XeTypeOK)
  BY PartsAreImplemented, ElementsAreTyped, ReplayIsTyped, ManagedFilesAreTyped,
     SessionsAreTyped, ArtifactsAreTyped, ExecutorIsTyped, PTL
<1>4. QED
  BY <1>1, <1>2, <1>3, PTL

\* In the composition, too, nothing recorded, written, downloaded or replayed is
\* of another page, request, document or element than it should be.
THEOREM PartsAreSafe ==
  PartsSpec => /\ [](/\ CachedFileHoldsDocument /\ WrittenAnswersAreOfTheirUrls
                     /\ VideoFollowsTheTabs /\ KeysAreReleased)
               /\ [](/\ ActsOnShownElement /\ ActsOnOriginalElement /\ ActsOnSeenPage)
               /\ [](/\ ManagedFilesAgree /\ RunningBrowsersAreRecorded /\ ReportedFilesHold)
               /\ EarlyIdleIsTrue /\ SavedStateWasHeld
<1>1. PartsSpec => [](/\ CachedFileHoldsDocument /\ WrittenAnswersAreOfTheirUrls
                      /\ VideoFollowsTheTabs /\ KeysAreReleased)
  BY PartsAreImplemented, DownloadsHold, WrittenAnswersHold, VideosFollowTheTabs, KeysAreLetGo, PTL
<1>2. PartsSpec => [](/\ ActsOnShownElement /\ ActsOnOriginalElement /\ ActsOnSeenPage)
  BY PartsAreImplemented, ElementsAreShown, ActionsFindTheirElement, ActionsMeetSeenPage, PTL
<1>3. PartsSpec => [](/\ ManagedFilesAgree /\ RunningBrowsersAreRecorded /\ ReportedFilesHold)
  BY PartsAreImplemented, ManagedFilesHold, BrowsersAreRecorded, ArtifactsHold, PTL
<1>4. PartsSpec => EarlyIdleIsTrue /\ SavedStateWasHeld
  BY PartsAreImplemented, EarlyIdleHolds, SavedStatesWereHeld, PTL
<1>5. QED
  BY <1>1, <1>2, <1>3, <1>4, PTL
=============================================================================
