--------------------------- MODULE RecordersProofs ---------------------------
(***************************************************************************)
(* What listens to a session and what ends it: LifecycleWatchdog,          *)
(* HarRecorder, VideoRecorder and StorageState.  The events of requests,   *)
(* answers and frames arrive late, or not at all; what is concluded from   *)
(* them, and what is written, is proved for any number of requests, hops,  *)
(* pages, frames and origins, any buffer and any time.                     *)
(***************************************************************************)
EXTENDS LifecycleWatchdog, HarRecorder, VideoRecorder, StorageState, SequenceTheorems,
        FiniteSetTheorems, TLAPS

LwSpec == LwInit /\ [][LwNext]_lwVars
HrSpec == HrInit /\ [][HrNext]_hrVars
VrSpec == VrInit /\ [][VrNext]_vrVars
StSpec == StInit /\ [][StNext]_stVars

-----------------------------------------------------------------------------
(* LifecycleWatchdog: the inductive invariant *)

LwKinds == {"start", "end", "dialog", "frame", "websocket", "crash", "download"}
LwEventSet == [kind : LwKinds, req : SUBSET Requests]
LwTyped ==
  /\ lwReq \in [Requests -> {"unsent", "sent", "ended", "lost"}]
  /\ lwEvents \in Seq(LwEventSet)
  /\ lwBusy.req \subseteq Requests
  /\ lwNow \in Nat /\ lwWait \in Nat

\* Only the start and the end of a request name it, and a request whose end was
\* published, or is being handled, has ended and stays so.
EndsAreEnds ==
  /\ \A i \in 1..Len(lwEvents) :
       /\ lwEvents[i].kind \notin {"start", "end"} => lwEvents[i].req = {}
       /\ lwEvents[i].kind = "end" => \A r \in lwEvents[i].req : lwReq[r] = "ended"
  /\ lwBusy.kind = "entry" => \A r \in lwBusy.req : lwReq[r] = "ended"

\* A request Chrome is loading counts for network idle, unless its start has
\* not been read yet or an event of it was dropped.
LoadingIsKnown == \A r \in Requests : lwReq[r] = "sent" => r \in lwNet \cup lwMissed \/ Unread(r)

LwInv == LwTyped /\ EndsAreEnds /\ LoadingIsKnown

-----------------------------------------------------------------------------
(* HarRecorder: the inductive invariant *)

HarEntries == [url : Hops \cup {0}, response : Hops \cup {0}, data : BOOLEAN,
               finished : BOOLEAN, failed : BOOLEAN, body : BOOLEAN]
HrTyped ==
  /\ hrHop \in [HarRequests -> Hops \cup {0}]
  /\ hrStage \in [HarRequests -> {"unsent", "sent", "answered", "loaded", "failed"}]
  /\ hrEntries \in [HarRequests -> HarEntries]
  /\ hrFetching \in HarRequests \cup {NoRequest}

\* What an entry holds: an https URL or none, and the answer of that URL.
EntryIsRight(r, e) ==
  /\ e.url # 0 => IsHttps(r, e.url)
  /\ e.response \in {0, e.url} \/ r \in hrGap \/ ~IsHttps(r, e.response)

\* Until it is answered an entry has no answer, and its URL is that of the hop
\* Chrome is at, when the recorder has seen every hop and may record this one.
EntryIsUpToDate(r, e) ==
  hrStage[r] \in {"unsent", "sent"} =>
    /\ e.response = 0
    /\ hrHop[r] # 0 /\ r \notin hrGap /\ IsHttps(r, hrHop[r]) => e.url = hrHop[r]

HrInv ==
  /\ HrTyped
  /\ \A r \in HarRequests : EntryIsRight(r, hrEntries[r]) /\ EntryIsUpToDate(r, hrEntries[r])
  /\ WrittenAnswersAreOfTheirUrls

-----------------------------------------------------------------------------
(* VideoRecorder: the inductive invariant *)

VrTyped ==
  /\ vrVisit \in Nat /\ vrActive \in 0..vrVisit
  /\ vrFrames \in Seq(Nat) /\ vrVideo.frames \in Seq(Nat)

\* No frame is of a page that became current after the one that is cast.
FramesAreOfActive == \A i \in 1..Len(vrFrames) : vrFrames[i] <= vrActive

VrInv == VrTyped /\ FramesAreOfActive /\ VideoFollowsTheTabs

-----------------------------------------------------------------------------
(* StorageState: the inductive invariant *)

StFiles == [kind : {"none", "torn", "written"}, cookies : Versions, items : [Origins -> Versions]]
StStates == [cookies : Versions, items : [Origins -> Versions]]
StHistories == [cookies : SUBSET Versions, items : [Origins -> SUBSET Versions], stayed : BOOLEAN]
StBounds ==
  /\ stItems \in [Origins -> Versions] /\ stScripts \in [Origins -> Versions]
  /\ stFile \in StFiles /\ stSnap \in StStates /\ stCookies \in Versions
  /\ stTop \in Origins /\ stFrames \subseteq Origins /\ stTodo \subseteq Origins
  /\ stHeld \in StHistories /\ stPath \in BOOLEAN

Reading == {"tree", "frames", "write"}
Ending == {"har", "video", "trace", "stop"}

\* Which call is at which stage; without a session there is none.
StCalls ==
  /\ stCall \in {"none", "load", "launch", "save", "close"}
  /\ stCall = "none" => stStage = "idle"
  /\ stCall \in {"load", "launch"} => stStage = "apply"
  /\ stCall = "save" => stStage \in {"cookies", "origins"} \cup Reading
  /\ stCall = "close" => stStage \in {"cookies", "origins"} \cup Reading \cup Ending
  /\ stClosed => stCall = "none"

\* What the browser holds while a save or a close is at work counts as held.
HeldNow ==
  stCall \in {"save", "close"} =>
    stCookies \in stHeld.cookies /\ \A o \in Origins : stItems[o] \in stHeld.items[o]

\* Piece by piece, what was captured had been held.
CapturedWasHeld ==
  /\ stStage = "origins" => stSnap.cookies \in stHeld.cookies /\ stSnap.items = NoItems
  /\ stStage \in Reading => WasHeld(stSnap)

\* What a close with a storage_state_path goes on from is a file of its own.
EndsOverItsFile == stStage \in Ending /\ stPath => stFile.kind = "written" /\ WasHeld(stFile)

StInv == StCalls /\ HeldNow /\ CapturedWasHeld /\ EndsOverItsFile

-----------------------------------------------------------------------------
(* StorageState *)

\* Every step of the storage state keeps its types.
LEMMA StBoundsStep ==
  ASSUME StBounds, [StNext]_stVars
  PROVE  StBounds'
<1>1. /\ NoItems \in [Origins -> Versions] /\ 0 \in Versions /\ FirstOrigin \in Origins
      /\ \A v \in Versions : v < MaxVersion => v + 1 \in Versions
      /\ NoSnap \in StStates
  BY StorageAssumption DEF NoItems, Versions, NoSnap, StStates
<1>2. TornFile \in StFiles /\ NoHeld \in StHistories
  BY <1>1 DEF TornFile, File, StFiles, NoHeld, StHistories
<1>3. \A stayed \in BOOLEAN :
        HoldsToo(stayed) /\ stCookies' \in Versions /\ stItems' \in [Origins -> Versions]
        => stHeld' \in StHistories
  BY DEF StBounds, HoldsToo, StHistories
<1>4. \A call, cookies : Loading(call, cookies) /\ cookies \in Versions
        => stTodo' \subseteq Origins /\ stCookies' \in Versions
  BY DEF StBounds, Loading, StFiles
<1>5. StReturn \/ (\E stage : StGoto(stage)) => stHeld' \in StHistories
  BY <1>2 DEF StBounds, StReturn, StGoto
<1>6. \A f \in AfterFailure : f \in StFiles
  BY <1>2 DEF StBounds, AfterFailure
<1>7. CASE UNCHANGED stVars
  BY <1>7 DEF StBounds, stVars
<1>8. ASSUME NEW o \in Origins, StWrites(o) PROVE StBounds'
  <2>1. stCookies' \in Versions /\ stItems' \in [Origins -> Versions]
    BY <1>1, <1>8 DEF StBounds, StWrites
  <2>2. stHeld' \in StHistories
    BY <1>3, <1>8, <2>1 DEF StWrites
  <2>3. QED
    BY <1>8, <2>1, <2>2 DEF StBounds, StWrites
<1>9. ASSUME NEW o \in Origins, StApplies(o) \/ StReadsFrame(o) PROVE StBounds'
  BY <1>9 DEF StBounds, StApplies, StReadsFrame, stBrowser, StFiles, StStates
<1>10. ASSUME NEW top \in Origins, NEW frames \in SUBSET (Origins \ {top}), StNewDocument(top, frames)
       PROVE  StBounds'
  <2>1. stCookies' \in Versions /\ stItems' \in [Origins -> Versions]
    BY <1>10 DEF StBounds, StNewDocument
  <2>2. stHeld' \in StHistories
    BY <1>3, <1>10, <2>1 DEF StNewDocument
  <2>3. QED
    BY <1>10, <2>1, <2>2 DEF StBounds, StNewDocument
<1>11. CASE StLoads
  BY <1>4, <1>11 DEF StBounds, StLoads
<1>12. CASE StLoaded
  BY <1>5, <1>12 DEF StBounds, StLoaded, stBrowser
<1>13. CASE StLaunches
  BY <1>1, <1>4, <1>13 DEF StBounds, StLaunches
<1>14. CASE StSaves
  <2>1. stHeld' \in StHistories
    BY <1>14 DEF StBounds, StSaves, HeldFrom, StHistories
  <2>2. QED
    BY <1>1, <1>14, <2>1 DEF StBounds, StSaves, stBrowser
<1>15. CASE StSaveFails
  BY <1>5, <1>6, <1>15 DEF StBounds, StSaveFails, stBrowser
<1>16. CASE StCapturesCookies \/ StReadsOwn
  BY <1>1, <1>5, <1>16 DEF StBounds, StCapturesCookies, StReadsOwn, stBrowser, StStates
<1>17. CASE StListsFrames \/ StHasRead
  BY <1>5, <1>17 DEF StBounds, StListsFrames, StHasRead, stBrowser
<1>18. CASE StWritesFile
  BY <1>5, <1>18 DEF StBounds, StWritesFile, stBrowser, StStates, StFiles, File
<1>19. CASE StCrashes
  BY <1>2, <1>5, <1>19 DEF StBounds, StCrashes, stBrowser
<1>20. ASSUME NEW stage, NEW next, StFlushes(stage, next) PROVE StBounds'
  BY <1>5, <1>20 DEF StBounds, StFlushes, stBrowser
<1>21. CASE StCloses
  BY <1>5, <1>21 DEF StBounds, StCloses, stBrowser
<1>22. QED
  BY <1>7, <1>8, <1>9, <1>10, <1>11, <1>12, <1>13, <1>14, <1>15, <1>16, <1>17, <1>18, <1>19,
     <1>20, <1>21 DEF StNext

\* What had been held still is, when the page changes what the browser holds.
LEMMA HeldStaysHeld ==
  ASSUME StBounds, NEW stayed \in BOOLEAN, HoldsToo(stayed), stayed => stTop' = stTop,
         stCall \in {"save", "close"}
  PROVE  /\ stCookies' \in stHeld'.cookies /\ \A o \in Origins : stItems'[o] \in stHeld'.items[o]
         /\ \A v : v \in stHeld.cookies => v \in stHeld'.cookies
         /\ \A state \in StStates \cup StFiles : WasHeld(state) => WasHeld(state)'
<1>1. stHeld' = [cookies |-> stHeld.cookies \cup {stCookies'},
                 items |-> [o \in Origins |-> stHeld.items[o] \cup {stItems'[o]}],
                 stayed |-> stHeld.stayed /\ stayed]
  BY DEF HoldsToo
<1>2. /\ stHeld'.cookies = stHeld.cookies \cup {stCookies'}
      /\ \A o \in Origins : stHeld'.items[o] = stHeld.items[o] \cup {stItems'[o]}
      /\ stHeld'.stayed => stHeld.stayed /\ stayed
  BY <1>1
<1>3. ASSUME NEW state \in StStates \cup StFiles, WasHeld(state) PROVE WasHeld(state)'
  BY <1>2, <1>3 DEF WasHeld, StBounds
<1>4. QED
  BY <1>2, <1>3

\* A step of the page keeps the invariant: it changes what is held, and no more.
LEMMA PageStepKeepsHeld ==
  ASSUME StBounds, StInv, NEW stayed \in BOOLEAN, HoldsToo(stayed), stayed => stTop' = stTop,
         UNCHANGED <<stFile, stStage, stCall, stPath, stSnap, stClosed>>
  PROVE  StInv'
<1>1. CASE stCall \in {"save", "close"}
  <2>1. /\ stCookies' \in stHeld'.cookies /\ \A o \in Origins : stItems'[o] \in stHeld'.items[o]
        /\ \A v : v \in stHeld.cookies => v \in stHeld'.cookies
        /\ \A state \in StStates \cup StFiles : WasHeld(state) => WasHeld(state)'
    BY <1>1, HeldStaysHeld
  <2>2. (WasHeld(stSnap) => WasHeld(stSnap)') /\ (WasHeld(stFile) => WasHeld(stFile)')
    BY <2>1 DEF StBounds, WasHeld
  <2>3. StCalls' /\ HeldNow'
    BY <2>1 DEF StInv, StCalls, HeldNow, Reading, Ending
  <2>4. CapturedWasHeld'
    BY <2>1, <2>2 DEF StInv, CapturedWasHeld, Reading, NoItems
  <2>5. EndsOverItsFile'
    BY <2>2 DEF StInv, EndsOverItsFile, Ending
  <2>6. QED
    BY <2>3, <2>4, <2>5 DEF StInv
<1>2. CASE stCall \notin {"save", "close"}
  BY <1>2 DEF StInv, StCalls, HeldNow, CapturedWasHeld, EndsOverItsFile, Reading, Ending
<1>3. QED
  BY <1>1, <1>2

\* Every step of the storage state keeps its invariant.
LEMMA StInvStep ==
  ASSUME StBounds, StInv, [StNext]_stVars
  PROVE  StInv'
<1>1. CASE UNCHANGED stVars
  BY <1>1 DEF StInv, StCalls, HeldNow, CapturedWasHeld, EndsOverItsFile, WasHeld, NoItems, stVars
<1>2. ASSUME NEW o \in Origins, StWrites(o) PROVE StInv'
  BY <1>2, PageStepKeepsHeld DEF StWrites
<1>3. ASSUME NEW top \in Origins, NEW frames \in SUBSET (Origins \ {top}), StNewDocument(top, frames)
      PROVE  StInv'
  BY <1>3, PageStepKeepsHeld DEF StNewDocument
<1>4. ASSUME NEW o \in Origins, StApplies(o) PROVE StInv'
  BY <1>4 DEF StInv, StCalls, HeldNow, CapturedWasHeld, EndsOverItsFile, Reading, Ending, StApplies
<1>5. CASE StLoads \/ StLoaded \/ StLaunches
  BY <1>5 DEF StInv, StCalls, HeldNow, CapturedWasHeld, EndsOverItsFile, Reading, Ending,
              StLoads, StLoaded, StLaunches, Loading, StReturn
<1>6. CASE StSaves
  <2>1. stCall' \in {"save", "close"} /\ UNCHANGED <<stCookies, stItems, stPath, stClosed>>
    BY <1>6 DEF StSaves, stBrowser
  <2>2. HeldNow'
    BY <1>6, <2>1 DEF StSaves, HeldNow, HeldFrom
  <2>3. StCalls' /\ CapturedWasHeld' /\ EndsOverItsFile'
    BY <1>6, <2>1 DEF StInv, StCalls, CapturedWasHeld, EndsOverItsFile, Reading, Ending, StSaves
  <2>4. QED
    BY <2>2, <2>3 DEF StInv
<1>7. CASE StSaveFails \/ StCrashes \/ StCloses
  BY <1>7 DEF StInv, StCalls, HeldNow, CapturedWasHeld, EndsOverItsFile, Reading, Ending,
              StSaveFails, StCrashes, StCloses, StReturn
<1>8. CASE StCapturesCookies
  <2>1. UNCHANGED <<stCall, stHeld, stCookies, stItems, stClosed>> /\ stStage' = "origins"
    BY <1>8 DEF StCapturesCookies, StGoto, stBrowser
  <2>2. StCalls' /\ HeldNow' /\ EndsOverItsFile'
    BY <1>8, <2>1 DEF StInv, StCalls, HeldNow, EndsOverItsFile, Reading, Ending, StCapturesCookies
  <2>3. stSnap'.cookies = stCookies /\ stSnap'.items = NoItems
    BY <1>8 DEF StCapturesCookies, NoSnap
  <2>4. CapturedWasHeld'
    BY <1>8, <2>1, <2>3 DEF StInv, StCalls, HeldNow, CapturedWasHeld, Reading, Ending,
                            StCapturesCookies, NoItems
  <2>5. QED
    BY <2>2, <2>4 DEF StInv
<1>9. CASE StReadsOwn
  <2>1. UNCHANGED <<stCall, stHeld, stCookies, stItems, stTop, stClosed, stPath, stFile>>
        /\ stStage = "origins" /\ stStage' = "tree"
    BY <1>9 DEF StReadsOwn, StGoto, stBrowser
  <2>2. StCalls' /\ HeldNow' /\ EndsOverItsFile'
    BY <2>1 DEF StInv, StCalls, HeldNow, EndsOverItsFile, Reading, Ending
  <2>3. /\ stSnap'.cookies = stSnap.cookies
        /\ \A o \in Origins : stSnap'.items[o] = IF o = stTop THEN stItems[stTop] ELSE stSnap.items[o]
    BY <1>9 DEF StReadsOwn, StBounds, StStates
  <2>4. WasHeld(stSnap)'
    BY <2>1, <2>3 DEF StInv, StCalls, HeldNow, CapturedWasHeld, Reading, Ending, WasHeld, NoItems, StBounds
  <2>5. QED
    BY <2>1, <2>2, <2>4 DEF StInv, CapturedWasHeld, Reading
<1>10. ASSUME NEW o \in Origins, StReadsFrame(o) PROVE StInv'
  <2>1. UNCHANGED <<stCall, stHeld, stCookies, stItems, stTop, stClosed, stPath, stFile, stStage>>
        /\ stStage = "frames"
    BY <1>10 DEF StReadsFrame, stBrowser
  <2>2. StCalls' /\ HeldNow' /\ EndsOverItsFile'
    BY <2>1 DEF StInv, StCalls, HeldNow, EndsOverItsFile, Reading, Ending
  <2>3. /\ stSnap'.cookies = stSnap.cookies
        /\ \A p \in Origins : stSnap'.items[p] \in {stSnap.items[p], stItems[p]}
    BY <1>10 DEF StReadsFrame, StBounds, StStates
  <2>4. WasHeld(stSnap)'
    BY <2>1, <2>3 DEF StInv, StCalls, HeldNow, CapturedWasHeld, Reading, Ending, WasHeld, StBounds
  <2>5. QED
    BY <2>1, <2>2, <2>4 DEF StInv, CapturedWasHeld, Reading
<1>11. CASE StListsFrames \/ StHasRead
  <2>1. UNCHANGED <<stCall, stHeld, stCookies, stItems, stTop, stClosed, stPath, stFile, stSnap>>
        /\ stStage \in {"tree", "frames"} /\ stStage' \in {"frames", "write"}
    BY <1>11 DEF StListsFrames, StHasRead, StGoto, stBrowser
  <2>2. QED
    BY <2>1 DEF StInv, StCalls, HeldNow, CapturedWasHeld, EndsOverItsFile, WasHeld, Reading, Ending
<1>12. CASE StWritesFile
  <2>1. UNCHANGED <<stCookies, stItems, stTop, stClosed, stPath, stSnap>> /\ stStage = "write"
        /\ stFile' = [kind |-> "written", cookies |-> stSnap.cookies, items |-> stSnap.items]
    BY <1>12 DEF StWritesFile, stBrowser, File
  <2>2. CASE stCall = "close"
    <3>1. UNCHANGED <<stCall, stHeld>> /\ stStage' = "har"
      BY <1>12, <2>2 DEF StWritesFile, StGoto
    <3>2. WasHeld(stFile)'
      BY <2>1, <3>1 DEF StInv, CapturedWasHeld, Reading, WasHeld
    <3>3. QED
      BY <2>1, <2>2, <3>1, <3>2
      DEF StInv, StCalls, HeldNow, CapturedWasHeld, EndsOverItsFile, Reading, Ending
  <2>3. CASE stCall # "close"
    BY <1>12, <2>1, <2>3 DEF StWritesFile, StReturn, StInv, StCalls, HeldNow, CapturedWasHeld,
                             EndsOverItsFile, Reading, Ending
  <2>4. QED
    BY <2>2, <2>3
<1>13. ASSUME NEW stage \in Ending, NEW next \in Ending, StFlushes(stage, next) PROVE StInv'
  <2>1. UNCHANGED <<stCall, stHeld, stCookies, stItems, stTop, stClosed, stPath, stFile, stSnap>>
        /\ stStage \in Ending /\ stStage' \in Ending
    BY <1>13 DEF StFlushes, StGoto, stBrowser
  <2>2. QED
    BY <2>1 DEF StInv, StCalls, HeldNow, CapturedWasHeld, EndsOverItsFile, WasHeld, Reading, Ending
<1>14. QED
  BY <1>1, <1>2, <1>3, <1>4, <1>5, <1>6, <1>7, <1>8, <1>9, <1>10, <1>11, <1>12, <1>13
  DEF StNext, Ending

\* A file is written, and a browser ended, only where the invariant says that
\* what the file then has was held.
LEMMA SavingStep ==
  ASSUME StBounds, StInv, [StNext]_stVars
  PROVE  /\ stStage = "write" /\ stFile' # stFile /\ stFile'.kind = "written" => WasHeld(stFile')
         /\ stStage = "stop" /\ stPath /\ stClosed' => stFile'.kind = "written" /\ WasHeld(stFile')
<1>1. ASSUME stStage = "write", stFile' # stFile, stFile'.kind = "written" PROVE WasHeld(stFile')
  <2>1. TornFile.kind # "written"
    BY DEF TornFile, File
  <2>2. StWritesFile \/ StSaveFails \/ StCrashes
    BY <1>1 DEF StNext, stVars, StWrites, StApplies, StReadsFrame, StNewDocument, StLoads, StLoaded,
                StLaunches, StSaves, StCapturesCookies, StReadsOwn, StListsFrames, StHasRead,
                StFlushes, StCloses, StInv, StCalls
  <2>3. stFile' = [kind |-> "written", cookies |-> stSnap.cookies, items |-> stSnap.items]
    BY <1>1, <2>1, <2>2 DEF StWritesFile, StSaveFails, StCrashes, AfterFailure, File
  <2>4. QED
    BY <1>1, <2>3 DEF StInv, CapturedWasHeld, Reading, WasHeld
<1>2. ASSUME stStage = "stop", stPath, stClosed' PROVE stFile'.kind = "written" /\ WasHeld(stFile')
  <2>1. stFile' = stFile
    BY <1>2 DEF StNext, stVars, StWrites, StApplies, StReadsFrame, StNewDocument, StLoads, StLoaded,
                StLaunches, StSaves, StSaveFails, StWritesFile, StCrashes, StCapturesCookies,
                StReadsOwn, StListsFrames, StHasRead, StFlushes, StCloses
  <2>2. QED
    BY <1>2, <2>1 DEF StInv, EndsOverItsFile, Ending
<1>3. QED
  BY <1>1, <1>2

\* What is held, captured and written, at every stage of a save and of a close.
THEOREM StorageInvHolds == StSpec => [](StBounds /\ StInv)
<1>1. StInit => StBounds
  BY StorageAssumption DEF StInit, StBounds, NoItems, NoFile, NoSnap, NoHeld, File, StFiles,
                           StStates, StHistories, Versions
<1>2. StInit => StInv
  BY DEF StInit, StInv, StCalls, HeldNow, CapturedWasHeld, EndsOverItsFile, Reading, Ending
<1>3. QED
  BY <1>1, <1>2, StBoundsStep, StInvStep, PTL DEF StSpec

\* A storage state file holds what the browser had while it was saved, and
\* close_browser with a storage_state_path ends Chrome only over such a file.
THEOREM SavedStatesWereHeld == StSpec => SavedStateWasHeld
<1>1. StBounds /\ StInv /\ [StNext]_stVars =>
        [ /\ stStage = "write" /\ stFile' # stFile /\ stFile'.kind = "written" => WasHeld(stFile')
          /\ stStage = "stop" /\ stPath /\ stClosed' => stFile'.kind = "written" /\ WasHeld(stFile') ]_stVars
  BY SavingStep
<1>2. QED
  BY <1>1, StorageInvHolds, PTL DEF StSpec, SavedStateWasHeld

\* The storage and the file keep their types.
THEOREM StorageIsTyped == StSpec => []StTypeOK
<1>1. StBounds => StTypeOK
  BY DEF StBounds, StTypeOK, StStates, StFiles, StHistories
<1>2. QED
  BY <1>1, StorageInvHolds, PTL

-----------------------------------------------------------------------------
(* VideoRecorder *)

\* A frame of the page that is cast goes to the end.
LEMMA OneMoreFrame ==
  ASSUME VrInv
  PROVE  LET frames == Append(vrFrames, vrActive) IN
         /\ frames \in Seq(Nat) /\ FramesInOrder(frames)
         /\ \A i \in 1..Len(frames) : frames[i] <= vrActive
<1> DEFINE frames == Append(vrFrames, vrActive)
<1>1. vrActive \in Nat /\ vrFrames \in Seq(Nat)
  BY DEF VrInv, VrTyped
<1>2. /\ frames \in Seq(Nat) /\ Len(frames) = Len(vrFrames) + 1 /\ Len(vrFrames) \in Nat
      /\ \A i \in 1..Len(vrFrames) : frames[i] = vrFrames[i]
      /\ frames[Len(vrFrames) + 1] = vrActive
  BY <1>1
<1> HIDE DEF frames
<1>3. \A i \in 1..Len(frames) : frames[i] <= vrActive
  <2> SUFFICES ASSUME NEW i \in 1..Len(frames) PROVE frames[i] <= vrActive
    OBVIOUS
  <2>1. CASE i = Len(vrFrames) + 1
    BY <1>1, <1>2, <2>1
  <2>2. CASE i \in 1..Len(vrFrames)
    <3>1. vrFrames[i] <= vrActive
      BY <2>2 DEF VrInv, FramesAreOfActive
    <3>2. QED
      BY <1>2, <2>2, <3>1
  <2>3. QED
    BY <1>2, <2>1, <2>2
<1>4. FramesInOrder(frames)
  <2> SUFFICES ASSUME NEW i \in 1..Len(frames), NEW j \in 1..Len(frames), i < j
               PROVE  frames[i] <= frames[j]
    BY DEF FramesInOrder
  <2>1. CASE j = Len(frames)
    BY <1>2, <1>3, <2>1
  <2>2. CASE j # Len(frames)
    <3>1. i \in 1..Len(vrFrames) /\ j \in 1..Len(vrFrames)
      BY <1>2, <2>2
    <3>2. vrFrames[i] <= vrFrames[j]
      BY <3>1 DEF VrInv, VideoFollowsTheTabs, FramesInOrder
    <3>3. QED
      BY <1>2, <3>1, <3>2
  <2>3. QED
    BY <2>1, <2>2
<1>5. QED
  BY <1>2, <1>3, <1>4 DEF frames

\* Every step of the video recorder keeps its invariant.
LEMMA VrInvStep ==
  ASSUME VrInv, [VrNext]_vrVars
  PROVE  VrInv'
<1>1. VrTyped /\ FramesAreOfActive /\ VideoFollowsTheTabs
  BY DEF VrInv
<1>2. CASE UNCHANGED vrVars
  BY <1>1, <1>2 DEF VrInv, vrVars, VrTyped, FramesAreOfActive, VideoFollowsTheTabs
<1>3. CASE VrStopsPrevious \/ VrStarts \/ (\E s \in Visits : VrFrame(s)) \/ VrAcks
  BY <1>1, <1>3 DEF VrInv, VrTyped, FramesAreOfActive, VideoFollowsTheTabs,
     VrStopsPrevious, VrStarts, VrFrame, VrAcks
<1>4. CASE VrSwitches
  BY <1>1, <1>4 DEF VrInv, VrTyped, FramesAreOfActive, VideoFollowsTheTabs, VrSwitches
<1>5. CASE VrSetsActive
  <2>1. vrActive' = vrVisit /\ UNCHANGED <<vrVisit, vrFrames, vrVideo>>
    BY <1>5 DEF VrSetsActive
  <2>2. \A i \in 1..Len(vrFrames) : vrFrames[i] \in Nat
    BY <1>1 DEF VrTyped
  <2>3. FramesAreOfActive'
    BY <1>1, <2>1, <2>2 DEF VrTyped, FramesAreOfActive
  <2>4. QED
    BY <1>1, <2>1, <2>3 DEF VrInv, VrTyped, VideoFollowsTheTabs
<1>6. CASE VrObserves
  <2>1. UNCHANGED <<vrVisit, vrActive, vrVideo>>
        /\ (vrFrames' = Append(vrFrames, vrActive) \/ vrFrames' = vrFrames)
    BY <1>6 DEF VrObserves
  <2>2. CASE vrFrames' = vrFrames
    BY <1>1, <2>1, <2>2 DEF VrInv, VrTyped, FramesAreOfActive, VideoFollowsTheTabs
  <2>3. CASE vrFrames' = Append(vrFrames, vrActive)
    <3>1. vrFrames' \in Seq(Nat) /\ FramesInOrder(vrFrames')
          /\ \A i \in 1..Len(vrFrames') : vrFrames'[i] <= vrActive
      BY <2>3, OneMoreFrame
    <3>2. QED
      BY <1>1, <2>1, <3>1 DEF VrInv, VrTyped, FramesAreOfActive, VideoFollowsTheTabs
  <2>4. QED
    BY <2>1, <2>2, <2>3
<1>7. CASE VrStopsAndWrites
  <2>1. vrActive' = 0 /\ vrFrames' = <<>> /\ vrVisit' = vrVisit
        /\ (vrVideo'.frames = <<>> \/ vrVideo'.frames = vrFrames)
    BY <1>7 DEF VrStopsAndWrites, NoVideo
  <2>2. FramesInOrder(<<>>)
    BY DEF FramesInOrder
  <2>3. VideoFollowsTheTabs'
    BY <1>1, <2>1, <2>2 DEF VideoFollowsTheTabs
  <2>4. FramesAreOfActive'
    BY <2>1 DEF FramesAreOfActive
  <2>5. vrFrames' \in Seq(Nat) /\ vrVideo'.frames \in Seq(Nat)
    <3>1. <<>> \in Seq(Nat) /\ vrFrames \in Seq(Nat)
      BY <1>1 DEF VrTyped
    <3>2. QED
      BY <2>1, <3>1
  <2>6. VrTyped'
    BY <1>1, <2>1, <2>5 DEF VrTyped
  <2>7. QED
    BY <2>3, <2>4, <2>6 DEF VrInv
<1>8. QED
  BY <1>2, <1>3, <1>4, <1>5, <1>6, <1>7 DEF VrNext

\* The frames to be written are of pages up to the one that is cast.
THEOREM VideoInvHolds == VrSpec => []VrInv
<1>1. VrInit => VrInv
  BY DEF VrInit, VrInv, VrTyped, FramesAreOfActive, VideoFollowsTheTabs, FramesInOrder, NoVideo
<1>2. QED
  BY <1>1, VrInvStep, PTL DEF VrSpec

\* The recorded frames, and those written, are in the order their pages became
\* current, however late the frames of an earlier page arrive (CdpVideoRecorder).
THEOREM VideosFollowTheTabs == VrSpec => []VideoFollowsTheTabs
<1>1. VrInv => VideoFollowsTheTabs
  BY DEF VrInv
<1>2. QED
  BY <1>1, VideoInvHolds, PTL

-----------------------------------------------------------------------------
(* HarRecorder *)

\* An event of one request leaves the entries of the others alone.
LEMMA OneEntryStep ==
  ASSUME HrInv, NEW r \in HarRequests, HrTyped',
         \A q \in HarRequests \ {r} :
            hrEntries'[q] = hrEntries[q] /\ hrHop'[q] = hrHop[q] /\ hrStage'[q] = hrStage[q],
         hrGap \subseteq hrGap', hrGap' \subseteq hrGap \cup {r}, hrFile' = hrFile,
         EntryIsRight(r, hrEntries[r])', EntryIsUpToDate(r, hrEntries[r])'
  PROVE  HrInv'
<1>1. \A q \in HarRequests : EntryIsRight(q, hrEntries[q])'
  <2> SUFFICES ASSUME NEW q \in HarRequests, q # r PROVE EntryIsRight(q, hrEntries[q])'
    OBVIOUS
  <2>1. hrEntries'[q] = hrEntries[q] /\ EntryIsRight(q, hrEntries[q])
    BY DEF HrInv
  <2>2. QED
    BY <2>1 DEF EntryIsRight
<1>2. \A q \in HarRequests : EntryIsUpToDate(q, hrEntries[q])'
  <2> SUFFICES ASSUME NEW q \in HarRequests, q # r PROVE EntryIsUpToDate(q, hrEntries[q])'
    OBVIOUS
  <2>1. /\ hrEntries'[q] = hrEntries[q] /\ hrHop'[q] = hrHop[q] /\ hrStage'[q] = hrStage[q]
        /\ q \in hrGap <=> q \in hrGap'
        /\ EntryIsUpToDate(q, hrEntries[q])
    BY DEF HrInv
  <2>2. QED
    BY <2>1 DEF EntryIsUpToDate
<1>3. WrittenAnswersAreOfTheirUrls'
  BY DEF HrInv, WrittenAnswersAreOfTheirUrls
<1>4. QED
  BY <1>1, <1>2, <1>3 DEF HrInv

\* A request, or the next hop of one, makes or renews its entry.
LEMMA RequestKeepsInv ==
  ASSUME HrInv, NEW r \in HarRequests, NEW seen \in SeenOrLost, NEW hop \in Hops, HrRequest(r, hop, seen)
  PROVE  HrInv'
<1> DEFINE takes == seen /\ IsHttps(r, hop)
           e == IF takes THEN [hrEntries[r] EXCEPT !.url = hop] ELSE hrEntries[r]
<1>1. /\ HrTyped /\ EntryIsRight(r, hrEntries[r]) /\ EntryIsUpToDate(r, hrEntries[r])
      /\ hrEntries[r] \in HarEntries
  BY DEF HrInv, HrTyped
<1>2. /\ hrHop' = [hrHop EXCEPT ![r] = hop] /\ hrStage' = [hrStage EXCEPT ![r] = "sent"]
      /\ hrStage[r] \in {"unsent", "sent"}
      /\ hrGap' = IF seen THEN hrGap ELSE hrGap \cup {r}
      /\ takes => hrEntries' = [hrEntries EXCEPT ![r].url = hop]
      /\ ~takes => hrEntries' = hrEntries
      /\ UNCHANGED <<hrFetching, hrFile>>
  BY DEF HrRequest, ChromeGoes
<1>3. /\ e \in HarEntries /\ e.response = hrEntries[r].response
      /\ e.url = IF takes THEN hop ELSE hrEntries[r].url
  BY <1>1 DEF HarEntries
<1>4. /\ hrEntries' \in [HarRequests -> HarEntries] /\ hrEntries'[r] = e
      /\ \A q \in HarRequests \ {r} : hrEntries'[q] = hrEntries[q]
  <2>1. CASE takes
    BY <1>1, <1>2, <1>3, <2>1 DEF HrTyped
  <2>2. CASE ~takes
    BY <1>1, <1>2, <1>3, <2>2 DEF HrTyped
  <2>3. QED
    BY <2>1, <2>2
<1> HIDE DEF e
<1>5. HrTyped'
  BY <1>1, <1>2, <1>4 DEF HrTyped
<1>6. hrEntries[r].response = 0
  BY <1>1, <1>2 DEF EntryIsUpToDate
<1>7. EntryIsRight(r, hrEntries[r])'
  BY <1>1, <1>3, <1>4, <1>6 DEF EntryIsRight
<1>8. hrHop'[r] = hop
  BY <1>1, <1>2 DEF HrTyped
<1>9. EntryIsUpToDate(r, hrEntries[r])'
  BY <1>2, <1>3, <1>4, <1>6, <1>8 DEF EntryIsUpToDate
<1>10. \A q \in HarRequests \ {r} : hrHop'[q] = hrHop[q] /\ hrStage'[q] = hrStage[q]
  BY <1>1, <1>2 DEF HrTyped
<1>11. QED
  BY <1>2, <1>4, <1>5, <1>7, <1>9, <1>10, OneEntryStep

\* A response is recorded in the entry of the hop it answers.
LEMMA ResponseKeepsInv ==
  ASSUME HrInv, NEW r \in HarRequests, NEW seen \in SeenOrLost, HrResponse(r, seen)
  PROVE  HrInv'
<1> DEFINE takes == seen /\ Recorded(r)
           e == IF takes THEN [hrEntries[r] EXCEPT !.response = hrHop[r]] ELSE hrEntries[r]
<1>1. /\ HrTyped /\ EntryIsRight(r, hrEntries[r]) /\ EntryIsUpToDate(r, hrEntries[r])
      /\ hrEntries[r] \in HarEntries /\ hrHop[r] \in Hops \cup {0}
  BY DEF HrInv, HrTyped
<1>2. /\ hrStage' = [hrStage EXCEPT ![r] = "answered"] /\ hrStage[r] = "sent"
      /\ takes => hrEntries' = [hrEntries EXCEPT ![r].response = hrHop[r]]
      /\ ~takes => hrEntries' = hrEntries
      /\ UNCHANGED <<hrHop, hrGap, hrFetching, hrFile>>
  BY DEF HrResponse, ChromeGoes
<1>3. /\ e \in HarEntries /\ e.url = hrEntries[r].url
      /\ e.response = IF takes THEN hrHop[r] ELSE hrEntries[r].response
  BY <1>1 DEF HarEntries
<1>4. /\ hrEntries' \in [HarRequests -> HarEntries] /\ hrEntries'[r] = e
      /\ \A q \in HarRequests \ {r} : hrEntries'[q] = hrEntries[q]
  <2>1. CASE takes
    BY <1>1, <1>2, <1>3, <2>1 DEF HrTyped
  <2>2. CASE ~takes
    BY <1>1, <1>2, <1>3, <2>2 DEF HrTyped
  <2>3. QED
    BY <2>1, <2>2
<1> HIDE DEF e
<1>5. HrTyped'
  BY <1>1, <1>2, <1>4 DEF HrTyped
<1>6. EntryIsRight(r, hrEntries[r])'
  BY <1>1, <1>2, <1>3, <1>4 DEF EntryIsRight, EntryIsUpToDate
<1>7. hrStage'[r] = "answered"
  BY <1>1, <1>2 DEF HrTyped
<1>8. EntryIsUpToDate(r, hrEntries[r])'
  BY <1>7 DEF EntryIsUpToDate
<1>9. \A q \in HarRequests \ {r} : hrHop'[q] = hrHop[q] /\ hrStage'[q] = hrStage[q]
  BY <1>1, <1>2 DEF HrTyped
<1>10. QED
  BY <1>2, <1>4, <1>5, <1>6, <1>8, <1>9, OneEntryStep

\* What comes after the answer changes neither the URL nor the answer.
LEMMA LaterKeepsInv ==
  ASSUME HrInv, NEW r \in HarRequests, NEW e \in HarEntries,
         e.url = hrEntries[r].url, e.response = hrEntries[r].response,
         hrEntries' = [hrEntries EXCEPT ![r] = e],
         hrStage' = hrStage \/ hrStage' = [hrStage EXCEPT ![r] = "loaded"]
                            \/ hrStage' = [hrStage EXCEPT ![r] = "failed"],
         hrFetching' \in HarRequests \cup {NoRequest},
         UNCHANGED <<hrHop, hrGap, hrFile>>
  PROVE  HrInv'
<1>1. HrTyped /\ EntryIsRight(r, hrEntries[r]) /\ EntryIsUpToDate(r, hrEntries[r])
  BY DEF HrInv
<1>2. /\ hrEntries' \in [HarRequests -> HarEntries] /\ hrEntries'[r] = e
      /\ \A q \in HarRequests \ {r} : hrEntries'[q] = hrEntries[q]
  BY <1>1 DEF HrTyped
<1>3. /\ hrStage'[r] = hrStage[r] \/ hrStage'[r] \in {"loaded", "failed"}
      /\ \A q \in HarRequests \ {r} : hrStage'[q] = hrStage[q]
  BY <1>1 DEF HrTyped
<1>4. hrStage' \in [HarRequests -> {"unsent", "sent", "answered", "loaded", "failed"}]
  BY <1>1 DEF HrTyped
<1>5. HrTyped'
  BY <1>1, <1>2, <1>4 DEF HrTyped
<1>6. EntryIsRight(r, hrEntries[r])' /\ EntryIsUpToDate(r, hrEntries[r])'
  BY <1>1, <1>2, <1>3 DEF EntryIsRight, EntryIsUpToDate
<1>7. QED
  BY <1>2, <1>3, <1>5, <1>6, OneEntryStep

\* What comes after the response changes neither URL nor answer.
LEMMA LaterEventKeepsInv ==
  ASSUME HrInv, NEW r \in HarRequests, NEW seen \in SeenOrLost,
         HrData(r, seen) \/ HrFinished(r, seen) \/ HrFailed(r, seen)
  PROVE  HrInv'
<1>1. HrTyped /\ hrEntries \in [HarRequests -> HarEntries] /\ hrEntries[r] \in HarEntries
      /\ hrFetching \in HarRequests \cup {NoRequest}
  BY DEF HrInv, HrTyped
<1> DEFINE With(e) == e \in HarEntries /\ e.url = hrEntries[r].url /\ e.response = hrEntries[r].response
<1>2. /\ With(hrEntries[r]) /\ With([hrEntries[r] EXCEPT !.data = TRUE])
      /\ With([hrEntries[r] EXCEPT !.finished = TRUE]) /\ With([hrEntries[r] EXCEPT !.failed = TRUE])
  BY <1>1 DEF HarEntries
<1>3. /\ hrEntries = [hrEntries EXCEPT ![r] = hrEntries[r]]
      /\ [hrEntries EXCEPT ![r].data = TRUE] = [hrEntries EXCEPT ![r] = [hrEntries[r] EXCEPT !.data = TRUE]]
      /\ [hrEntries EXCEPT ![r].finished = TRUE] = [hrEntries EXCEPT ![r] = [hrEntries[r] EXCEPT !.finished = TRUE]]
      /\ [hrEntries EXCEPT ![r].failed = TRUE] = [hrEntries EXCEPT ![r] = [hrEntries[r] EXCEPT !.failed = TRUE]]
  BY <1>1
<1>4. /\ hrStage' = hrStage \/ hrStage' = [hrStage EXCEPT ![r] = "loaded"]
                            \/ hrStage' = [hrStage EXCEPT ![r] = "failed"]
      /\ hrFetching' \in HarRequests \cup {NoRequest}
      /\ UNCHANGED <<hrHop, hrGap, hrFile>>
  BY <1>1 DEF HrData, HrFinished, HrFailed, ChromeGoes
<1>5. PICK e : With(e) /\ hrEntries' = [hrEntries EXCEPT ![r] = e]
  <2>1. \/ hrEntries' = hrEntries
        \/ hrEntries' = [hrEntries EXCEPT ![r].data = TRUE]
        \/ hrEntries' = [hrEntries EXCEPT ![r].finished = TRUE]
        \/ hrEntries' = [hrEntries EXCEPT ![r].failed = TRUE]
    BY DEF HrData, HrFinished, HrFailed
  <2> HIDE DEF With
  <2>2. QED
    BY <1>2, <1>3, <2>1
<1>6. QED
  BY <1>4, <1>5, LaterKeepsInv

\* A body that is fetched, or not, goes to its entry.
LEMMA BodyKeepsInv ==
  ASSUME HrInv, NEW fetched \in BOOLEAN, HrBody(fetched)
  PROVE  HrInv'
<1> DEFINE r == hrFetching
           e == IF fetched THEN [hrEntries[r] EXCEPT !.body = TRUE] ELSE hrEntries[r]
<1>1. /\ HrTyped /\ hrEntries \in [HarRequests -> HarEntries]
      /\ r \in HarRequests /\ hrEntries[r] \in HarEntries
  BY DEF HrInv, HrTyped, HrBody
<1>2. e \in HarEntries /\ e.url = hrEntries[r].url /\ e.response = hrEntries[r].response
  BY <1>1 DEF HarEntries
<1>3. hrEntries' = [hrEntries EXCEPT ![r] = e]
  BY <1>1 DEF HrBody
<1>4. hrFetching' = NoRequest /\ UNCHANGED <<hrHop, hrStage, hrGap, hrFile>>
  BY DEF HrBody
<1> HIDE DEF r, e
<1>5. QED
  BY <1>1, <1>2, <1>3, <1>4, LaterKeepsInv

\* Writing the file writes the entries as they are.
LEMMA WritesHarKeepsInv ==
  ASSUME HrInv, HrWrites
  PROVE  HrInv'
<1>1. UNCHANGED <<hrHop, hrStage, hrGap, hrEntries, hrFetching>>
  BY DEF HrWrites
<1>2. HrTyped' /\ \A r \in HarRequests : EntryIsRight(r, hrEntries[r])' /\ EntryIsUpToDate(r, hrEntries[r])'
  BY <1>1 DEF HrInv, HrTyped, EntryIsRight, EntryIsUpToDate
<1>3. WrittenAnswersAreOfTheirUrls'
  <2> DEFINE included == {q \in HarRequests : Recorded(q) /\ IncludeEntry(q)}
             entries == [r \in included |-> HarEntry(hrEntries[r])]
  <2>1. hrFile'.entries = entries
    BY DEF HrWrites
  <2> SUFFICES ASSUME NEW r \in included
               PROVE  LET e == entries[r] IN
                      /\ e.url # 0 /\ IsHttps(r, e.url)
                      /\ e.response \in {0, e.url} \/ r \in hrGap \/ ~IsHttps(r, e.response)
    BY <1>1, <2>1 DEF WrittenAnswersAreOfTheirUrls
  <2>2. hrEntries[r].url # 0 /\ EntryIsRight(r, hrEntries[r])
    BY DEF IncludeEntry, HrInv
  <2>3. entries[r].url = hrEntries[r].url /\ entries[r].response = hrEntries[r].response
    BY DEF HarEntry
  <2>4. QED
    BY <2>2, <2>3 DEF EntryIsRight
<1>4. QED
  BY <1>2, <1>3 DEF HrInv

\* Every step of the HAR recorder keeps its invariant.
LEMMA HrInvStep ==
  ASSUME HrInv, [HrNext]_hrVars
  PROVE  HrInv'
<1>1. CASE UNCHANGED hrVars
  BY <1>1 DEF hrVars, HrInv, HrTyped, EntryIsRight, EntryIsUpToDate, WrittenAnswersAreOfTheirUrls
<1>2. CASE \E r \in HarRequests, seen \in SeenOrLost : \E hop \in Hops : HrRequest(r, hop, seen)
  BY <1>2, RequestKeepsInv
<1>3. CASE \E r \in HarRequests, seen \in SeenOrLost : HrResponse(r, seen)
  BY <1>3, ResponseKeepsInv
<1>4. CASE \E r \in HarRequests, seen \in SeenOrLost :
              HrData(r, seen) \/ HrFinished(r, seen) \/ HrFailed(r, seen)
  BY <1>4, LaterEventKeepsInv
<1>5. CASE \E fetched \in BOOLEAN : HrBody(fetched)
  BY <1>5, BodyKeepsInv
<1>6. CASE HrWrites
  BY <1>6, WritesHarKeepsInv
<1>7. QED
  BY <1>1, <1>2, <1>3, <1>4, <1>5, <1>6 DEF HrNext

\* Each entry of the HAR is right, and up to date while it has no answer.
THEOREM HarInvHolds == HrSpec => []HrInv
<1>1. HrInit => HrInv
  <2> SUFFICES ASSUME HrInit PROVE HrInv
    OBVIOUS
  <2>1. NoEntry \in HarEntries /\ NoEntry.url = 0 /\ NoEntry.response = 0
    BY DEF NoEntry, HarEntries
  <2>2. HrTyped
    BY <2>1 DEF HrInit, HrTyped
  <2>3. \A r \in HarRequests : EntryIsRight(r, hrEntries[r]) /\ EntryIsUpToDate(r, hrEntries[r])
    BY <2>1 DEF HrInit, EntryIsRight, EntryIsUpToDate
  <2>4. WrittenAnswersAreOfTheirUrls
    BY DEF HrInit, NotWritten, WrittenAnswersAreOfTheirUrls
  <2>5. QED
    BY <2>2, <2>3, <2>4 DEF HrInv
<1>2. QED
  BY <1>1, HrInvStep, PTL DEF HrSpec

\* What the HAR file says a URL answered is that URL's answer and no other hop's,
\* unless a redirect was lost or led away from https (CdpHarRecorder).
THEOREM WrittenAnswersHold == HrSpec => []WrittenAnswersAreOfTheirUrls
<1>1. HrInv => WrittenAnswersAreOfTheirUrls
  BY DEF HrInv
<1>2. QED
  BY <1>1, HarInvHolds, PTL

-----------------------------------------------------------------------------
(* LifecycleWatchdog *)

\* The broadcast buffer takes the event; when it is full the oldest goes, and
\* its requests are missed.
LEMMA PublishFacts ==
  ASSUME lwEvents \in Seq(LwEventSet), NEW e \in LwEventSet, LwPublish(e)
  PROVE  /\ lwEvents' \in Seq(LwEventSet)
         /\ \A i \in 1..Len(lwEvents') :
              lwEvents'[i] = e \/ \E j \in 1..Len(lwEvents) : lwEvents'[i] = lwEvents[j]
         /\ \A r \in e.req : Unread(r)'
         /\ lwMissed \subseteq lwMissed'
         /\ \A r \in Requests : Unread(r) => Unread(r)' \/ r \in lwMissed'
<1> DEFINE full == Len(lwEvents) = LwCapacity
           old == IF full THEN Tail(lwEvents) ELSE lwEvents
<1>1. lwEvents' = Append(old, e) /\ lwMissed' = IF full THEN lwMissed \cup Head(lwEvents).req ELSE lwMissed
  BY DEF LwPublish
<1>2. Len(lwEvents) \in Nat /\ (full => lwEvents # <<>> /\ Len(lwEvents) >= 1)
  BY LifecycleAssumption
<1>3. /\ old \in Seq(LwEventSet) /\ Len(old) \in Nat
      /\ full => Len(old) = Len(lwEvents) - 1 /\ \A i \in 1..Len(old) : old[i] = lwEvents[i + 1]
      /\ ~full => old = lwEvents
  BY <1>2
<1> HIDE DEF old
<1>4. /\ lwEvents' \in Seq(LwEventSet) /\ Len(lwEvents') = Len(old) + 1
      /\ \A i \in 1..Len(old) : lwEvents'[i] = old[i]
      /\ lwEvents'[Len(old) + 1] = e
  BY <1>1, <1>3, AppendProperties
<1>5. \A i \in 1..Len(old) : \E j \in 1..Len(lwEvents) : old[i] = lwEvents[j]
  <2> SUFFICES ASSUME NEW i \in 1..Len(old) PROVE \E j \in 1..Len(lwEvents) : old[i] = lwEvents[j]
    OBVIOUS
  <2>1. CASE full
    <3>1. i + 1 \in 1..Len(lwEvents) /\ old[i] = lwEvents[i + 1]
      BY <1>2, <1>3, <2>1
    <3>2. QED
      BY <3>1
  <2>2. CASE ~full
    BY <1>3, <2>2
  <2>3. QED
    BY <2>1, <2>2
<1>6. \A i \in 1..Len(lwEvents') :
        lwEvents'[i] = e \/ \E j \in 1..Len(lwEvents) : lwEvents'[i] = lwEvents[j]
  <2> SUFFICES ASSUME NEW i \in 1..Len(lwEvents'), lwEvents'[i] # e
               PROVE  \E j \in 1..Len(lwEvents) : lwEvents'[i] = lwEvents[j]
    OBVIOUS
  <2>1. i \in 1..Len(old)
    BY <1>3, <1>4
  <2>2. QED
    BY <1>4, <1>5, <2>1
<1>7. \A r \in e.req : Unread(r)'
  <2>1. Len(old) + 1 \in 1..Len(lwEvents')
    BY <1>3, <1>4
  <2>2. QED
    BY <1>4, <2>1 DEF Unread
<1>8. ASSUME NEW r \in Requests, Unread(r)
      PROVE  Unread(r)' \/ r \in lwMissed'
  <2>1. PICK j \in 1..Len(lwEvents) : r \in lwEvents[j].req
    BY <1>8 DEF Unread
  <2>2. CASE full /\ j = 1
    BY <1>1, <1>2, <2>1, <2>2
  <2>3. CASE full /\ j # 1
    <3>1. j - 1 \in 1..Len(old) /\ old[j - 1] = lwEvents[j]
      BY <1>2, <1>3, <2>3, SMTT(30)
    <3>2. j - 1 \in 1..Len(lwEvents') /\ lwEvents'[j - 1] = lwEvents[j]
      <4>1. lwEvents'[j - 1] = old[j - 1]
        BY <1>4, <3>1
      <4>2. Len(old) \in Nat /\ Len(lwEvents') = Len(old) + 1
        BY <1>3, <1>4
      <4>3. j - 1 \in 1..Len(lwEvents')
        BY <3>1, <4>2
      <4> QED  BY <3>1, <4>1, <4>3
    <3>3. QED
      BY <2>1, <3>2 DEF Unread
  <2>4. CASE ~full
    <3>1. j \in 1..Len(lwEvents') /\ lwEvents'[j] = lwEvents[j]
      BY <1>2, <1>3, <1>4, <2>4
    <3>2. QED
      BY <2>1, <3>1 DEF Unread
  <2>5. QED
    BY <2>2, <2>3, <2>4
<1>9. QED
  BY <1>1, <1>4, <1>6, <1>7, <1>8


\* What happens in Chrome: an event names a request only when it starts or ends,
\* and a request that has ended stays so.
LEMMA EventKeepsInv ==
  ASSUME LwInv, NEW e \in LwEventSet, LwPublish(e), UNCHANGED <<lwBusy, lwNet, lwWait, lwNow>>,
         lwReq' \in [Requests -> {"unsent", "sent", "ended", "lost"}],
         e.kind \notin {"start", "end"} => e.req = {},
         e.kind = "end" => \A r \in e.req : lwReq'[r] = "ended",
         \A r \in Requests : lwReq[r] = "ended" => lwReq'[r] = "ended",
         \A r \in Requests : lwReq'[r] = "sent" => lwReq[r] = "sent" \/ r \in e.req
  PROVE  LwInv'
<1>1. LwTyped /\ EndsAreEnds /\ LoadingIsKnown /\ lwEvents \in Seq(LwEventSet)
  BY DEF LwInv, LwTyped
<1>2. /\ lwEvents' \in Seq(LwEventSet)
      /\ \A i \in 1..Len(lwEvents') :
           lwEvents'[i] = e \/ \E j \in 1..Len(lwEvents) : lwEvents'[i] = lwEvents[j]
      /\ \A r \in e.req : Unread(r)'
      /\ lwMissed \subseteq lwMissed'
      /\ \A r \in Requests : Unread(r) => Unread(r)' \/ r \in lwMissed'
  BY <1>1, PublishFacts
<1>3. LoadingIsKnown'
  BY <1>1, <1>2 DEF LoadingIsKnown
<1>4. \A i \in 1..Len(lwEvents') :
        /\ lwEvents'[i].kind \notin {"start", "end"} => lwEvents'[i].req = {}
        /\ lwEvents'[i].kind = "end" => \A r \in lwEvents'[i].req : lwReq'[r] = "ended"
  <2> SUFFICES ASSUME NEW i \in 1..Len(lwEvents'), NEW j \in 1..Len(lwEvents), lwEvents'[i] = lwEvents[j]
               PROVE  /\ lwEvents'[i].kind \notin {"start", "end"} => lwEvents'[i].req = {}
                      /\ lwEvents'[i].kind = "end" => \A r \in lwEvents'[i].req : lwReq'[r] = "ended"
    BY <1>2
  <2>1. lwEvents[j] \in LwEventSet
    BY <1>1
  <2>2. lwEvents[j].req \subseteq Requests
    BY <2>1 DEF LwEventSet
  <2>3. QED
    BY <1>1, <2>2 DEF EndsAreEnds
<1>5. lwBusy.req \subseteq Requests /\ lwBusy'.req = lwBusy.req
  BY <1>1 DEF LwTyped
<1>6. EndsAreEnds'
  BY <1>1, <1>4, <1>5 DEF EndsAreEnds
<1>7. QED
  BY <1>1, <1>2, <1>3, <1>6 DEF LwInv, LwTyped

\* What Chrome does is published, or an event is dropped and its request
\* missed.
LEMMA ChromeKeepsInv ==
  ASSUME LwInv,
         \/ \E r \in Requests : LwSends(r) \/ LwEnds(r)
         \/ \E kind \in {"dialog", "frame"} \cup DOMAIN RecordedAs : LwHappens(kind)
         \/ LwDisconnects
  PROVE  LwInv'
<1>1. lwReq \in [Requests -> {"unsent", "sent", "ended", "lost"}] /\ lwBusy.req \subseteq Requests
  BY DEF LwInv, LwTyped
<1>2. ASSUME NEW r \in Requests, LwSends(r)
      PROVE  LwInv'
  <2> DEFINE e == LwEvent("start", {r})
  <2>1. e \in LwEventSet /\ e.kind = "start" /\ e.req = {r}
    BY DEF LwEvent, LwEventSet, LwKinds
  <2>2. /\ LwPublish(e) /\ UNCHANGED <<lwBusy, lwNet, lwWait, lwNow>>
        /\ lwReq[r] \in {"unsent", "sent"} /\ lwReq' = [lwReq EXCEPT ![r] = "sent"]
    BY <1>2 DEF LwSends, LwTaskIdle
  <2> HIDE DEF e
  <2>3. QED
    BY <1>1, <2>1, <2>2, EventKeepsInv
<1>3. ASSUME NEW r \in Requests, LwEnds(r)
      PROVE  LwInv'
  <2> DEFINE e == LwEvent("end", {r})
  <2>1. e \in LwEventSet /\ e.kind = "end" /\ e.req = {r}
    BY DEF LwEvent, LwEventSet, LwKinds
  <2>2. /\ LwPublish(e) /\ UNCHANGED <<lwBusy, lwNet, lwWait, lwNow>>
        /\ lwReq[r] = "sent" /\ lwReq' = [lwReq EXCEPT ![r] = "ended"]
    BY <1>3 DEF LwEnds, LwTaskIdle
  <2> HIDE DEF e
  <2>3. QED
    BY <1>1, <2>1, <2>2, EventKeepsInv
<1>4. ASSUME NEW kind \in {"dialog", "frame"} \cup DOMAIN RecordedAs, LwHappens(kind)
      PROVE  LwInv'
  <2> DEFINE e == LwEvent(kind, {})
  <2>1. e \in LwEventSet /\ e.kind \notin {"start", "end"} /\ e.req = {}
    BY DEF LwEvent, LwEventSet, LwKinds, RecordedAs
  <2>2. LwPublish(e) /\ UNCHANGED <<lwBusy, lwNet, lwReq, lwWait, lwNow>>
    BY <1>4 DEF LwHappens, LwTaskIdle
  <2> HIDE DEF e
  <2>3. QED
    BY <1>1, <2>1, <2>2, EventKeepsInv
<1>5. ASSUME LwDisconnects
      PROVE  LwInv'
  <2> DEFINE e == LwEvent("websocket", {})
  <2>1. e \in LwEventSet /\ e.kind = "websocket" /\ e.req = {}
    BY DEF LwEvent, LwEventSet, LwKinds
  <2>2. /\ LwPublish(e) /\ UNCHANGED <<lwBusy, lwNet, lwWait, lwNow>>
        /\ lwReq' = [r \in Requests |-> IF lwReq[r] = "sent" THEN "lost" ELSE lwReq[r]]
    BY <1>5 DEF LwDisconnects, LwTaskIdle
  <2> HIDE DEF e
  <2>3. QED
    BY <1>1, <2>1, <2>2, EventKeepsInv
<1>6. QED
  BY <1>2, <1>3, <1>4, <1>5

\* The task has read the first event: the others are as they were, and its
\* requests are among those that count now or are not loading.
LEMMA ReadsKeepsInv ==
  ASSUME LwInv, LwReads
  PROVE  LwInv'
<1> DEFINE e == Head(lwEvents)
<1>1. /\ LwTyped /\ EndsAreEnds /\ LoadingIsKnown /\ lwEvents \in Seq(LwEventSet) /\ lwEvents # <<>>
      /\ lwEvents' = Tail(lwEvents) /\ UNCHANGED <<lwReq, lwMissed, lwWait, lwNow>>
  BY DEF LwInv, LwTyped, LwReads, LwRestUnchanged
<1>2. /\ lwEvents' \in Seq(LwEventSet) /\ Len(lwEvents) \in Nat /\ Len(lwEvents) >= 1
      /\ Len(lwEvents') = Len(lwEvents) - 1 /\ \A i \in 1..Len(lwEvents') : lwEvents'[i] = lwEvents[i + 1]
      /\ e = lwEvents[1] /\ e \in LwEventSet
  BY <1>1
<1>3. /\ e.kind \notin {"start", "end"} => e.req = {}
      /\ e.kind = "end" => \A r \in e.req : lwReq[r] = "ended"
      /\ e.req \subseteq Requests
  <2>1. 1 \in 1..Len(lwEvents)
    BY <1>2
  <2>2. QED
    BY <1>1, <1>2, <2>1 DEF EndsAreEnds, LwEventSet
<1>4. \A r \in Requests : Unread(r) => Unread(r)' \/ r \in e.req
  <2> SUFFICES ASSUME NEW r \in Requests, NEW j \in 1..Len(lwEvents), r \in lwEvents[j].req, r \notin e.req
               PROVE  Unread(r)'
    BY DEF Unread
  <2>1. j - 1 \in 1..Len(lwEvents') /\ lwEvents'[j - 1] = lwEvents[j]
    BY <1>2
  <2>2. QED
    BY <2>1 DEF Unread
<1>5. /\ e.kind = "start" => lwNet' = lwNet \cup e.req
      /\ e.kind # "start" => lwNet' = lwNet \/ lwNet' = lwNet \ e.req
      /\ \/ lwBusy' = lwBusy
         \/ lwBusy'.kind \in {"no", "body", "dialog", "frame"} /\ lwBusy'.req = {}
         \/ e.kind = "end" /\ lwBusy'.kind = "entry" /\ lwBusy'.req = e.req
  <2>1. CASE e.kind = "start" /\ lwNet' = lwNet \cup e.req /\ lwBusy' = lwBusy
    BY <2>1
  <2>2. CASE e.kind = "end" /\ LwForgets(e.req)
    BY <2>2 DEF LwForgets, NotBusy, LwEvent
  <2>3. CASE e.kind = "end" /\ lwBusy' = LwEvent("entry", e.req) /\ lwNet' = lwNet
    BY <2>3 DEF LwEvent
  <2>4. CASE e.kind \in {"dialog", "frame"} /\ lwBusy' = LwEvent(e.kind, {}) /\ lwNet' = lwNet
    BY <2>4 DEF LwEvent
  <2>5. CASE e.kind \in DOMAIN RecordedAs /\ UNCHANGED <<lwBusy, lwNet>>
    BY <2>5 DEF RecordedAs
  <2>6. QED
    BY <2>1, <2>2, <2>3, <2>4, <2>5 DEF LwReads
<1>6. LoadingIsKnown'
  BY <1>1, <1>3, <1>4, <1>5 DEF LoadingIsKnown
<1>7. \A i \in 1..Len(lwEvents') :
        /\ lwEvents'[i].kind \notin {"start", "end"} => lwEvents'[i].req = {}
        /\ lwEvents'[i].kind = "end" => \A r \in lwEvents'[i].req : lwReq'[r] = "ended"
  <2> SUFFICES ASSUME NEW i \in 1..Len(lwEvents')
               PROVE  /\ lwEvents'[i].kind \notin {"start", "end"} => lwEvents'[i].req = {}
                      /\ lwEvents'[i].kind = "end" => \A r \in lwEvents'[i].req : lwReq'[r] = "ended"
    OBVIOUS
  <2>1. i + 1 \in 1..Len(lwEvents) /\ lwEvents'[i] = lwEvents[i + 1]
    BY <1>2
  <2>2. QED
    BY <1>1, <2>1 DEF EndsAreEnds
<1>8. lwBusy.req \subseteq Requests /\ lwBusy'.req \subseteq Requests
  BY <1>1, <1>3, <1>5 DEF LwTyped
<1>9. EndsAreEnds'
  BY <1>1, <1>3, <1>5, <1>7 DEF EndsAreEnds
<1>10. QED
  BY <1>1, <1>2, <1>6, <1>8, <1>9 DEF LwInv, LwTyped

\* What else the task, the clock and the waiting session do.
LEMMA RestKeepsInv ==
  ASSUME LwInv, LwTick \/ LwSkips \/ LwEntryFetched \/ LwAnswered \/ LwTimesOut \/ LwWaits \/ LwWaitEnds
  PROVE  LwInv'
<1>1. LwTyped /\ EndsAreEnds /\ LoadingIsKnown
  BY DEF LwInv
<1>2. UNCHANGED <<lwReq, lwEvents, lwMissed>>
  BY DEF LwTick, LwSkips, LwEntryFetched, LwAnswered, LwTimesOut, LwWaits, LwWaitEnds,
     LwRestUnchanged, LwOthersUnchanged
<1>3. /\ lwNet' = lwNet \/ (lwBusy.kind = "entry" /\ lwNet' = lwNet \ lwBusy.req)
      /\ lwBusy' = lwBusy \/ (lwBusy'.kind \in {"no", "body"} /\ lwBusy'.req = {})
  BY DEF LwTick, LwSkips, LwEntryFetched, LwAnswered, LwTimesOut, LwWaits, LwWaitEnds,
     LwRestUnchanged, LwOthersUnchanged, LwForgets, NotBusy, LwEvent
<1>4. \A r \in Requests : Unread(r)' <=> Unread(r)
  BY <1>2 DEF Unread
<1>5. LoadingIsKnown'
  BY <1>1, <1>2, <1>3, <1>4 DEF LoadingIsKnown, EndsAreEnds
<1>6. EndsAreEnds'
  BY <1>1, <1>2, <1>3 DEF EndsAreEnds
<1>7. lwNow' \in Nat /\ lwWait' \in Nat
  <2>1. NoWait \in Nat /\ \A t \in Nat : t + 1 \in Nat /\ t + IdleFor \in Nat
    BY LifecycleAssumption DEF NoWait
  <2>2. (lwNow' = lwNow \/ lwNow' = lwNow + 1) /\ lwWait' \in {lwWait, NoWait, lwNow + IdleFor}
    BY DEF LwTick, LwSkips, LwEntryFetched, LwAnswered, LwTimesOut, LwWaits, LwWaitEnds,
       LwRestUnchanged, LwOthersUnchanged
  <2>3. QED
    BY <1>1, <2>1, <2>2 DEF LwTyped
<1>8. LwTyped'
  BY <1>1, <1>2, <1>3, <1>7 DEF LwTyped
<1>9. QED
  BY <1>5, <1>6, <1>8 DEF LwInv

\* Every step of the watchdog keeps its invariant.
LEMMA LwInvStep ==
  ASSUME LwInv, [LwNext]_lwVars
  PROVE  LwInv'
<1>1. CASE UNCHANGED lwVars
  <2>1. \A r \in Requests : Unread(r)' <=> Unread(r)
    BY <1>1 DEF lwVars, Unread
  <2>2. QED
    BY <1>1, <2>1 DEF lwVars, LwInv, LwTyped, EndsAreEnds, LoadingIsKnown
<1>2. CASE LwNext
  BY <1>2, ChromeKeepsInv, ReadsKeepsInv, RestKeepsInv DEF LwNext
<1>3. QED
  BY <1>1, <1>2

\* The watchdog knows of every request Chrome is loading, but for lost events.
THEOREM LifecycleInvHolds == LwSpec => []LwInv
<1>1. LwInit => LwInv
  BY LifecycleAssumption DEF LwInit, LwInv, LwTyped, EndsAreEnds, LoadingIsKnown, NotBusy, LwEvent, NoWait
<1>2. QED
  BY <1>1, LwInvStep, PTL DEF LwSpec

\* A wait ends before its deadline only when no request counts as active.
LEMMA EarlyIsIdle ==
  ASSUME LwInv, LwNext, lwWait # NoWait, lwWait' = NoWait, lwNow < lwWait
  PROVE  lwNet = {}
<1>1. LwWaitEnds
  BY DEF LwNext, LwSends, LwEnds, LwHappens, LwDisconnects, LwTick, LwSkips, LwReads, LwEntryFetched,
     LwAnswered, LwTimesOut, LwWaits, LwTaskIdle, LwRestUnchanged
<1>2. ~(lwNow >= lwWait)
  BY DEF LwInv, LwTyped
<1>3. QED
  BY <1>1, <1>2 DEF LwWaitEnds, Idle

\* When wait_for_network_idle returns before its deadline, Chrome is loading no
\* request but those whose events were not read yet or were dropped.
THEOREM EarlyIdleHolds == LwSpec => EarlyIdleIsTrue
<1>1. LwInv /\ [LwNext]_lwVars =>
        [lwWait # NoWait /\ lwWait' = NoWait /\ lwNow < lwWait =>
           \A r \in Requests : lwReq[r] = "sent" => r \in lwMissed \/ Unread(r)]_lwVars
  BY EarlyIsIdle DEF LwInv, LoadingIsKnown, lwVars
<1>2. QED
  BY <1>1, LifecycleInvHolds, PTL DEF LwSpec, EarlyIdleIsTrue

-----------------------------------------------------------------------------
(* LifecycleWatchdog: the type invariant *)

\* What LwTypeOK says beyond LwTyped, and what it rests on: the clock stops at
\* MaxTime, and the log is of names.
LwNames == {"websocket", "crash", "progress", "downloaded", "dialog", "body", "timeout"}
LwBusyKinds == {"no", "dialog", "frame", "entry", "body"}
LwBounds ==
  /\ Len(lwEvents) <= LwCapacity
  /\ lwLog \in Seq(LwNames) /\ Len(lwLog) <= LogCapacity
  /\ lwMissed \subseteq Requests /\ lwNet \subseteq Requests /\ lwBusy.kind \in LwBusyKinds
  /\ lwActive \in [Requests -> 0..NotActive]
  /\ lwLast \in 0..MaxTime /\ lwNow \in 0..MaxTime /\ lwWait \in 0..NoWait

\* Only the latest LogCapacity events are kept.
LEMMA LoggedFacts ==
  ASSUME NEW S, NEW log \in Seq(S), NEW new \in Seq(S)
  PROVE  Logged(log, new) \in Seq(S) /\ Len(Logged(log, new)) <= LogCapacity
<1> DEFINE all == log \o new
           from == IF Len(all) > LogCapacity THEN Len(all) - LogCapacity + 1 ELSE 1
<1>1. all \in Seq(S) /\ Len(all) \in Nat /\ LogCapacity \in Nat
  BY LifecycleAssumption, ConcatProperties
<1>2. Logged(log, new) = SubSeq(all, from, Len(all))
  BY DEF Logged
<1> HIDE DEF all
<1>3. from \in 1..(Len(all) + 1)
  BY <1>1
<1>4. /\ SubSeq(all, from, Len(all)) \in Seq(S)
      /\ Len(SubSeq(all, from, Len(all))) = IF from <= Len(all) THEN Len(all) - from + 1 ELSE 0
  BY <1>1, <1>3, SubSeqProperties
<1>5. QED
  BY <1>1, <1>2, <1>4

\* What the log records of an event is a list of names.
LEMMA RecordedFacts == \A kind \in DOMAIN RecordedAs : RecordedAs[kind] \in Seq(LwNames)
<1>1. \A x \in LwNames, y \in LwNames : <<x>> \in Seq(LwNames) /\ <<x, y>> \in Seq(LwNames)
  OBVIOUS
<1>2. {"websocket", "crash", "progress", "downloaded"} \subseteq LwNames
  BY DEF LwNames
<1>3. QED
  BY <1>1, <1>2 DEF RecordedAs

\* The buffer is bounded, and an event that was dropped names requests.
LEMMA PublishBounds ==
  ASSUME lwEvents \in Seq(LwEventSet), Len(lwEvents) <= LwCapacity, lwMissed \subseteq Requests,
         NEW e \in LwEventSet, LwPublish(e)
  PROVE  Len(lwEvents') <= LwCapacity /\ lwMissed' \subseteq Requests
<1> DEFINE full == Len(lwEvents) = LwCapacity
           old == IF full THEN Tail(lwEvents) ELSE lwEvents
<1>1. lwEvents' = Append(old, e) /\ lwMissed' = IF full THEN lwMissed \cup Head(lwEvents).req ELSE lwMissed
  BY DEF LwPublish
<1>2. Len(lwEvents) \in Nat /\ LwCapacity \in Nat /\ (full => lwEvents # <<>>)
  BY LifecycleAssumption
<1>3. old \in Seq(LwEventSet) /\ Len(old) < LwCapacity /\ Len(old) \in Nat
  BY <1>2
<1>4. full => Head(lwEvents) \in LwEventSet
  BY <1>2
<1>5. Len(Append(old, e)) = Len(old) + 1
  BY <1>3, AppendProperties
<1> HIDE DEF old
<1>6. QED
  BY <1>1, <1>2, <1>3, <1>4, <1>5 DEF LwEventSet

\* Every step of the watchdog keeps its buffer, log and clocks within bounds.
LEMMA LwBoundsStep ==
  ASSUME LwInv, LwBounds, [LwNext]_lwVars
  PROVE  LwBounds'
<1>1. /\ lwEvents \in Seq(LwEventSet) /\ Len(lwEvents) <= LwCapacity /\ lwMissed \subseteq Requests
      /\ lwLog \in Seq(LwNames) /\ lwBusy.req \subseteq Requests
  BY DEF LwInv, LwTyped, LwBounds
<1>2. /\ MaxTime \in Nat /\ IdleFor \in Nat
      /\ \A t \in 0..MaxTime : t \in 0..NotActive /\ t + IdleFor \in 0..NoWait
      /\ NotActive \in 0..NotActive /\ NoWait \in 0..NoWait
  BY LifecycleAssumption DEF NotActive, NoWait
<1>3. CASE UNCHANGED lwVars
  BY <1>3 DEF lwVars, LwBounds
<1>4. ASSUME NEW e \in LwEventSet, LwPublish(e), LwTaskIdle
      PROVE  LwBounds'
  BY <1>1, <1>4, PublishBounds DEF LwTaskIdle, LwBounds
<1>5. CASE \E r \in Requests : LwSends(r) \/ LwEnds(r)
  <2> PICK r \in Requests : LwSends(r) \/ LwEnds(r)
    BY <1>5
  <2>1. LwEvent("start", {r}) \in LwEventSet /\ LwEvent("end", {r}) \in LwEventSet
    BY DEF LwEvent, LwEventSet, LwKinds
  <2>2. QED
    BY <1>4, <2>1 DEF LwSends, LwEnds
<1>6. CASE \E kind \in {"dialog", "frame"} \cup DOMAIN RecordedAs : LwHappens(kind)
  <2> PICK kind \in {"dialog", "frame"} \cup DOMAIN RecordedAs : LwHappens(kind)
    BY <1>6
  <2>1. LwEvent(kind, {}) \in LwEventSet
    BY DEF LwEvent, LwEventSet, LwKinds, RecordedAs
  <2>2. QED
    BY <1>4, <2>1 DEF LwHappens
<1>7. CASE LwDisconnects
  <2>1. LwEvent("websocket", {}) \in LwEventSet
    BY DEF LwEvent, LwEventSet, LwKinds
  <2>2. QED
    BY <1>4, <1>7, <2>1 DEF LwDisconnects
<1>8. CASE LwTick
  BY <1>8, <1>2 DEF LwTick, LwBounds
<1>9. CASE LwSkips
  BY <1>9 DEF LwSkips, LwRestUnchanged, LwBounds
<1>10. ASSUME NEW rs \in SUBSET Requests, LwForgets(rs)
       PROVE  /\ lwActive' \in [Requests -> 0..NotActive] \/ ~LwBounds
              /\ lwNet' \subseteq Requests \/ ~LwBounds
              /\ lwLast' = lwNow /\ lwBusy'.kind \in LwBusyKinds
  BY <1>2, <1>10 DEF LwForgets, LwBounds, NotBusy, LwEvent, LwBusyKinds
<1>11. CASE LwReads
  <2> DEFINE e == Head(lwEvents)
  <2>1. /\ lwEvents # <<>> /\ lwEvents' = Tail(lwEvents)
        /\ UNCHANGED <<lwReq, lwMissed, lwWait, lwNow>>
    BY <1>11 DEF LwReads, LwRestUnchanged
  <2>2. e \in LwEventSet /\ Len(lwEvents') <= LwCapacity
    <3>1. Len(lwEvents) \in Nat /\ Len(Tail(lwEvents)) = Len(lwEvents) - 1 /\ LwCapacity \in Nat
      BY <1>1, <2>1, LifecycleAssumption
    <3>2. QED
      BY <1>1, <2>1, <3>1
  <2>3. e.req \subseteq Requests /\ e.kind \in LwKinds
    BY <2>2 DEF LwEventSet
  <2> HIDE DEF e
  <2>4. CASE /\ e.kind = "start" /\ lwNet' = lwNet \cup e.req /\ lwLast' = lwNow
             /\ lwActive' = [r \in Requests |-> IF r \in e.req \cap HttpRequests THEN lwNow ELSE lwActive[r]]
             /\ UNCHANGED <<lwBusy, lwLog>>
    BY <1>2, <2>1, <2>2, <2>3, <2>4 DEF LwBounds
  <2>5. CASE e.kind = "end" /\ LwForgets(e.req) /\ UNCHANGED lwLog
    BY <1>10, <2>1, <2>2, <2>3, <2>5 DEF LwBounds
  <2>6. CASE /\ \/ e.kind = "end" /\ lwBusy' = LwEvent("entry", e.req)
                \/ e.kind \in {"dialog", "frame"} /\ lwBusy' = LwEvent(e.kind, {})
             /\ UNCHANGED <<lwActive, lwNet, lwLast, lwLog>>
    BY <2>1, <2>2, <2>6 DEF LwBounds, LwEvent, LwBusyKinds
  <2>7. CASE /\ e.kind \in DOMAIN RecordedAs /\ lwLog' = Logged(lwLog, RecordedAs[e.kind])
             /\ UNCHANGED <<lwBusy, lwActive, lwNet, lwLast>>
    <3>1. lwLog' \in Seq(LwNames) /\ Len(lwLog') <= LogCapacity
      BY <1>1, <2>7, LoggedFacts, RecordedFacts
    <3>2. QED
      BY <2>1, <2>2, <2>7, <3>1 DEF LwBounds
  <2>8. QED
    BY <1>11, <2>4, <2>5, <2>6, <2>7 DEF LwReads, e
<1>12. CASE LwAnswered
  <2> DEFINE new == IF lwBusy.kind = "frame" THEN <<>> ELSE <<lwBusy.kind>>
  <2>1. new \in Seq(LwNames)
    <3>1. lwBusy.kind \in {"dialog", "body", "frame"}
      BY <1>12 DEF LwAnswered
    <3>2. <<>> \in Seq(LwNames) /\ \A x \in LwNames : <<x>> \in Seq(LwNames)
      OBVIOUS
    <3>3. {"dialog", "body"} \subseteq LwNames
      BY DEF LwNames
    <3>4. QED
      BY <3>1, <3>2, <3>3
  <2>2. lwLog' \in Seq(LwNames) /\ Len(lwLog') <= LogCapacity
    BY <1>1, <1>12, <2>1, LoggedFacts DEF LwAnswered
  <2>3. QED
    BY <1>12, <2>2 DEF LwAnswered, LwRestUnchanged, LwBounds, NotBusy, LwEvent, LwBusyKinds
<1>13. CASE LwEntryFetched
  BY <1>1, <1>10, <1>13 DEF LwEntryFetched, LwRestUnchanged, LwBounds
<1>14. CASE LwTimesOut
  <2> DEFINE new == [i \in 1..Cardinality(TimedOut(lwNow)) |-> "timeout"]
  <2>1. Cardinality(TimedOut(lwNow)) \in Nat
    BY LifecycleAssumption, FS_Subset, FS_CardinalityType DEF TimedOut
  <2>2. new \in Seq(LwNames)
    BY <2>1 DEF LwNames
  <2>3. lwLog' \in Seq(LwNames) /\ Len(lwLog') <= LogCapacity
    BY <1>1, <1>14, <2>2, LoggedFacts DEF LwTimesOut
  <2>4. lwActive' \in [Requests -> 0..NotActive]
    BY <1>2, <1>14 DEF LwTimesOut, LwBounds
  <2>5. QED
    BY <1>14, <2>3, <2>4 DEF LwTimesOut, LwRestUnchanged, LwBounds
<1>15. CASE LwWaits \/ LwWaitEnds
  BY <1>2, <1>15 DEF LwWaits, LwWaitEnds, LwOthersUnchanged, LwBounds
<1>16. QED
  BY <1>3, <1>5, <1>6, <1>7, <1>8, <1>9, <1>11, <1>12, <1>13, <1>14, <1>15 DEF LwNext

\* The watchdog's variables keep their types: the buffer and the log stay within
\* their capacities, whatever is published while a handler waits.
THEOREM LifecycleIsTyped == LwSpec => []LwTypeOK
<1>1. LwInit => LwBounds
  BY LifecycleAssumption DEF LwInit, LwBounds, NotBusy, LwEvent, LwBusyKinds, NotActive, NoWait
<1>2. LwSpec => []LwBounds
  BY <1>1, LwBoundsStep, LifecycleInvHolds, PTL DEF LwSpec
<1>3. LwInv /\ LwBounds => LwTypeOK
  BY DEF LwInv, LwTyped, LwBounds, LwTypeOK, LwBusyKinds
<1>4. QED
  BY <1>2, <1>3, LifecycleInvHolds, PTL

-----------------------------------------------------------------------------
(* VideoRecorder: the type invariant *)

VrBounds ==
  /\ vrVisit \in Visits /\ vrCasting \subseteq Visits /\ vrAck \in 0..MaxVisits
  /\ vrEvents \in Seq(Visits) /\ vrFrames \in Seq(Visits)
  /\ vrUnacked \in [Visits -> 0..FramesAhead]

\* The places of a session's frames among the events.
PlacesOf(s, events) == {i \in 1..Len(events) : events[i] = s}

\* Chrome counts as unacknowledged every frame the watchdog has not read, and
\* the one it is acknowledging: no acknowledgement is one too many.
UnreadIsUnacked ==
  \A s \in Visits :
    Cardinality(PlacesOf(s, vrEvents)) + (IF vrAck = s THEN 1 ELSE 0) <= vrUnacked[s]

\* A session has finitely many frames among the events.
LEMMA PlacesAreFinite ==
  ASSUME NEW S, NEW events \in Seq(S), NEW s
  PROVE  IsFiniteSet(PlacesOf(s, events)) /\ Cardinality(PlacesOf(s, events)) \in Nat
<1>1. Len(events) \in Nat /\ PlacesOf(s, events) \in SUBSET (1..Len(events))
  BY DEF PlacesOf
<1>2. IsFiniteSet(1..Len(events))
  BY <1>1, FS_Interval
<1>3. IsFiniteSet(PlacesOf(s, events))
  BY <1>1, <1>2, FS_Subset
<1>4. QED
  BY <1>3, FS_CardinalityType

\* A frame more is a place more, of its session only.
LEMMA PlacesAfterAppend ==
  ASSUME NEW S, NEW events \in Seq(S), NEW s \in S, NEW t
  PROVE  Cardinality(PlacesOf(t, Append(events, s)))
           = Cardinality(PlacesOf(t, events)) + (IF t = s THEN 1 ELSE 0)
<1> DEFINE more == Append(events, s)
<1>1. /\ Len(events) \in Nat /\ Len(more) = Len(events) + 1 /\ more[Len(events) + 1] = s
      /\ \A i \in 1..Len(events) : more[i] = events[i]
  BY AppendProperties
<1> HIDE DEF more
<1>2. CASE t = s
  <2>1. PlacesOf(t, more) = PlacesOf(t, events) \cup {Len(events) + 1}
    BY <1>1, <1>2 DEF PlacesOf
  <2>2. Len(events) + 1 \notin PlacesOf(t, events)
    BY <1>1 DEF PlacesOf
  <2>3. QED
    BY <1>2, <2>1, <2>2, PlacesAreFinite, FS_AddElement DEF more
<1>3. CASE t # s
  <2>1. PlacesOf(t, more) = PlacesOf(t, events)
    BY <1>1, <1>3 DEF PlacesOf
  <2>2. QED
    BY <1>3, <2>1, PlacesAreFinite DEF more
<1>4. QED
  BY <1>2, <1>3

\* The first event read, its place is gone.
LEMMA PlacesAfterTail ==
  ASSUME NEW S, NEW events \in Seq(S), events # <<>>, NEW t
  PROVE  Cardinality(PlacesOf(t, Tail(events))) + (IF t = Head(events) THEN 1 ELSE 0)
           <= Cardinality(PlacesOf(t, events))
<1> DEFINE rest == Tail(events)
           later == PlacesOf(t, events) \ {1}
           back == [i \in later |-> i - 1]
<1>1. /\ Len(events) \in Nat /\ Len(events) >= 1 /\ Len(rest) = Len(events) - 1
      /\ \A i \in 1..Len(rest) : rest[i] = events[i + 1]
      /\ Head(events) = events[1] /\ rest \in Seq(S)
  OBVIOUS
<1> HIDE DEF rest
<1>2. PlacesOf(t, rest) \subseteq {back[i] : i \in later}
  <2> SUFFICES ASSUME NEW i \in PlacesOf(t, rest) PROVE \E j \in later : i = back[j]
    OBVIOUS
  <2>1. i \in 1..Len(rest) /\ i + 1 \in later /\ back[i + 1] = i
    BY <1>1 DEF PlacesOf
  <2>2. QED
    BY <2>1
<1>3. IsFiniteSet(PlacesOf(t, events)) /\ Cardinality(PlacesOf(t, events)) \in Nat
      /\ Cardinality(PlacesOf(t, rest)) \in Nat
  BY <1>1, PlacesAreFinite
<1>4. IsFiniteSet(later) /\ Cardinality(later) \in Nat
      /\ Cardinality(later) = Cardinality(PlacesOf(t, events)) - (IF 1 \in PlacesOf(t, events) THEN 1 ELSE 0)
  BY <1>3, FS_RemoveElement, FS_CardinalityType
<1>5. IsFiniteSet({back[i] : i \in later}) /\ Cardinality({back[i] : i \in later}) <= Cardinality(later)
  <2>1. back \in [later -> Int] /\ \A i \in later : back[i] \in {back[j] : j \in later}
    BY <1>1 DEF PlacesOf
  <2>2. back \in Surjection(later, {back[i] : i \in later})
    BY DEF Surjection
  <2>3. QED
    BY <1>4, <2>2, FS_Surjection
<1>6. Cardinality(PlacesOf(t, rest)) <= Cardinality({back[i] : i \in later})
      /\ Cardinality({back[i] : i \in later}) \in Nat
  BY <1>2, <1>5, FS_Subset, FS_CardinalityType
<1>7. t = Head(events) <=> 1 \in PlacesOf(t, events)
  BY <1>1 DEF PlacesOf
<1> HIDE DEF later, back
<1>8. QED
  BY <1>3, <1>4, <1>5, <1>6, <1>7 DEF rest

\* Every step of the recorder counts frames as Chrome does.
LEMMA VrBoundsStep ==
  ASSUME VrInv, VrBounds, UnreadIsUnacked, [VrNext]_vrVars
  PROVE  VrBounds' /\ UnreadIsUnacked'
<1>1. MaxVisits \in Nat /\ FramesAhead \in Nat /\ vrActive \in Nat
  BY VideoAssumption DEF VrInv, VrTyped
<1>2. \A s \in Visits : Cardinality(PlacesOf(s, vrEvents)) \in Nat
  BY PlacesAreFinite DEF VrBounds
<1>3. CASE UNCHANGED vrVars
  BY <1>3 DEF vrVars, VrBounds, UnreadIsUnacked
<1>4. CASE VrSwitches
  BY <1>1, <1>4 DEF VrSwitches, VrBounds, UnreadIsUnacked, Visits
<1>5. CASE VrStopsPrevious \/ VrStarts \/ VrSetsActive
  BY <1>5 DEF VrStopsPrevious, VrStarts, VrSetsActive, VrBounds, UnreadIsUnacked
<1>6. CASE \E s \in Visits : VrFrame(s)
  <2> PICK s \in Visits : VrFrame(s)
    BY <1>6
  <2>1. /\ vrUnacked[s] < FramesAhead /\ vrUnacked' = [vrUnacked EXCEPT ![s] = @ + 1]
        /\ vrEvents' = Append(vrEvents, s) /\ UNCHANGED <<vrVisit, vrFrames, vrAck>>
        /\ vrCasting' = vrCasting
    BY DEF VrFrame
  <2>2. vrEvents' \in Seq(Visits)
    BY <2>1, AppendProperties DEF VrBounds
  <2>3. vrUnacked' \in [Visits -> 0..FramesAhead]
    <3>1. vrUnacked[s] + 1 \in 0..FramesAhead
      BY <1>1, <2>1 DEF VrBounds
    <3>2. QED
      BY <2>1, <3>1 DEF VrBounds
  <2>4. \A t \in Visits : Cardinality(PlacesOf(t, vrEvents'))
                            = Cardinality(PlacesOf(t, vrEvents)) + (IF t = s THEN 1 ELSE 0)
    BY <2>1, PlacesAfterAppend DEF VrBounds
  <2>5. \A t \in Visits : vrUnacked'[t] = vrUnacked[t] + (IF t = s THEN 1 ELSE 0) /\ vrUnacked[t] \in Nat
    BY <1>1, <2>1 DEF VrBounds
  <2>6. UnreadIsUnacked'
    <3> SUFFICES ASSUME NEW t \in Visits
                 PROVE  Cardinality(PlacesOf(t, vrEvents')) + (IF vrAck' = t THEN 1 ELSE 0) <= vrUnacked'[t]
      BY DEF UnreadIsUnacked
    <3>1. Cardinality(PlacesOf(t, vrEvents)) + (IF vrAck = t THEN 1 ELSE 0) <= vrUnacked[t]
      BY DEF UnreadIsUnacked
    <3>2. QED
      BY <1>2, <2>1, <2>4, <2>5, <3>1
  <2>7. QED
    BY <2>1, <2>2, <2>3, <2>6 DEF VrBounds
<1>7. CASE VrObserves
  <2> DEFINE first == Head(vrEvents)
  <2>1. /\ vrAck = 0 /\ vrEvents # <<>> /\ vrEvents' = Tail(vrEvents)
        /\ UNCHANGED <<vrVisit, vrCasting, vrUnacked>>
        /\ \/ vrFrames' = Append(vrFrames, first) /\ vrAck' = first
           \/ vrFrames' = vrFrames /\ vrAck' = 0
    BY <1>7 DEF VrObserves
  <2>2. first \in Visits /\ vrEvents' \in Seq(Visits)
    BY <2>1 DEF VrBounds
  <2>3. \A t \in Visits : Cardinality(PlacesOf(t, vrEvents')) + (IF t = first THEN 1 ELSE 0)
                            <= Cardinality(PlacesOf(t, vrEvents))
    BY <2>1, PlacesAfterTail DEF VrBounds
  <2>4. \A t \in Visits : Cardinality(PlacesOf(t, vrEvents')) \in Nat /\ t # 0 /\ vrUnacked[t] \in Nat
    BY <1>1, <2>2, PlacesAreFinite DEF Visits, VrBounds
  <2> HIDE DEF first
  <2>5. UnreadIsUnacked'
    <3> SUFFICES ASSUME NEW t \in Visits
                 PROVE  Cardinality(PlacesOf(t, vrEvents')) + (IF vrAck' = t THEN 1 ELSE 0) <= vrUnacked'[t]
      BY DEF UnreadIsUnacked
    <3>1. Cardinality(PlacesOf(t, vrEvents)) <= vrUnacked[t]
      BY <1>2, <2>1, <2>4 DEF UnreadIsUnacked
    <3>2. vrAck' = t => t = first
      BY <2>1, <2>4
    <3>3. QED
      BY <1>2, <2>1, <2>3, <2>4, <3>1, <3>2
  <2>6. vrFrames' \in Seq(Visits) /\ vrAck' \in 0..MaxVisits
    <3>1. vrFrames \in Seq(Visits) /\ Append(vrFrames, first) \in Seq(Visits)
      BY <2>2, AppendProperties DEF VrBounds
    <3>2. first \in 0..MaxVisits /\ 0 \in 0..MaxVisits
      BY <1>1, <2>2 DEF Visits
    <3>3. QED
      BY <2>1, <3>1, <3>2
  <2>7. QED
    BY <2>1, <2>2, <2>5, <2>6 DEF VrBounds
<1>8. CASE VrAcks
  <2>1. /\ vrAck # 0 /\ vrAck' = 0 /\ vrUnacked' \in {vrUnacked, [vrUnacked EXCEPT ![vrAck] = @ - 1]}
        /\ UNCHANGED <<vrVisit, vrCasting, vrEvents, vrFrames>>
    BY <1>8 DEF VrAcks
  <2>2. vrAck \in Visits /\ \A t \in Visits : vrUnacked[t] \in 0..FramesAhead
    BY <1>1, <2>1 DEF VrBounds, Visits
  <2>3. \A t \in Visits :
          Cardinality(PlacesOf(t, vrEvents)) + (IF vrAck = t THEN 1 ELSE 0) <= vrUnacked[t]
    BY DEF UnreadIsUnacked
  <2>4. vrUnacked' \in [Visits -> 0..FramesAhead]
    <3>1. vrUnacked[vrAck] - 1 \in 0..FramesAhead
      BY <1>1, <1>2, <2>2, <2>3
    <3>2. QED
      BY <2>1, <3>1 DEF VrBounds
  <2>5. \A t \in Visits : t # 0 /\ vrUnacked'[t] >= vrUnacked[t] - (IF vrAck = t THEN 1 ELSE 0)
    BY <1>1, <2>1, <2>2 DEF VrBounds, Visits
  <2>6. UnreadIsUnacked'
    <3> SUFFICES ASSUME NEW t \in Visits
                 PROVE  Cardinality(PlacesOf(t, vrEvents)) <= vrUnacked'[t]
      BY <1>2, <2>1, <2>5 DEF UnreadIsUnacked
    <3>1. Cardinality(PlacesOf(t, vrEvents)) \in Nat /\ vrUnacked[t] \in Int /\ vrUnacked'[t] \in Int
      BY <1>1, <1>2, <2>2, <2>4
    <3>2. QED
      BY <2>3, <2>5, <3>1
  <2>7. QED
    BY <1>1, <2>1, <2>4, <2>6 DEF VrBounds
<1>9. CASE VrStopsAndWrites
  BY <1>9 DEF VrStopsAndWrites, VrBounds, UnreadIsUnacked
<1>10. QED
  BY <1>3, <1>4, <1>5, <1>6, <1>7, <1>8, <1>9 DEF VrNext

\* The recorder's variables keep their types: Chrome never has more frames out
\* than it may send ahead, and no session is acknowledged a frame it did not send.
THEOREM VideoIsTyped == VrSpec => []VrTypeOK
<1>1. VrInit => VrBounds /\ UnreadIsUnacked
  <2> SUFFICES ASSUME VrInit PROVE VrBounds /\ UnreadIsUnacked
    OBVIOUS
  <2>1. VrBounds
    BY VideoAssumption DEF VrInit, VrBounds, Visits
  <2>2. \A s \in Visits : PlacesOf(s, vrEvents) = {} /\ s # 0
    BY VideoAssumption DEF VrInit, PlacesOf, Visits
  <2>3. UnreadIsUnacked
    BY <2>2, FS_EmptySet DEF VrInit, UnreadIsUnacked
  <2>4. QED
    BY <2>1, <2>3
<1>2. VrSpec => [](VrBounds /\ UnreadIsUnacked)
  BY <1>1, VrBoundsStep, VideoInvHolds, PTL DEF VrSpec
<1>3. VrInv /\ VrBounds => VrTypeOK
  BY DEF VrInv, VrTyped, VrBounds, VrTypeOK
<1>4. QED
  BY <1>2, <1>3, VideoInvHolds, PTL

-----------------------------------------------------------------------------
(* HarRecorder: the type invariant *)

\* The recorder's variables keep their types.
THEOREM HarIsTyped == HrSpec => []HrTypeOK
<1>1. HrInit => hrGap \subseteq HarRequests
  BY DEF HrInit
<1>2. hrGap \subseteq HarRequests /\ [HrNext]_hrVars => (hrGap \subseteq HarRequests)'
  BY DEF HrNext, HrRequest, HrResponse, HrData, HrFinished, HrBody, HrFailed, HrWrites, hrVars
<1>3. HrSpec => [](hrGap \subseteq HarRequests)
  BY <1>1, <1>2, PTL DEF HrSpec
<1>4. HrInv /\ hrGap \subseteq HarRequests => HrTypeOK
  BY DEF HrInv, HrTyped, HarEntries, HrTypeOK
<1>5. QED
  BY <1>3, <1>4, HarInvHolds, PTL
=============================================================================
