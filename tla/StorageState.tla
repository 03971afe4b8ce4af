---------------------------- MODULE StorageState ----------------------------
(***************************************************************************)
(* The storage state of a session and its end (storage.rs, session.rs):    *)
(* cookies and the items of origins are loaded from a file at launch or by *)
(* load_storage_state, and saved by save_storage_state or close_browser,   *)
(* which then writes the recordings and asks Chrome to close.              *)
(*                                                                         *)
(* An origin has one item, and the browser one cookie, with a version for  *)
(* its value and 0 for none.  A save reads them one after the other while  *)
(* the page goes on; only origins the page and its frames show are read.   *)
(***************************************************************************)
EXTENDS Naturals, FiniteSets

CONSTANTS
    Origins, FirstOrigin,  \* bound: origins; the one the page shows at first
    MaxVersion,            \* bound: changes of items and cookies
    MaxSaves               \* bound: loads, saves, closes and launches

ASSUME StorageAssumption == FirstOrigin \in Origins /\ MaxVersion \in Nat

VARIABLES
    stItems, stCookies, \* the browser's storage
    stTop, stFrames,    \* origins of the current page and its frames
    stScripts,          \* addScriptToEvaluateOnNewDocument: origin and version
    stFile,             \* the storage state file
    stStage, stCall,    \* the call in progress and how far it is
    stPath,             \* the session has a storage_state_path
    stTodo,             \* origins it has yet to apply, or to read
    stSnap,             \* the state it captured
    stClosed,           \* no session: Browser.close was sent, or the process died
    stHeld,             \* history: what the browser held since the save began
    stCount

stVars == <<stItems, stCookies, stTop, stFrames, stScripts, stFile, stStage,
            stCall, stPath, stTodo, stSnap, stClosed, stHeld, stCount>>
stBrowser == <<stItems, stCookies, stTop, stFrames, stScripts>>

Versions == 0..MaxVersion
NoItems == [o \in Origins |-> 0]
File(kind, cookies, items) == [kind |-> kind, cookies |-> cookies, items |-> items]
NoFile == File("none", 0, NoItems)
TornFile == File("torn", 0, NoItems)
NoSnap == [cookies |-> 0, items |-> NoItems]
StGoto(stage) == stStage' = stage /\ UNCHANGED <<stCall, stHeld>>

\* History: the values the browser has had since a save began, and whether the
\* page has shown one document since.
NoHeld == [cookies |-> {}, items |-> [o \in Origins |-> {}], stayed |-> FALSE]
HeldFrom(cookies, items) ==
    [cookies |-> {cookies}, items |-> [o \in Origins |-> {items[o]}], stayed |-> TRUE]
HoldsToo(stayed) ==
    stHeld' = IF stCall \in {"save", "close"}
              THEN [cookies |-> stHeld.cookies \cup {stCookies'},
                    items |-> [o \in Origins |-> stHeld.items[o] \cup {stItems'[o]}],
                    stayed |-> stHeld.stayed /\ stayed]
              ELSE stHeld
StReturn == stStage' = "idle" /\ stCall' = "none" /\ stHeld' = NoHeld

-----------------------------------------------------------------------------
(* The page (external): it changes items and cookies, and moves on.  A new *)
(* document runs the scripts that restore items, in every frame.           *)

StWrites(o) ==
    /\ o \in stFrames \cup {stTop} /\ ~stClosed
    /\ \/ stItems[o] < MaxVersion /\ stItems' = [stItems EXCEPT ![o] = @ + 1] /\ UNCHANGED stCookies
       \/ stCookies < MaxVersion /\ stCookies' = stCookies + 1 /\ UNCHANGED stItems
    /\ HoldsToo(TRUE)
    /\ UNCHANGED <<stTop, stFrames, stScripts, stFile, stStage, stCall, stPath, stTodo, stSnap,
                   stClosed, stCount>>

StNewDocument(top, frames) ==
    /\ ~stClosed /\ stTop' = top /\ stFrames' = frames
    /\ stItems' = [o \in Origins |->
                     IF o \in frames \cup {top} /\ stScripts[o] # 0 THEN stScripts[o] ELSE stItems[o]]
    /\ UNCHANGED stCookies /\ HoldsToo(FALSE)
    /\ UNCHANGED <<stScripts, stFile, stStage, stCall, stPath, stTodo, stSnap, stClosed, stCount>>

-----------------------------------------------------------------------------
(* Loading *)

\* load_browser_storage_state: no file is an empty state, a torn one an error
\* before anything is set; cookies are set first.
Loading(call, cookies) ==
    /\ stFile.kind # "torn" /\ stStage' = "apply" /\ stCall' = call
    /\ stTodo' = {o \in Origins : stFile.items[o] # 0}
    /\ stCookies' = IF stFile.cookies # 0 THEN stFile.cookies ELSE cookies

StLoads ==
    /\ stCall = "none" /\ ~stClosed /\ stCount < MaxSaves /\ stCount' = stCount + 1
    /\ Loading("load", stCookies)
    /\ UNCHANGED <<stItems, stTop, stFrames, stScripts, stFile, stPath, stSnap, stClosed, stHeld>>

\* apply_origin_storage_state: a script for later documents, then the same
\* script in the top frame of the page as it is.
StApplies(o) ==
    /\ stStage = "apply" /\ o \in stTodo /\ stTodo' = stTodo \ {o}
    /\ stScripts' = [stScripts EXCEPT ![o] = stFile.items[o]]
    /\ stItems' = IF o = stTop THEN [stItems EXCEPT ![o] = stFile.items[o]] ELSE stItems
    /\ UNCHANGED <<stCookies, stTop, stFrames, stFile, stStage, stCall, stPath, stSnap,
                   stClosed, stHeld, stCount>>

\* All applied, or a command failed with the rest left out: then a launch has
\* failed, and its Chrome is killed.
StLoaded ==
    /\ stStage = "apply" /\ StReturn /\ stTodo' = {}
    /\ stClosed' = (stCall = "launch" /\ stTodo # {})
    /\ UNCHANGED <<stBrowser, stFile, stPath, stSnap, stCount>>

\* A new session with a fresh Chrome.  With a storage_state_path it loads that
\* file, and is not there when the file is torn.
StLaunches ==
    /\ stClosed /\ stCount < MaxSaves /\ stCount' = stCount + 1
    /\ stClosed' = FALSE /\ stPath' \in BOOLEAN
    /\ IF stPath' THEN Loading("launch", 0)
       ELSE stStage' = "idle" /\ stCall' = "none" /\ stTodo' = {} /\ stCookies' = 0
    /\ stItems' = NoItems /\ stTop' = FirstOrigin /\ stFrames' = {}
    /\ stScripts' = NoItems /\ stSnap' = NoSnap
    /\ UNCHANGED <<stFile, stHeld>>

-----------------------------------------------------------------------------
(* Saving *)

\* save_storage_state saves; close_browser does only if the session has a
\* storage_state_path, which connect_with_profile never gives it.
StSaves ==
    /\ stCall = "none" /\ ~stClosed /\ stCount < MaxSaves /\ stCount' = stCount + 1
    /\ stCall' \in {"save", "close"}
    /\ stStage' = IF stCall' = "save" \/ stPath THEN "cookies" ELSE "har"
    /\ stHeld' = HeldFrom(stCookies, stItems) /\ stSnap' = NoSnap
    /\ UNCHANGED <<stBrowser, stFile, stPath, stTodo, stClosed>>

\* The file as a save that failed leaves it: it is written in place.
AfterFailure == IF stStage = "write" THEN {stFile, TornFile} ELSE {stFile}

\* A mutant's form: close_browser goes on when the state could not be saved.
StSaveFailsFault ==
    /\ stStage \in {"cookies", "origins", "write"}
    /\ IF stCall = "close" THEN StGoto("har") ELSE StReturn
    /\ stFile' \in AfterFailure
    /\ UNCHANGED <<stBrowser, stPath, stTodo, stSnap, stClosed, stCount>>

\* The cookies or the page's own origin could not be read, or the file not be
\* written; close_browser ends there, with its recordings still to write.
StSaveFails ==
    /\ stStage \in {"cookies", "origins", "write"} /\ StReturn
    /\ stFile' \in AfterFailure
    /\ UNCHANGED <<stBrowser, stPath, stTodo, stSnap, stClosed, stCount>>

\* Network.getAllCookies
StCapturesCookies ==
    /\ stStage = "cookies" /\ StGoto("origins")
    /\ stSnap' = [NoSnap EXCEPT !.cookies = stCookies]
    /\ UNCHANGED <<stBrowser, stFile, stPath, stTodo, stClosed, stCount>>

\* current_origin_storage_state: the page's own origin, by a script in it.
StReadsOwn ==
    /\ stStage = "origins" /\ StGoto("tree")
    /\ stSnap' = [stSnap EXCEPT !.items[stTop] = stItems[stTop]]
    /\ UNCHANGED <<stBrowser, stFile, stPath, stTodo, stClosed, stCount>>

\* frame_security_origins: the origins of all frames; none when it fails.
StListsFrames ==
    /\ stStage = "tree" /\ StGoto("frames")
    /\ stTodo' \in {{}, stFrames \cup {stTop}}
    /\ UNCHANGED <<stBrowser, stFile, stPath, stSnap, stClosed, stCount>>

\* dom_storage_origin_state: an origin that has gone, or whose items could not
\* be read, adds nothing to what was read before; one that was read does.
StReadsFrame(o) ==
    /\ stStage = "frames" /\ o \in stTodo /\ stTodo' = stTodo \ {o}
    /\ \/ UNCHANGED stSnap
       \/ /\ o \in stFrames \cup {stTop} /\ stItems[o] # 0
          /\ stSnap' = [stSnap EXCEPT !.items[o] = stItems[o]]
    /\ UNCHANGED <<stBrowser, stFile, stStage, stCall, stPath, stClosed, stHeld, stCount>>

StHasRead ==
    /\ stStage = "frames" /\ stTodo = {} /\ StGoto("write")
    /\ UNCHANGED <<stBrowser, stFile, stPath, stTodo, stSnap, stClosed, stCount>>

\* write_storage_state: the new state replaces the old one whole, also what that
\* had of origins the page does not show.
StWritesFile ==
    /\ stStage = "write"
    /\ stFile' = File("written", stSnap.cookies, stSnap.items)
    /\ IF stCall = "close" THEN StGoto("har") ELSE StReturn
    /\ UNCHANGED <<stBrowser, stPath, stTodo, stSnap, stClosed, stCount>>

\* The process dies in the middle of the write.
StCrashes ==
    /\ stStage = "write" /\ stFile' = TornFile /\ stClosed' = TRUE
    /\ StReturn
    /\ UNCHANGED <<stBrowser, stPath, stTodo, stSnap, stCount>>

-----------------------------------------------------------------------------
(* The rest of close_browser: HAR, video and trace are written, each or an *)
(* event that says why not.                                                *)

StFlushes(stage, next) ==
    /\ stStage = stage /\ StGoto(next)
    /\ UNCHANGED <<stBrowser, stFile, stPath, stTodo, stSnap, stClosed, stCount>>

\* mark_intentional_stop, then Browser.close; it fails when the connection is
\* gone, and the caller sees that.
StCloses ==
    /\ stStage = "stop" /\ StReturn
    /\ stClosed' \in BOOLEAN
    /\ UNCHANGED <<stBrowser, stFile, stPath, stTodo, stSnap, stCount>>

StInit ==
    /\ stItems = NoItems /\ stCookies = 0 /\ stTop = FirstOrigin /\ stFrames = {}
    /\ stScripts = NoItems /\ stFile = NoFile /\ stStage = "idle" /\ stCall = "none"
    /\ stPath \in BOOLEAN /\ stTodo = {} /\ stSnap = NoSnap /\ stClosed = FALSE
    /\ stHeld = NoHeld /\ stCount = 0

StNext ==
    \/ \E o \in Origins : StWrites(o) \/ StApplies(o) \/ StReadsFrame(o)
    \/ \E top \in Origins : \E frames \in SUBSET (Origins \ {top}) : StNewDocument(top, frames)
    \/ StLoads \/ StLoaded \/ StLaunches \/ StSaves \/ StSaveFails
    \/ StCapturesCookies \/ StReadsOwn \/ StListsFrames \/ StHasRead \/ StWritesFile \/ StCrashes
    \/ StFlushes("har", "video") \/ StFlushes("video", "trace")
    \/ StFlushes("trace", "stop") \/ StCloses

-----------------------------------------------------------------------------
(* Properties *)

StTypeOK ==
    /\ {stItems, stScripts, stFile.items, stSnap.items} \subseteq [Origins -> Versions]
    /\ {stCookies, stFile.cookies} \subseteq Versions
    /\ stTop \in Origins /\ stFrames \subseteq Origins /\ stTodo \subseteq Origins
    /\ stHeld.cookies \subseteq Versions /\ stPath \in BOOLEAN

\* A state all of whose values the browser has had since the save began: an
\* origin may be missing, but not the page's own if the document stayed.
WasHeld(state) ==
    /\ state.cookies \in stHeld.cookies
    /\ \A o \in Origins : state.items[o] \in stHeld.items[o] \cup {0}
    /\ stHeld.stayed => state.items[stTop] \in stHeld.items[stTop]

\* What a save writes was in the browser after it was asked for, although it is
\* read piece by piece from a page that goes on; and close_browser with a
\* storage_state_path ends the browser only over a file it has so written
\* itself: neither an older file nor one torn by a write that failed.
SavedStateWasHeld ==
    [][ /\ stStage = "write" /\ stFile' # stFile /\ stFile'.kind = "written" => WasHeld(stFile')
        /\ stStage = "stop" /\ stPath /\ stClosed' => stFile'.kind = "written" /\ WasHeld(stFile') ]_stVars
=============================================================================
