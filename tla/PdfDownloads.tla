---------------------------- MODULE PdfDownloads ----------------------------
(***************************************************************************)
(* PDF documents are downloaded twice over: by the lifecycle watchdog, out *)
(* of the responses Chrome received (watchdog/downloads.rs), and by the    *)
(* session, when the page it captures is a PDF viewer                      *)
(* (auto_download_pdf in session_helpers.rs).  Both look a document up in  *)
(* the map of downloaded URLs, choose a free file name and write the file, *)
(* with awaits in between.                                                 *)
(*                                                                         *)
(* A path is <<name, k>>: the name a URL or header suggests, and the       *)
(* suffix "-k" that made it free (0: none).                                *)
(***************************************************************************)
EXTENDS Naturals

CONSTANTS
    Documents,     \* bound: PDF documents, by URL
    FileNameOf(_), \* the file name each is saved under, sanitized, with .pdf
    MaxDownloads   \* bound: downloads started, and so suffixes

DlActors == {"watchdog", "session"}
FileNames == {FileNameOf(u) : u \in Documents}
Paths == FileNames \X (0..MaxDownloads)
NoDocument == "none"
NoPath == <<NoDocument, 0>>

ASSUME PdfDownloadsAssumption ==
    NoDocument \notin Documents \cup FileNames /\ MaxDownloads \in Nat

VARIABLES
    dlFiles,      \* the downloads directory: the document in each file
    dlCached,     \* downloaded_urls (auto_pdf_downloads): path by URL
    dlCandidates, \* candidates: documents of responses still loading
    dlWork,       \* what each task is doing
    dlReused,     \* history: paths chosen twice at a time, or deleted once
    dlCount

dlVars == <<dlFiles, dlCached, dlCandidates, dlWork, dlReused, dlCount>>

Working(stage, u, path) == [stage |-> stage, doc |-> u, path |-> path]
DlIdle == Working("idle", NoDocument, NoPath)
Exists(path) == path # NoPath /\ dlFiles[path] # NoDocument
DlGoto(a, w) == dlWork' = [dlWork EXCEPT ![a] = w]
DlStart == dlCount < MaxDownloads /\ dlCount' = dlCount + 1

-----------------------------------------------------------------------------
(* The watchdog *)

\* observe_response: application/pdf by its MIME type or its header
DlResponse(u) ==
    /\ dlWork["watchdog"] = DlIdle /\ DlStart
    /\ dlCandidates' = dlCandidates \cup {u}
    /\ UNCHANGED <<dlFiles, dlCached, dlWork, dlReused>>

\* forget_candidate
DlLoadingFailed(u) ==
    /\ dlWork["watchdog"] = DlIdle
    /\ u \in dlCandidates /\ dlCandidates' = dlCandidates \ {u}
    /\ UNCHANGED <<dlFiles, dlCached, dlWork, dlReused, dlCount>>

\* take_finished_candidate: not again while the file is there; a cached file
\* that is gone is looked at again before its entry is dropped.
DlLoadingFinished(u) ==
    /\ dlWork["watchdog"] = DlIdle
    /\ u \in dlCandidates /\ dlCandidates' = dlCandidates \ {u}
    /\ IF Exists(dlCached[u]) THEN UNCHANGED dlWork
       ELSE IF dlCached[u] = NoPath THEN DlGoto("watchdog", Working("fetch", u, NoPath))
            ELSE DlGoto("watchdog", Working("stale", u, dlCached[u]))
    /\ UNCHANGED <<dlFiles, dlCached, dlReused, dlCount>>

DlDropsStale ==
    LET w == dlWork["watchdog"] IN
    /\ w.stage = "stale"
    /\ dlCached' = IF dlCached[w.doc] = w.path THEN [dlCached EXCEPT ![w.doc] = NoPath]
                   ELSE dlCached
    /\ DlGoto("watchdog", Working("fetch", w.doc, NoPath))
    /\ UNCHANGED <<dlFiles, dlCandidates, dlReused, dlCount>>

(* The session: auto_download_pdf_if_needed *)
DlSessionStarts(u) ==
    /\ dlWork["session"] = DlIdle /\ DlStart
    /\ IF Exists(dlCached[u]) THEN UNCHANGED dlWork
       ELSE DlGoto("session", Working("fetch", u, NoPath))
    /\ UNCHANGED <<dlFiles, dlCached, dlCandidates, dlReused>>

-----------------------------------------------------------------------------
(* Both: fetch, choose a name, write, remember *)

\* The body, the request or the write fails: an event says so, nothing is kept.
DlFails(a) ==
    /\ dlWork[a].stage \in {"fetch", "write"} /\ DlGoto(a, DlIdle)
    /\ UNCHANGED <<dlFiles, dlCached, dlCandidates, dlReused, dlCount>>

\* A mutant's form: the name is taken as it is.
DlChoosesFault(a) ==
    /\ dlWork[a].stage = "fetch"
    /\ DlGoto(a, Working("write", dlWork[a].doc, <<FileNameOf(dlWork[a].doc), 0>>))
    /\ UNCHANGED <<dlFiles, dlCached, dlCandidates, dlReused, dlCount>>

\* unique_download_path: the first suffix no file has
FirstFree(path, name) ==
    \E k \in 0..MaxDownloads :
        /\ path = <<name, k>> /\ ~Exists(path)
        /\ \A j \in 0..MaxDownloads : j < k => Exists(<<name, j>>)
DlChooses(a) ==
    /\ dlWork[a].stage = "fetch"
    /\ \E path \in Paths :
          /\ FirstFree(path, FileNameOf(dlWork[a].doc))
          /\ DlGoto(a, Working("write", dlWork[a].doc, path))
          /\ dlReused' = IF \E other \in DlActors \ {a} : dlWork[other].path = path
                         THEN dlReused \cup {path} ELSE dlReused
    /\ UNCHANGED <<dlFiles, dlCached, dlCandidates, dlCount>>

DlWrites(a) ==
    LET w == dlWork[a] IN
    /\ w.stage = "write"
    /\ dlFiles' = [dlFiles EXCEPT ![w.path] = w.doc]
    /\ DlGoto(a, Working("remember", w.doc, w.path))
    /\ UNCHANGED <<dlCached, dlCandidates, dlReused, dlCount>>

DlRemembers(a) ==
    LET w == dlWork[a] IN
    /\ w.stage = "remember"
    /\ dlCached' = [dlCached EXCEPT ![w.doc] = w.path]
    /\ DlGoto(a, DlIdle)
    /\ UNCHANGED <<dlFiles, dlCandidates, dlReused, dlCount>>

\* Somebody deletes or moves a downloaded file (external).
DlDeletes(path) ==
    /\ Exists(path) /\ DlStart
    /\ dlFiles' = [dlFiles EXCEPT ![path] = NoDocument]
    /\ dlReused' = dlReused \cup {path}
    /\ UNCHANGED <<dlCached, dlCandidates, dlWork>>

DlInit ==
    /\ dlFiles = [path \in Paths |-> NoDocument]
    /\ dlCached = [u \in Documents |-> NoPath]
    /\ dlCandidates = {} /\ dlReused = {} /\ dlCount = 0
    /\ dlWork = [a \in DlActors |-> DlIdle]

DlNext ==
    \/ \E u \in Documents :
          DlResponse(u) \/ DlLoadingFailed(u) \/ DlLoadingFinished(u) \/ DlSessionStarts(u)
    \/ DlDropsStale
    \/ \E a \in DlActors : DlFails(a) \/ DlChooses(a) \/ DlWrites(a) \/ DlRemembers(a)
    \/ \E path \in Paths : DlDeletes(path)

-----------------------------------------------------------------------------
(* Properties *)

DlTypeOK ==
    /\ dlFiles \in [Paths -> Documents \cup {NoDocument}]
    /\ dlCached \in [Documents -> Paths \cup {NoPath}]
    /\ dlCandidates \subseteq Documents /\ dlReused \subseteq Paths
    /\ \A a \in DlActors : dlWork[a].stage \in {"idle", "stale", "fetch", "write", "remember"}

\* The file remembered for a document holds that document: downloads of two
\* documents of one name, by two tasks, do not overwrite each other, except when
\* both chose a free name before either wrote it, or when a file was deleted and
\* its name taken again, which the map of downloaded URLs does not notice.
CachedFileHoldsDocument ==
    \A u \in Documents : dlCached[u] # NoPath /\ dlCached[u] \notin dlReused =>
        dlFiles[dlCached[u]] = u
=============================================================================
