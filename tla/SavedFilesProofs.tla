-------------------------- MODULE SavedFilesProofs --------------------------
(***************************************************************************)
(* The files that several tasks make without a lock.  In PdfDownloads and  *)
(* Artifacts a name is looked for first and the file made later; that what *)
(* was remembered or reported of a file stays true is proved for any       *)
(* number of files, and for Artifacts of writers, from what each task can  *)
(* rely on between the two.  In DaemonSessions the file is the record of a *)
(* browser: with any number of processes, browsers and commands, whatever  *)
(* step of a start or a stop fails and whenever Chrome comes up or exits,  *)
(* a browser that runs between commands is the recorded one, as long as    *)
(* commands neither overlap nor die and no browser outlives the wait.      *)
(***************************************************************************)
EXTENDS PdfDownloads, Artifacts, DaemonSessions, TLAPS

DlSpec == DlInit /\ [][DlNext]_dlVars
ArSpec == ArInit /\ [][ArNext]_arVars

-----------------------------------------------------------------------------
(* PdfDownloads: the inductive invariant *)

DlStages == {"idle", "stale", "fetch", "write", "remember"}
Works == [stage : DlStages, doc : Documents \cup {NoDocument}, path : Paths \cup {NoPath}]
DlTyped ==
  /\ dlFiles \in [Paths -> Documents \cup {NoDocument}]
  /\ dlCached \in [Documents -> Paths \cup {NoPath}]
  /\ dlCandidates \subseteq Documents /\ dlReused \subseteq Paths
  /\ dlWork \in [DlActors -> Works]
  /\ \A a \in DlActors :
       /\ dlWork[a].stage # "idle" => dlWork[a].doc \in Documents
       /\ dlWork[a].stage \in {"write", "remember"} => dlWork[a].path \in Paths

\* A name that was free is free until it is written, and no other task has it.
FreeUntilWritten ==
  \A a \in DlActors : dlWork[a].stage = "write" /\ dlWork[a].path \notin dlReused =>
    /\ dlFiles[dlWork[a].path] = NoDocument
    /\ \A b \in DlActors : b # a /\ dlWork[b].stage = "write" => dlWork[b].path # dlWork[a].path

\* What was written is there to be remembered.
WrittenIsThere ==
  \A a \in DlActors : dlWork[a].stage = "remember" /\ dlWork[a].path \notin dlReused =>
    dlFiles[dlWork[a].path] = dlWork[a].doc

DlInv == DlTyped /\ FreeUntilWritten /\ WrittenIsThere /\ CachedFileHoldsDocument

-----------------------------------------------------------------------------
(* PdfDownloads: the steps *)

\* The mark for no path is no path.
LEMMA NoPathIsNoPath == NoPath \notin Paths
BY PdfDownloadsAssumption DEF Paths, NoPath

\* A task without work.
LEMMA IdleIsWork == DlIdle \in Works /\ DlIdle.stage = "idle"
BY DEF DlIdle, Working, Works, DlStages

\* A task that goes to another stage before it has a name, or gives up, cannot
\* disturb what the others rely on.
LEMMA HarmlessStep ==
  ASSUME DlInv, NEW a \in DlActors, NEW w \in Works, w.stage \notin {"write", "remember"},
         w.stage # "idle" => w.doc \in Documents,
         dlWork' = [dlWork EXCEPT ![a] = w], dlFiles' = dlFiles, dlReused' = dlReused,
         dlCandidates' \subseteq Documents,
         dlCached' \in [Documents -> Paths \cup {NoPath}],
         \A u \in Documents : dlCached'[u] = dlCached[u] \/ dlCached'[u] = NoPath
  PROVE  DlInv'
<1>1. DlTyped /\ dlWork \in [DlActors -> Works]
  BY DEF DlInv, DlTyped
<1>2. dlWork' \in [DlActors -> Works] /\ \A b \in DlActors : dlWork'[b] = IF b = a THEN w ELSE dlWork[b]
  BY <1>1
<1>3. DlTyped'
  BY <1>1, <1>2 DEF DlTyped
<1>4. FreeUntilWritten' /\ WrittenIsThere'
  BY <1>2 DEF DlInv, FreeUntilWritten, WrittenIsThere
<1>5. CachedFileHoldsDocument'
  BY DEF DlInv, CachedFileHoldsDocument
<1>6. QED
  BY <1>3, <1>4, <1>5 DEF DlInv

\* A name is chosen that no file has; if another has chosen it, it is reused.
LEMMA ChoosesKeepsInv ==
  ASSUME DlInv, NEW a \in DlActors, DlChooses(a)
  PROVE  DlInv'
<1>1. DlTyped /\ dlWork \in [DlActors -> Works] /\ dlWork[a].stage = "fetch"
      /\ dlWork[a].doc \in Documents /\ UNCHANGED <<dlFiles, dlCached, dlCandidates>>
  BY DEF DlInv, DlTyped, DlChooses
<1>2. PICK path \in Paths :
        /\ ~Exists(path)
        /\ dlWork' = [dlWork EXCEPT ![a] = Working("write", dlWork[a].doc, path)]
        /\ dlReused' = IF \E other \in DlActors \ {a} : dlWork[other].path = path
                       THEN dlReused \cup {path} ELSE dlReused
  BY DEF DlChooses, FirstFree, DlGoto
<1> DEFINE w == Working("write", dlWork[a].doc, path)
<1>3. w \in Works /\ w.stage = "write" /\ w.path = path /\ w.doc \in Documents
  BY <1>1 DEF Working, Works, DlStages
<1>4. dlWork' \in [DlActors -> Works] /\ \A b \in DlActors : dlWork'[b] = IF b = a THEN w ELSE dlWork[b]
  BY <1>1, <1>2, <1>3
<1> HIDE DEF w
<1>5. dlFiles[path] = NoDocument
  BY <1>2, NoPathIsNoPath DEF Exists
<1>6. dlReused' \subseteq Paths /\ dlReused \subseteq dlReused'
  BY <1>1, <1>2 DEF DlTyped
<1>7. DlTyped'
  BY <1>1, <1>3, <1>4, <1>6 DEF DlTyped
<1>8. FreeUntilWritten'
  <2> SUFFICES ASSUME NEW b \in DlActors, dlWork'[b].stage = "write", dlWork'[b].path \notin dlReused'
               PROVE  /\ dlFiles'[dlWork'[b].path] = NoDocument
                      /\ \A c \in DlActors : c # b /\ dlWork'[c].stage = "write" =>
                           dlWork'[c].path # dlWork'[b].path
    BY DEF FreeUntilWritten
  <2>1. CASE b = a
    <3>1. path \notin dlReused'
      BY <1>3, <1>4, <2>1
    <3>2. \A c \in DlActors : c # a => dlWork[c].path # path
      BY <1>2, <3>1
    <3>3. QED
      BY <1>1, <1>3, <1>4, <1>5, <2>1, <3>2
  <2>2. CASE b # a
    <3>1. dlWork'[b] = dlWork[b] /\ dlWork[b].path \notin dlReused /\ dlWork[b].path # path
      BY <1>2, <1>4, <1>6, <2>2
    <3>2. QED
      BY <1>1, <1>3, <1>4, <3>1 DEF DlInv, FreeUntilWritten
  <2>3. QED
    BY <2>1, <2>2
<1>9. WrittenIsThere' /\ CachedFileHoldsDocument'
  BY <1>1, <1>3, <1>4, <1>6 DEF DlInv, WrittenIsThere, CachedFileHoldsDocument
<1>10. QED
  BY <1>7, <1>8, <1>9 DEF DlInv

\* A document is written under the name chosen for it.
LEMMA WritesKeepsInv ==
  ASSUME DlInv, NEW a \in DlActors, DlWrites(a)
  PROVE  DlInv'
<1> DEFINE path == dlWork[a].path
           doc == dlWork[a].doc
           w == Working("remember", doc, path)
<1>1. DlTyped /\ dlWork \in [DlActors -> Works] /\ dlWork[a].stage = "write"
      /\ doc \in Documents /\ path \in Paths
      /\ dlFiles \in [Paths -> Documents \cup {NoDocument}]
      /\ UNCHANGED <<dlCached, dlCandidates, dlReused>>
  BY DEF DlInv, DlTyped, DlWrites
<1>2. dlFiles' = [dlFiles EXCEPT ![path] = doc] /\ dlWork' = [dlWork EXCEPT ![a] = w]
  BY DEF DlWrites, DlGoto
<1>3. w \in Works /\ w.stage = "remember" /\ w.path = path /\ w.doc = doc
  BY <1>1 DEF Working, Works, DlStages
<1> HIDE DEF w
<1>4. dlWork' \in [DlActors -> Works] /\ \A b \in DlActors : dlWork'[b] = IF b = a THEN w ELSE dlWork[b]
  BY <1>1, <1>2, <1>3
<1>5. /\ dlFiles' \in [Paths -> Documents \cup {NoDocument}]
      /\ \A p \in Paths : dlFiles'[p] = IF p = path THEN doc ELSE dlFiles[p]
  BY <1>1, <1>2
<1>6. DlTyped'
  BY <1>1, <1>3, <1>4, <1>5 DEF DlTyped
<1>7. path \notin dlReused => dlFiles[path] = NoDocument
  BY <1>1 DEF DlInv, FreeUntilWritten
<1>8. FreeUntilWritten'
  <2> SUFFICES ASSUME NEW b \in DlActors, dlWork'[b].stage = "write", dlWork'[b].path \notin dlReused'
               PROVE  /\ dlFiles'[dlWork'[b].path] = NoDocument
                      /\ \A c \in DlActors : c # b /\ dlWork'[c].stage = "write" =>
                           dlWork'[c].path # dlWork'[b].path
    BY DEF FreeUntilWritten
  <2>1. b # a /\ dlWork'[b] = dlWork[b]
    BY <1>3, <1>4
  <2>2. /\ dlFiles[dlWork[b].path] = NoDocument /\ dlWork[b].path \in Paths
        /\ \A c \in DlActors : c # b /\ dlWork[c].stage = "write" => dlWork[c].path # dlWork[b].path
    BY <1>1, <2>1 DEF DlInv, DlTyped, FreeUntilWritten
  <2>3. dlWork[b].path # path
    BY <1>1, <2>1, <2>2
  <2>4. QED
    BY <1>3, <1>4, <1>5, <2>1, <2>2, <2>3
<1>9. WrittenIsThere'
  <2> SUFFICES ASSUME NEW b \in DlActors, dlWork'[b].stage = "remember", dlWork'[b].path \notin dlReused'
               PROVE  dlFiles'[dlWork'[b].path] = dlWork'[b].doc
    BY DEF WrittenIsThere
  <2>1. CASE b = a
    BY <1>1, <1>3, <1>4, <1>5, <2>1
  <2>2. CASE b # a
    <3>1. dlWork'[b] = dlWork[b] /\ dlWork[b].doc \in Documents /\ dlWork[b].path \in Paths
          /\ dlFiles[dlWork[b].path] = dlWork[b].doc
      BY <1>1, <1>4, <2>2 DEF DlInv, DlTyped, WrittenIsThere
    <3>2. dlWork[b].path # path
      BY <1>1, <1>7, <3>1, PdfDownloadsAssumption
    <3>3. QED
      BY <1>5, <3>1, <3>2
  <2>3. QED
    BY <2>1, <2>2
<1>10. CachedFileHoldsDocument'
  <2> SUFFICES ASSUME NEW u \in Documents, dlCached[u] # NoPath, dlCached[u] \notin dlReused
               PROVE  dlFiles'[dlCached[u]] = u
    BY <1>1 DEF CachedFileHoldsDocument
  <2>1. dlFiles[dlCached[u]] = u /\ dlCached[u] \in Paths
    BY <1>1 DEF DlInv, DlTyped, CachedFileHoldsDocument
  <2>2. dlCached[u] # path
    BY <1>7, <2>1, PdfDownloadsAssumption
  <2>3. QED
    BY <1>5, <2>1, <2>2
<1>11. QED
  BY <1>6, <1>8, <1>9, <1>10 DEF DlInv

\* A path is remembered after its document was written there.
LEMMA RemembersKeepsInv ==
  ASSUME DlInv, NEW a \in DlActors, DlRemembers(a)
  PROVE  DlInv'
<1>1. /\ DlTyped /\ dlWork[a].stage = "remember" /\ dlWork[a].doc \in Documents /\ dlWork[a].path \in Paths
      /\ dlCached \in [Documents -> Paths \cup {NoPath}] /\ dlWork \in [DlActors -> Works]
      /\ UNCHANGED <<dlFiles, dlCandidates, dlReused>>
      /\ dlCached' = [dlCached EXCEPT ![dlWork[a].doc] = dlWork[a].path]
      /\ dlWork' = [dlWork EXCEPT ![a] = DlIdle]
  BY DEF DlInv, DlTyped, DlRemembers, DlGoto
<1>2. /\ dlWork' \in [DlActors -> Works]
      /\ \A b \in DlActors : dlWork'[b] = IF b = a THEN DlIdle ELSE dlWork[b]
  BY <1>1, IdleIsWork
<1>3. /\ dlCached' \in [Documents -> Paths \cup {NoPath}]
      /\ \A u \in Documents : dlCached'[u] = IF u = dlWork[a].doc THEN dlWork[a].path ELSE dlCached[u]
  BY <1>1
<1>4. DlTyped'
  BY <1>1, <1>2, <1>3, IdleIsWork DEF DlTyped
<1>5. FreeUntilWritten' /\ WrittenIsThere'
  BY <1>1, <1>2, IdleIsWork DEF DlInv, FreeUntilWritten, WrittenIsThere
<1>6. CachedFileHoldsDocument'
  BY <1>1, <1>3 DEF DlInv, WrittenIsThere, CachedFileHoldsDocument
<1>7. QED
  BY <1>4, <1>5, <1>6 DEF DlInv

\* A deleted path counts as reused.
LEMMA DeletesKeepsInv ==
  ASSUME DlInv, NEW path \in Paths, DlDeletes(path)
  PROVE  DlInv'
<1>1. /\ DlTyped /\ dlFiles \in [Paths -> Documents \cup {NoDocument}]
      /\ UNCHANGED <<dlCached, dlCandidates, dlWork>> /\ dlReused' = dlReused \cup {path}
      /\ dlFiles' = [dlFiles EXCEPT ![path] = NoDocument]
  BY DEF DlInv, DlTyped, DlDeletes
<1>2. /\ dlFiles' \in [Paths -> Documents \cup {NoDocument}]
      /\ \A p \in Paths : p \notin dlReused' => dlFiles'[p] = dlFiles[p]
  BY <1>1
<1>3. DlTyped'
  BY <1>1, <1>2 DEF DlTyped
<1>4. FreeUntilWritten' /\ WrittenIsThere' /\ CachedFileHoldsDocument'
  BY <1>1, <1>2 DEF DlInv, DlTyped, FreeUntilWritten, WrittenIsThere, CachedFileHoldsDocument
<1>5. QED
  BY <1>3, <1>4 DEF DlInv

\* Every step of the downloads keeps their invariant.
LEMMA DownloadStepKeepsInv == DlInv /\ [DlNext]_dlVars => DlInv'
<1> SUFFICES ASSUME DlInv, [DlNext]_dlVars PROVE DlInv'
  OBVIOUS
<1>1. /\ DlTyped /\ dlCandidates \subseteq Documents /\ dlCached \in [Documents -> Paths \cup {NoPath}]
      /\ dlWork \in [DlActors -> Works] /\ {"watchdog", "session"} = DlActors
  BY DEF DlInv, DlTyped, DlActors
<1>2. CASE UNCHANGED <<dlFiles, dlCached, dlWork, dlReused>> /\ dlCandidates' \subseteq Documents
  BY <1>2 DEF DlInv, DlTyped, FreeUntilWritten, WrittenIsThere, CachedFileHoldsDocument
<1>3. ASSUME NEW u \in Documents, DlResponse(u) \/ DlLoadingFailed(u)
      PROVE  DlInv'
  BY <1>1, <1>2, <1>3 DEF DlResponse, DlLoadingFailed
<1>4. ASSUME NEW u \in Documents, NEW stage \in {"stale", "fetch"}, NEW path \in Paths \cup {NoPath}
      PROVE  /\ Working(stage, u, path) \in Works /\ Working(stage, u, path).stage = stage
             /\ Working(stage, u, path).doc = u
  BY DEF Working, Works, DlStages
<1>5. ASSUME NEW u \in Documents, DlLoadingFinished(u)
      PROVE  DlInv'
  <2>1. dlCandidates' \subseteq Documents /\ UNCHANGED <<dlFiles, dlCached, dlReused>>
    BY <1>1, <1>5 DEF DlLoadingFinished
  <2>2. CASE dlWork' = dlWork
    BY <1>2, <2>1, <2>2
  <2>3. CASE \E stage \in {"stale", "fetch"}, path \in Paths \cup {NoPath} :
               dlWork' = [dlWork EXCEPT !["watchdog"] = Working(stage, u, path)]
    <3>1. PICK stage \in {"stale", "fetch"}, path \in Paths \cup {NoPath} :
             dlWork' = [dlWork EXCEPT !["watchdog"] = Working(stage, u, path)]
      BY <2>3
    <3> DEFINE w == Working(stage, u, path)
    <3>2. w \in Works /\ w.stage \notin {"write", "remember"} /\ w.doc \in Documents
      BY <1>4
    <3>3. dlWork' = [dlWork EXCEPT !["watchdog"] = w]
      BY <3>1
    <3> HIDE DEF w
    <3>4. "watchdog" \in DlActors /\ dlCached' \in [Documents -> Paths \cup {NoPath}]
          /\ \A v \in Documents : dlCached'[v] = dlCached[v]
      BY <1>1, <2>1
    <3>5. QED
      BY <2>1, <3>2, <3>3, <3>4, HarmlessStep
  <2>4. QED
    BY <1>1, <1>5, <2>2, <2>3 DEF DlLoadingFinished, DlGoto
<1>6. ASSUME NEW u \in Documents, DlSessionStarts(u)
      PROVE  DlInv'
  <2>1. UNCHANGED <<dlFiles, dlCached, dlCandidates, dlReused>>
    BY <1>6 DEF DlSessionStarts
  <2>2. CASE dlWork' = dlWork
    BY <1>1, <1>2, <2>1, <2>2
  <2>3. CASE dlWork' = [dlWork EXCEPT !["session"] = Working("fetch", u, NoPath)]
    <3> DEFINE w == Working("fetch", u, NoPath)
    <3>1. w \in Works /\ w.stage \notin {"write", "remember"} /\ w.doc \in Documents
      BY <1>4
    <3>2. dlWork' = [dlWork EXCEPT !["session"] = w]
      BY <2>3
    <3> HIDE DEF w
    <3>3. /\ "session" \in DlActors /\ dlCandidates' \subseteq Documents
          /\ dlCached' \in [Documents -> Paths \cup {NoPath}]
          /\ \A v \in Documents : dlCached'[v] = dlCached[v]
      BY <1>1, <2>1
    <3>4. QED
      BY <2>1, <3>1, <3>2, <3>3, HarmlessStep
  <2>4. QED
    BY <1>6, <2>2, <2>3 DEF DlSessionStarts, DlGoto
<1>7. CASE DlDropsStale
  <2> DEFINE u == dlWork["watchdog"].doc
  <2>1. u \in Documents
    BY <1>1, <1>7 DEF DlDropsStale, DlTyped
  <2>2. /\ dlWork' = [dlWork EXCEPT !["watchdog"] = Working("fetch", u, NoPath)]
        /\ UNCHANGED <<dlFiles, dlCandidates, dlReused>>
        /\ dlCached' \in {dlCached, [dlCached EXCEPT ![u] = NoPath]}
    BY <1>7 DEF DlDropsStale, DlGoto
  <2>3. /\ dlCached' \in [Documents -> Paths \cup {NoPath}]
        /\ \A v \in Documents : dlCached'[v] = dlCached[v] \/ dlCached'[v] = NoPath
    BY <1>1, <2>1, <2>2
  <2> DEFINE w == Working("fetch", u, NoPath)
  <2>4. w \in Works /\ w.stage \notin {"write", "remember"} /\ w.doc \in Documents
    BY <1>4, <2>1
  <2>5. dlWork' = [dlWork EXCEPT !["watchdog"] = w]
    BY <2>2
  <2> HIDE DEF w, u
  <2>6. "watchdog" \in DlActors /\ dlCandidates' \subseteq Documents
    BY <1>1, <2>2
  <2>7. QED
    BY <2>2, <2>3, <2>4, <2>5, <2>6, HarmlessStep
<1>8. ASSUME NEW a \in DlActors, DlFails(a)
      PROVE  DlInv'
  BY <1>1, <1>8, IdleIsWork, HarmlessStep DEF DlFails, DlGoto
<1>9. CASE UNCHANGED dlVars
  BY <1>1, <1>2, <1>9 DEF dlVars
<1>10. QED
  BY <1>3, <1>5, <1>6, <1>7, <1>8, <1>9, ChoosesKeepsInv, WritesKeepsInv, RemembersKeepsInv,
     DeletesKeepsInv DEF DlNext

\* An empty directory satisfies it.
LEMMA DownloadInitInv == DlInit => DlInv
<1> SUFFICES ASSUME DlInit PROVE DlInv
  OBVIOUS
<1>1. DlTyped
  BY IdleIsWork DEF DlInit, DlTyped
<1>2. FreeUntilWritten /\ WrittenIsThere /\ CachedFileHoldsDocument
  BY IdleIsWork DEF DlInit, FreeUntilWritten, WrittenIsThere, CachedFileHoldsDocument
<1>3. QED
  BY <1>1, <1>2 DEF DlInv

\* The inductive invariant of downloads holds in every state.
THEOREM DownloadInvHolds == DlSpec => []DlInv
BY DownloadInitInv, DownloadStepKeepsInv, PTL DEF DlSpec

\* The file remembered for a document holds it, unless its name was chosen
\* twice at a time or freed by a deletion.
THEOREM DownloadsHold == DlSpec => []CachedFileHoldsDocument
<1>1. DlInv => CachedFileHoldsDocument
  BY DEF DlInv
<1>2. QED
  BY <1>1, DownloadInvHolds, PTL

-----------------------------------------------------------------------------
(* Artifacts: the inductive invariant *)

ArStages == {"idle", "capture", "choose", "open", "write", "rename"}
ArKinds == {"none", "pdf", "png", "trace", "gif", "mp4"}
ArNames == [kind : ArKinds, try : Nat]
Going == {"open", "write", "rename"}

ArTyped ==
  /\ arStage \in [Writers -> ArStages] /\ arName \in [Writers -> ArNames]
  /\ arMakes \in [Writers -> Nat] /\ arAsked \in Nat
  /\ \A w \in Writers : arStage[w] = "rename" => arName[w].kind = "trace"
  /\ \A r \in arReported : r.name \in ArNames

\* A name that nobody shares is one writer's while the file is made, ...
NamesAreOnes ==
  \A w, v \in Writers : arStage[w] \in Going /\ arStage[v] \in Going /\ arName[w] = arName[v] =>
    w = v \/ arName[w] \in arShared

\* ... nobody was told of it before, ...
NamesAreNew ==
  \A w \in Writers : arStage[w] \in Going /\ arName[w] \notin arShared =>
    \A r \in arReported : r.name # arName[w]

\* ... and what a trace was written to beside it is there to be renamed.
TracesAreBeside ==
  \A w \in Writers : arName[w].kind = "trace" /\ arName[w] \notin arShared =>
    /\ arStage[w] \in {"write", "rename"} => Beside(arName[w]) \in DOMAIN arDisk
    /\ arStage[w] = "rename" => arDisk[Beside(arName[w])] = ArContent(arMakes[w], TRUE)

ArInv == ArTyped /\ NamesAreOnes /\ NamesAreNew /\ TracesAreBeside /\ ReportedFilesHold

-----------------------------------------------------------------------------
(* Artifacts: the steps *)

\* The temporary name of a trace is no artifact's name.
LEMMA BesideIsNobodys ==
  ASSUME NEW a \in ArNames
  PROVE  Beside(a) \notin ArNames /\ Beside(a).kind = "tmp"
BY DEF Beside, Name, ArNames, ArKinds

\* Two traces with one temporary name have one name.
LEMMA BesideTellsNames ==
  ASSUME NEW a \in ArNames, NEW b \in ArNames, a.kind = b.kind, Beside(a) = Beside(b)
  PROVE  a = b
BY DEF Beside, Name, ArNames

\* The n-th name of a kind is a name of that kind.
LEMMA NamesAreNames ==
  ASSUME NEW kind \in ArKinds, NEW n \in Nat
  PROVE  Name(kind, n) \in ArNames /\ Name(kind, n).kind = kind /\ Name(kind, n).try = n
BY DEF Name, ArNames

\* A writer that leaves the directory as it is, and goes by no name for now.
LEMMA QuietWriterKeepsInv ==
  ASSUME ArInv, NEW w \in Writers, NEW s \in ArStages \ Going, NEW n \in ArNames, NEW m \in Nat,
         arStage' = [arStage EXCEPT ![w] = s], arName' = [arName EXCEPT ![w] = n],
         arMakes' = [arMakes EXCEPT ![w] = m], arAsked' \in Nat,
         UNCHANGED <<arDisk, arReported, arShared>>
  PROVE  ArInv'
<1>1. ArTyped /\ s \notin Going
  BY DEF ArInv
<1>2. \A v \in Writers : /\ arStage'[v] = IF v = w THEN s ELSE arStage[v]
                         /\ arName'[v] = IF v = w THEN n ELSE arName[v]
                         /\ arMakes'[v] = IF v = w THEN m ELSE arMakes[v]
  BY <1>1 DEF ArTyped
<1>3. ArTyped'
  BY <1>1, <1>2 DEF ArTyped, Going
<1>4. NamesAreOnes' /\ NamesAreNew'
  BY <1>1, <1>2 DEF ArInv, NamesAreOnes, NamesAreNew
<1>5. TracesAreBeside'
  BY <1>1, <1>2 DEF ArInv, TracesAreBeside, Going, Beside, Name, ArContent
<1>6. ReportedFilesHold'
  BY DEF ArInv, ReportedFilesHold
<1>7. QED
  BY <1>3, <1>4, <1>5, <1>6 DEF ArInv

\* A writer that is asked for an artifact has made nothing of it yet.
LEMMA AsksKeepsInv ==
  ASSUME ArInv, NEW w \in Writers,
         \/ ArSavesPdf(w) \/ ArTakesScreenshot(w) \/ ArWritesTrace(w) \/ ArWritesVideo(w)
  PROVE  ArInv'
<1>1. PICK kind \in {"pdf", "png", "trace", "gif", "mp4"}, stage \in {"capture", "choose"} :
        Asks(w, kind, stage)
  BY DEF ArSavesPdf, ArTakesScreenshot, ArWritesTrace, ArWritesVideo
<1>2. /\ arAsked' \in Nat /\ kind \in ArKinds /\ stage \in ArStages \ Going
      /\ arStage' = [arStage EXCEPT ![w] = stage]
      /\ arName' = [arName EXCEPT ![w] = Name(kind, 0)]
      /\ arMakes' = [arMakes EXCEPT ![w] = arAsked']
      /\ UNCHANGED <<arDisk, arReported, arShared>>
  BY <1>1 DEF Asks, ArGoes, ArInv, ArTyped, ArStages, ArKinds, Going
<1>3. Name(kind, 0) \in ArNames
  BY <1>2, NamesAreNames
<1>4. QED
  BY <1>2, <1>3, QuietWriterKeepsInv

\* A writer that captures, or gives up, touches no file.
LEMMA PausesKeepInv ==
  ASSUME ArInv, NEW w \in Writers, ArCaptures(w) \/ ArFails(w)
  PROVE  ArInv'
<1>1. PICK s \in {"choose", "idle"} : arStage' = [arStage EXCEPT ![w] = s]
  BY DEF ArCaptures, ArFails, ArGoes
<1>2. s \in ArStages \ Going /\ arName[w] \in ArNames /\ arMakes[w] \in Nat /\ arAsked' \in Nat
  BY DEF ArInv, ArTyped, ArStages, Going, ArCaptures, ArFails
<1>3. /\ arName' = [arName EXCEPT ![w] = arName[w]] /\ arMakes' = [arMakes EXCEPT ![w] = arMakes[w]]
      /\ UNCHANGED <<arDisk, arReported, arShared>>
  BY DEF ArInv, ArTyped, ArCaptures, ArFails
<1>4. QED
  BY <1>1, <1>2, <1>3, QuietWriterKeepsInv

\* The name that is taken is shared, or is nobody's, new, and a trace's not there yet.
LEMMA ChoosesNameKeepsInv ==
  ASSUME ArInv, NEW w \in Writers, ArChooses(w)
  PROVE  ArInv'
<1>1. /\ ArTyped /\ arStage' = [arStage EXCEPT ![w] = "open"]
      /\ UNCHANGED <<arDisk, arMakes, arAsked>>
  BY DEF ArInv, ArChooses, ArGoes
<1>2. PICK n \in 0..(LastTry + MaxArtifacts) :
        Try(arName[w].kind, n) /\ TakesName(w, Name(arName[w].kind, n))
  BY DEF ArChooses
<1> DEFINE kind == arName[w].kind
           name == Name(kind, n)
<1>3. n \in Nat /\ kind \in ArKinds
  BY <1>1, ArtifactsAssumption DEF ArTyped, ArNames
<1>4. name \in ArNames /\ name.kind = kind /\ name.try = n
  BY <1>3, NamesAreNames
<1>5. kind # "png" => name \notin DOMAIN arDisk \/ (kind # "pdf" /\ n = LastTry)
  BY <1>2 DEF Try, Taken
<1>6. /\ arName' = [arName EXCEPT ![w] = name] /\ arShared \subseteq arShared'
      /\ arReported' = {r \in arReported : ~(name.kind = "png" /\ r.name = name)}
      /\ name \notin arShared' =>
           /\ \A v \in Writers \ {w} : arStage[v] \in Going => arName[v] # name
           /\ name \in DOMAIN arDisk => name.kind \in {"png", "pdf"} \/ name.try # LastTry
  BY <1>2 DEF TakesName, Going
<1> HIDE DEF kind, name
<1>7. \A v \in Writers : /\ arStage'[v] = IF v = w THEN "open" ELSE arStage[v]
                         /\ arName'[v] = IF v = w THEN name ELSE arName[v]
  BY <1>1, <1>6 DEF ArTyped
<1>8. ArTyped'
  BY <1>1, <1>4, <1>6, <1>7 DEF ArTyped, ArStages
<1>9. NamesAreOnes'
  BY <1>6, <1>7 DEF ArInv, NamesAreOnes, Going
<1>10. NamesAreNew'
  <2>1. ASSUME name \notin arShared', NEW r \in arReported'
        PROVE  r.name # name
    <3>1. r \in arReported /\ ~(kind = "png" /\ r.name = name) /\ name \notin arShared
      BY <1>4, <1>6, <2>1
    <3>2. kind # "png" => name \notin DOMAIN arDisk
      BY <1>4, <1>5, <1>6, <2>1
    <3>3. QED
      BY <3>1, <3>2 DEF ArInv, ReportedFilesHold
  <2>2. QED
    BY <1>6, <1>7, <2>1 DEF ArInv, NamesAreNew
<1>11. TracesAreBeside'
  BY <1>1, <1>6, <1>7 DEF ArInv, TracesAreBeside, Beside, Name, ArContent
<1>12. ReportedFilesHold'
  BY <1>1, <1>6 DEF ArInv, ReportedFilesHold
<1>13. QED
  BY <1>8, <1>9, <1>10, <1>11, <1>12 DEF ArInv

\* The names of the others that nobody shares are not the ones w writes to.
LEMMA OthersNames ==
  ASSUME ArInv, NEW w \in Writers, NEW v \in Writers, v # w,
         arStage[w] \in Going, arStage[v] \in Going,
         arName[v].kind = "trace", arName[v] \notin arShared
  PROVE  Beside(arName[v]) # Target(w) /\ Beside(arName[v]) # arName[w]
<1>1. arName[w] \in ArNames /\ arName[v] \in ArNames /\ arName[w] # arName[v]
  BY DEF ArInv, ArTyped, NamesAreOnes
<1>2. QED
  BY <1>1, BesideIsNobodys, BesideTellsNames DEF Target

\* A writer that opens its file makes it, but not yet whole.
LEMMA OpensKeepsInv ==
  ASSUME ArInv, NEW w \in Writers, ArOpens(w)
  PROVE  ArInv'
<1> DEFINE target == Target(w)
           content == ArContent(arMakes[w], FALSE)
<1>1. /\ ArTyped /\ arStage[w] = "open" /\ arStage' = [arStage EXCEPT ![w] = "write"]
      /\ UNCHANGED <<arName, arMakes, arReported, arShared, arAsked>>
      /\ arDisk' = PutIn(arDisk, target, content)
  BY DEF ArInv, ArOpens, ArGoes
<1>2. \A v \in Writers : arStage'[v] = IF v = w THEN "write" ELSE arStage[v]
  BY <1>1 DEF ArTyped
<1>3. /\ DOMAIN arDisk' = DOMAIN arDisk \cup {target}
      /\ \A n \in DOMAIN arDisk' : arDisk'[n] = IF n = target THEN content ELSE arDisk[n]
  BY <1>1 DEF PutIn
<1>4. arName[w] \in ArNames /\ (arName[w].kind = "trace" => target \notin ArNames)
      /\ target.kind # "trace" /\ (arName[w].kind # "trace" => target = arName[w])
  BY <1>1, BesideIsNobodys DEF ArTyped, Target
<1>5. arName[w].kind = "trace" => target = Beside(arName[w])
  BY DEF Target
<1>6. \A v \in Writers : v # w /\ arName[v].kind = "trace" /\ arName[v] \notin arShared /\ arStage[v] \in Going =>
        Beside(arName[v]) # target
  BY <1>1, OthersNames DEF Going
<1> HIDE DEF target, content
<1>7. ArTyped'
  BY <1>1, <1>2 DEF ArTyped, ArStages
<1>8. NamesAreOnes' /\ NamesAreNew'
  BY <1>1, <1>2 DEF ArInv, NamesAreOnes, NamesAreNew, Going
<1>9. TracesAreBeside'
  BY <1>1, <1>2, <1>3, <1>5, <1>6 DEF ArInv, TracesAreBeside, Going, Beside, Name, ArContent
<1>10. ReportedFilesHold'
  <2>1. ASSUME NEW r \in arReported, r.name \notin arShared
        PROVE  r.name # target
    BY <1>1, <1>4, <2>1 DEF ArInv, ArTyped, NamesAreNew, Going
  <2>2. QED
    BY <1>1, <1>3, <1>4, <2>1 DEF ArInv, ReportedFilesHold
<1>11. QED
  BY <1>7, <1>8, <1>9, <1>10 DEF ArInv

\* A writer that writes makes its file whole.
LEMMA WritesArtifactKeepsInv ==
  ASSUME ArInv, NEW w \in Writers, ArWrites(w)
  PROVE  ArInv'
<1> DEFINE target == Written(w)
           content == ArContent(arMakes[w], TRUE)
           name == arName[w]
           told == [name |-> name, of |-> arMakes[w]]
<1>1. /\ ArTyped /\ arStage[w] = "write" /\ name \in ArNames
      /\ UNCHANGED <<arName, arMakes, arShared, arAsked>>
      /\ arDisk' = PutIn(arDisk, target, content)
  BY DEF ArInv, ArTyped, ArWrites
<1>2. /\ name.kind = "trace" => /\ arStage' = [arStage EXCEPT ![w] = "rename"]
                                /\ arReported' = arReported
      /\ name.kind # "trace" => /\ arStage' = [arStage EXCEPT ![w] = "idle"]
                                /\ arReported' = arReported \cup {told}
  BY DEF ArWrites, ArGoes, Reports
<1>3. \A v \in Writers : arStage'[v] = IF v # w THEN arStage[v]
                                       ELSE IF name.kind = "trace" THEN "rename" ELSE "idle"
  BY <1>1, <1>2 DEF ArTyped
<1>4. /\ DOMAIN arDisk' = DOMAIN arDisk \cup {target}
      /\ \A n \in DOMAIN arDisk' : arDisk'[n] = IF n = target THEN content ELSE arDisk[n]
  BY <1>1 DEF PutIn
<1>5. /\ name.kind # "trace" => target = name
      /\ name.kind = "trace" /\ name \notin arShared => target = Beside(name)
      /\ target = name \/ target = Beside(name)
  BY <1>1 DEF ArInv, TracesAreBeside, Target, Written
<1>6. \A v \in Writers : v # w /\ arName[v].kind = "trace" /\ arName[v] \notin arShared /\ arStage[v] \in Going =>
        Beside(arName[v]) # target
  BY <1>1, OthersNames DEF Going, Written
<1>7. Beside(name) \notin ArNames /\ Beside(name).kind = "tmp"
  BY <1>1, BesideIsNobodys
<1>8. content.of = arMakes[w] /\ content.whole
  BY DEF ArContent
<1> HIDE DEF target, name
<1>9. ArTyped'
  <2>1. arStage' \in [Writers -> ArStages]
    BY <1>1, <1>2 DEF ArTyped, ArStages
  <2>2. \A r \in arReported' : r.name \in ArNames
    BY <1>1, <1>2 DEF ArTyped
  <2>3. \A v \in Writers : arStage'[v] = "rename" => arName[v].kind = "trace"
    BY <1>1, <1>3 DEF ArTyped, name
  <2>4. QED
    BY <1>1, <2>1, <2>2, <2>3 DEF ArTyped
<1>10. NamesAreOnes'
  BY <1>1, <1>3 DEF ArInv, NamesAreOnes, Going
<1>11. NamesAreNew'
  <2> SUFFICES ASSUME NEW v \in Writers, arStage'[v] \in Going, arName[v] \notin arShared,
                      NEW r \in arReported'
               PROVE  r.name # arName[v]
    BY <1>1 DEF NamesAreNew
  <2>1. arStage[v] \in Going /\ (v = w => name.kind = "trace")
    BY <1>1, <1>3 DEF Going
  <2>2. CASE r \in arReported
    BY <2>1, <2>2 DEF ArInv, NamesAreNew
  <2>3. CASE r = told /\ name.kind # "trace"
    BY <1>1, <2>1, <2>3 DEF ArInv, NamesAreOnes, Going, name
  <2>4. QED
    BY <1>2, <2>2, <2>3
<1>12. TracesAreBeside'
  <2> SUFFICES ASSUME NEW v \in Writers, arName[v].kind = "trace", arName[v] \notin arShared
               PROVE  /\ arStage'[v] \in {"write", "rename"} => Beside(arName[v]) \in DOMAIN arDisk'
                      /\ arStage'[v] = "rename" => arDisk'[Beside(arName[v])] = ArContent(arMakes[v], TRUE)
    BY <1>1 DEF TracesAreBeside
  <2>1. CASE v = w
    BY <1>4, <1>5, <2>1 DEF name
  <2>2. CASE v # w
    BY <1>3, <1>4, <1>6, <2>2 DEF ArInv, TracesAreBeside, Going, Beside, Name, ArContent
  <2>3. QED
    BY <2>1, <2>2
<1>13. ReportedFilesHold'
  <2>1. ASSUME NEW r \in arReported, r.name \notin arShared
        PROVE  r.name # target
    BY <1>1, <1>5, <1>7, <2>1 DEF ArInv, ArTyped, NamesAreNew, Going, name
  <2>2. ASSUME NEW r \in arReported', r.name \notin arShared
        PROVE  r.name \in DOMAIN arDisk' /\ arDisk'[r.name] = ArContent(r.of, TRUE)
    <3>1. CASE r \in arReported
      BY <1>4, <2>1, <2>2, <3>1 DEF ArInv, ReportedFilesHold
    <3>2. CASE r = told /\ name.kind # "trace"
      BY <1>4, <1>5, <3>2
    <3>3. QED
      BY <1>2, <2>2, <3>1, <3>2
  <2>3. ASSUME NEW n \in DOMAIN arDisk', n.kind = "trace", n \notin arShared
        PROVE  arDisk'[n].whole
    BY <1>4, <1>8, <2>3 DEF ArInv, ReportedFilesHold
  <2>4. QED
    BY <1>1, <2>2, <2>3 DEF ReportedFilesHold
<1>14. QED
  BY <1>9, <1>10, <1>11, <1>12, <1>13 DEF ArInv

\* A trace that is renamed leaves no temporary file.
LEMMA RenamesKeepsInv ==
  ASSUME ArInv, NEW w \in Writers, ArRenames(w)
  PROVE  ArInv'
<1> DEFINE name == arName[w]
           told == [name |-> name, of |-> arMakes[w]]
<1>1. /\ ArTyped /\ arStage[w] = "rename" /\ name \in ArNames /\ name.kind = "trace"
      /\ UNCHANGED <<arName, arMakes, arShared, arAsked>>
      /\ arStage' = [arStage EXCEPT ![w] = "idle"] /\ arReported' = arReported \cup {told}
      /\ arDisk' = [n \in (DOMAIN arDisk \cup {name}) \ {Beside(name)} |->
                      IF n = name THEN arDisk[Beside(n)] ELSE arDisk[n]]
  BY DEF ArInv, ArTyped, ArRenames, Reports
<1>2. \A v \in Writers : arStage'[v] = IF v = w THEN "idle" ELSE arStage[v]
  BY <1>1 DEF ArTyped
<1>3. Beside(name) \notin ArNames /\ name # Beside(name)
  BY <1>1, BesideIsNobodys
<1>4. /\ DOMAIN arDisk' = (DOMAIN arDisk \cup {name}) \ {Beside(name)}
      /\ \A n \in DOMAIN arDisk' : arDisk'[n] = IF n = name THEN arDisk[Beside(n)] ELSE arDisk[n]
  BY <1>1
<1>5. name \notin arShared => arDisk[Beside(name)] = ArContent(arMakes[w], TRUE)
  BY <1>1 DEF ArInv, TracesAreBeside, Beside, Name, ArContent
<1>6. \A v \in Writers : v # w /\ arName[v].kind = "trace" /\ arName[v] \notin arShared /\ arStage[v] \in Going =>
        Beside(arName[v]) # name /\ Beside(arName[v]) # Beside(name)
  BY <1>1, OthersNames DEF Going, Target
<1>7. ArTyped'
  BY <1>1, <1>2 DEF ArTyped, ArStages
<1>8. NamesAreOnes'
  BY <1>1, <1>2 DEF ArInv, NamesAreOnes, Going
<1>9. NamesAreNew'
  BY <1>1, <1>2 DEF ArInv, NamesAreNew, NamesAreOnes, Going
<1> HIDE DEF name
<1>10. TracesAreBeside'
  BY <1>1, <1>2, <1>4, <1>6 DEF ArInv, TracesAreBeside, Going, Beside, Name, ArContent
<1>11. ReportedFilesHold'
  <2>1. ASSUME NEW r \in arReported, r.name \notin arShared
        PROVE  r.name # name /\ r.name # Beside(name)
    BY <1>1, <1>3, <2>1 DEF ArInv, ArTyped, NamesAreNew, Going, name
  <2>2. ASSUME NEW r \in arReported', r.name \notin arShared
        PROVE  r.name \in DOMAIN arDisk' /\ arDisk'[r.name] = ArContent(r.of, TRUE)
    <3>1. CASE r \in arReported
      BY <1>4, <2>1, <2>2, <3>1 DEF ArInv, ReportedFilesHold
    <3>2. CASE r = told
      BY <1>3, <1>4, <1>5, <2>2, <3>2
    <3>3. QED
      BY <1>1, <3>1, <3>2
  <2>3. ASSUME NEW n \in DOMAIN arDisk', n.kind = "trace", n \notin arShared
        PROVE  arDisk'[n].whole
    BY <1>4, <1>5, <2>3 DEF ArInv, ReportedFilesHold, ArContent
  <2>4. QED
    BY <1>1, <2>2, <2>3 DEF ReportedFilesHold
<1>12. QED
  BY <1>7, <1>8, <1>9, <1>10, <1>11 DEF ArInv

\* A video whose encoder fails is made again as a GIF.
LEMMA EncoderFailsKeepsInv ==
  ASSUME ArInv, NEW w \in Writers, ArEncoderFails(w)
  PROVE  ArInv'
<1> DEFINE name == arName[w]
<1>1. /\ ArTyped /\ arStage[w] \in Going /\ name \in ArNames /\ name.kind = "mp4"
      /\ UNCHANGED <<arMakes, arReported, arShared, arAsked>>
      /\ arStage' = [arStage EXCEPT ![w] = "choose"]
      /\ arName' = [arName EXCEPT ![w] = Name("gif", 0)]
      /\ arDisk' = [n \in DOMAIN arDisk \ {name} |-> arDisk[n]]
  BY DEF ArInv, ArTyped, ArEncoderFails, Going
<1>2. Name("gif", 0) \in ArNames
  BY NamesAreNames DEF ArKinds
<1>3. \A v \in Writers : /\ arStage'[v] = IF v = w THEN "choose" ELSE arStage[v]
                         /\ arName'[v] = IF v = w THEN Name("gif", 0) ELSE arName[v]
  BY <1>1 DEF ArTyped
<1>4. DOMAIN arDisk' = DOMAIN arDisk \ {name} /\ \A n \in DOMAIN arDisk' : arDisk'[n] = arDisk[n]
  BY <1>1
<1>5. ArTyped'
  BY <1>1, <1>2, <1>3 DEF ArTyped, ArStages
<1>6. NamesAreOnes' /\ NamesAreNew'
  BY <1>1, <1>3 DEF ArInv, NamesAreOnes, NamesAreNew, Going
<1>7. TracesAreBeside'
  <2>1. \A v \in Writers : arName[v].kind = "trace" => Beside(arName[v]) # name
    BY <1>1, BesideIsNobodys DEF ArTyped
  <2>2. QED
    BY <1>1, <1>3, <1>4, <2>1 DEF ArInv, TracesAreBeside, Beside, Name, ArContent
<1>8. ReportedFilesHold'
  BY <1>1, <1>4 DEF ArInv, ReportedFilesHold, NamesAreNew
<1>9. QED
  BY <1>5, <1>6, <1>7, <1>8 DEF ArInv

\* Every step of the writers keeps their invariant.
LEMMA ArtifactStepKeepsInv == ArInv /\ [ArNext]_arVars => ArInv'
<1> SUFFICES ASSUME ArInv, [ArNext]_arVars PROVE ArInv'
  OBVIOUS
<1>1. ASSUME UNCHANGED arVars PROVE ArInv'
  BY <1>1 DEF arVars, ArInv, ArTyped, NamesAreOnes, NamesAreNew, TracesAreBeside, ReportedFilesHold
<1>2. QED
  BY <1>1, AsksKeepsInv, PausesKeepInv, ChoosesNameKeepsInv, OpensKeepsInv, WritesArtifactKeepsInv,
     RenamesKeepsInv, EncoderFailsKeepsInv DEF ArNext

\* An empty directory satisfies it.
LEMMA ArtifactInitInv == ArInit => ArInv
<1> SUFFICES ASSUME ArInit PROVE ArInv
  OBVIOUS
<1>1. Name("none", 0) \in ArNames
  BY NamesAreNames DEF ArKinds
<1>2. ArTyped
  BY <1>1 DEF ArInit, ArTyped, ArStages
<1>3. NamesAreOnes /\ NamesAreNew /\ TracesAreBeside
  BY DEF ArInit, NamesAreOnes, NamesAreNew, TracesAreBeside, Going
<1>4. ReportedFilesHold
  BY DEF ArInit, ReportedFilesHold
<1>5. QED
  BY <1>2, <1>3, <1>4 DEF ArInv

\* The inductive invariant of artifacts holds in every state.
THEOREM ArtifactInvHolds == ArSpec => []ArInv
BY ArtifactInitInv, ArtifactStepKeepsInv, PTL DEF ArSpec

\* A file whose name a caller was told holds the artifact, whole, whoever else
\* writes to the directory and whatever fails, unless its name was shared.
THEOREM ArtifactsHold == ArSpec => []ReportedFilesHold
<1>1. ArInv => ReportedFilesHold
  BY DEF ArInv
<1>2. QED
  BY <1>1, ArtifactInvHolds, PTL

DsSpec == DsInit /\ [][DsNext]_dsVars

-----------------------------------------------------------------------------
(* DaemonSessions: the inductive invariant *)

DsStages == {"idle", "launch", "port", "connect", "record", "close", "wait", "remove"}
Known == 0..dsSpawned
DsTyped ==
  /\ dsSpawned \in Nat
  /\ dsStage \in [Clients -> DsStages]
  /\ dsWork \in [Clients -> [child : Known, endpoint : Known, process : Known]]
  /\ dsRecord \in [file : {"none", "torn", "whole"}, endpoint : Known, process : Known]
  /\ DsTypeOK

\* What the one client at work can rely on: a start has no browser but its own,
\* a stop none but the recorded one, and what is removed belongs to none.
ClientKnows(c) ==
  /\ dsStage[c] \in {"launch", "port", "connect", "record"} =>
       dsRecord = NoRecord /\ dsRunning \subseteq {dsWork[c].child}
  /\ dsStage[c] = "launch" => dsWork[c].child = 0
  /\ dsStage[c] = "record" => dsWork[c].endpoint = dsWork[c].child
  /\ dsStage[c] \in {"close", "wait"} =>
       dsRunning \subseteq {dsWork[c].endpoint} /\ dsWork[c].endpoint = dsWork[c].process
  /\ dsStage[c] = "remove" => dsRunning = {}
BrowserRecorded == dsRunning \subseteq {dsRecord.endpoint} /\ dsRecord.endpoint = dsRecord.process
OneAtWork == \A c, d \in Clients : c = d \/ DsIdle(c) \/ DsIdle(d)
NothingOdd ==
  dsOdd = {} =>
    /\ OneAtWork
    /\ \A c \in Clients : ClientKnows(c)
    /\ (\A c \in Clients : DsIdle(c)) => BrowserRecorded

DsInv == DsTyped /\ NothingOdd

-----------------------------------------------------------------------------
(* DaemonSessions: types *)

\* Every step of the commands and processes keeps their types.
LEMMA SessionStepIsTyped == DsTyped /\ [DsNext]_dsVars => DsTyped'
<1> SUFFICES ASSUME DsTyped, [DsNext]_dsVars PROVE DsTyped'
  OBVIOUS
<1> USE DEF DsTyped, DsTypeOK, DsIdle, Known, DsStages
<1>1. 0 \in Known /\ NoWork \in [child : Known, endpoint : Known, process : Known]
      /\ {NoRecord, TornRecord} \subseteq [file : {"none", "torn", "whole"}, endpoint : Known, process : Known]
  BY DEF NoWork, NoRecord, TornRecord, SessionRecord
<1>2. ASSUME NEW c \in Clients, NEW stage \in DsStages, Begins(c, stage), dsWork' = dsWork \/ stage # "idle"
      PROVE  /\ dsStage' \in [Clients -> DsStages] /\ dsOdd' \subseteq {"overlap", "died", "outlived"}
             /\ \A d \in Clients : d # c => dsStage'[d] = dsStage[d]
             /\ dsStage'[c] = stage
  BY <1>2 DEF Begins
<1>3. ASSUME NEW c \in Clients, Ends(c)
      PROVE  /\ dsStage' \in [Clients -> DsStages]
             /\ dsWork' \in [Clients -> [child : Known, endpoint : Known, process : Known]]
             /\ \A d \in Clients : dsStage'[d] = "idle" => dsWork'[d] = NoWork
  BY <1>1, <1>3 DEF Ends
<1>4. ASSUME NEW c \in Clients, DsStart(c)
      PROVE  DsTyped'
  BY <1>2, <1>4 DEF DsStart
<1>5. ASSUME NEW c \in Clients, DsLaunches(c)
      PROVE  DsTyped'
  <2>1. /\ dsSpawned' = dsSpawned + 1 /\ dsSpawned' \in Nat /\ Known \subseteq Known' /\ dsSpawned' \in Known'
        /\ dsRunning' = dsRunning \cup {dsSpawned'} /\ 1..dsSpawned \subseteq 1..dsSpawned'
        /\ dsSpawned' \in 1..dsSpawned'
    BY <1>5 DEF DsLaunches
  <2>2. dsStage' = [dsStage EXCEPT ![c] = "port"] /\ dsWork' = [dsWork EXCEPT ![c].child = dsSpawned']
    BY <1>5 DEF DsLaunches, Moves
  <2>3. dsWork' \in [Clients -> [child : Known', endpoint : Known', process : Known']]
    <3>1. dsWork \in [Clients -> [child : Known', endpoint : Known', process : Known']]
      BY <2>1
    <3>2. QED
      BY <2>1, <2>2, <3>1
  <2>4. dsStage' \in [Clients -> DsStages]
        /\ \A d \in Clients : dsStage'[d] = "idle" => dsWork'[d] = NoWork
    BY <2>2
  <2>5. /\ dsRecord' = dsRecord /\ dsBooted' = dsBooted /\ dsPort' = dsPort /\ dsMemory' = dsMemory
        /\ dsOdd' = dsOdd
    BY <1>5 DEF DsLaunches
  <2>6. dsRecord' \in [file : {"none", "torn", "whole"}, endpoint : Known', process : Known']
    BY <2>1, <2>5
  <2>7. /\ dsRunning' \subseteq 1..dsSpawned' /\ dsBooted' \subseteq 1..dsSpawned' /\ dsPort' \in 0..dsSpawned'
        /\ dsMemory' \in 0..dsSpawned' /\ dsOdd' \subseteq {"overlap", "died", "outlived"}
    BY <2>1, <2>5
  <2>8. QED
    BY <2>1, <2>3, <2>4, <2>6, <2>7
<1>6. ASSUME NEW c \in Clients, DsReadsPort(c)
      PROVE  DsTyped'
  BY <1>6 DEF DsReadsPort, Moves
<1>7. ASSUME NEW c \in Clients, DsConnects(c) \/ DsCloses(c) \/ DsWaits(c)
      PROVE  DsTyped'
  BY <1>7 DEF DsConnects, DsCloses, DsWaits, Moves
<1>8. ASSUME NEW c \in Clients, DsRecords(c)
      PROVE  DsTyped'
  BY <1>3, <1>8 DEF DsRecords, SessionRecord
<1>9. ASSUME NEW c \in Clients, DsStartFails(c) \/ DsDies(c)
      PROVE  DsTyped'
  <2>1. Ends(c) /\ MayTear(c) /\ dsRunning' \subseteq dsRunning /\ dsMemory' \in {0, dsMemory}
        /\ dsOdd' \subseteq {"overlap", "died", "outlived"} /\ UNCHANGED <<dsBooted, dsPort, dsSpawned>>
    BY <1>9 DEF DsStartFails, DsDies
  <2>2. dsRecord' \in [file : {"none", "torn", "whole"}, endpoint : Known, process : Known]
    BY <1>1, <2>1 DEF MayTear
  <2>3. QED
    BY <1>3, <2>1, <2>2
<1>10. ASSUME NEW c \in Clients, NEW stage \in {"close", "remove"}, Stopping(c, stage), dsMemory' \in {0, dsMemory}
       PROVE  DsTyped'
  <2>1. /\ Begins(c, stage) /\ dsWork' = [dsWork EXCEPT ![c].endpoint = dsRecord.endpoint,
                                                        ![c].process = dsRecord.process]
        /\ UNCHANGED <<dsRunning, dsBooted, dsPort, dsRecord, dsSpawned>>
    BY <1>10 DEF Stopping
  <2>2. dsWork' \in [Clients -> [child : Known, endpoint : Known, process : Known]]
        /\ \A d \in Clients : d # c => dsWork'[d] = dsWork[d]
    <3> DEFINE new == [dsWork[c] EXCEPT !.endpoint = dsRecord.endpoint, !.process = dsRecord.process]
    <3>1. new \in [child : Known, endpoint : Known, process : Known]
      <4>1. /\ dsWork[c] \in [child : Known, endpoint : Known, process : Known]
            /\ dsRecord.endpoint \in Known /\ dsRecord.process \in Known
        OBVIOUS
      <4> HIDE DEF Known, DsTyped
      <4>2. QED
        BY <4>1
    <3>2. dsWork' = [dsWork EXCEPT ![c] = new]
      BY <2>1, Zenon
    <3> HIDE DEF new
    <3>3. QED
      BY <3>1, <3>2
  <2>3. /\ dsStage' \in [Clients -> DsStages] /\ dsOdd' \subseteq {"overlap", "died", "outlived"}
        /\ \A d \in Clients : d # c => dsStage'[d] = dsStage[d]
        /\ dsStage'[c] # "idle"
    BY <1>2, <2>1
  <2>4. QED
    BY <1>10, <2>1, <2>2, <2>3
<1>11. ASSUME NEW c \in Clients, DsStop(c) \/ DsCleanup(c)
       PROVE  DsTyped'
  BY <1>10, <1>11 DEF DsStop, DsCleanup
<1>12. ASSUME NEW c \in Clients, DsRemoves(c)
       PROVE  DsTyped'
  BY <1>1, <1>3, <1>12 DEF DsRemoves
<1>13. CASE DsStopFindsNoRecord \/ DsReconnects
  <2>1. /\ Daemon \in Clients /\ Begins(Daemon, "idle") /\ dsMemory' \in Known
        /\ UNCHANGED <<dsRunning, dsBooted, dsPort, dsRecord, dsWork, dsSpawned>>
    BY <1>1, <1>13 DEF DsStopFindsNoRecord, DsReconnects, Clients
  <2>2. dsStage' = dsStage /\ dsOdd' \subseteq {"overlap", "died", "outlived"}
    BY <2>1 DEF Begins
  <2>3. QED
    BY <2>1, <2>2
<1>14. CASE DsDaemonRestarts
  BY <1>14 DEF DsDaemonRestarts
<1>15. ASSUME NEW b \in 1..MaxBrowsers, ChromeBoots(b) \/ ChromeExits(b)
       PROVE  DsTyped'
  <2>1. b \in dsRunning /\ b \in 1..dsSpawned /\ b \in 0..dsSpawned /\ 0 \in 0..dsSpawned
    BY <1>15 DEF ChromeBoots, ChromeExits
  <2>2. UNCHANGED <<dsRecord, dsStage, dsWork, dsMemory, dsSpawned, dsOdd>>
    BY <1>15 DEF ChromeBoots, ChromeExits
  <2>3. dsRunning' \subseteq dsRunning /\ dsBooted' \subseteq dsBooted \cup {b} /\ dsPort' \in {dsPort, b, 0}
    BY <1>15 DEF ChromeBoots, ChromeExits
  <2>4. QED
    BY <2>1, <2>2, <2>3
<1>16. CASE UNCHANGED dsVars
  BY <1>16 DEF dsVars
<1>17. QED
  BY <1>4, <1>5, <1>6, <1>7, <1>8, <1>9, <1>11, <1>12, <1>13, <1>14, <1>15, <1>16 DEF DsNext

-----------------------------------------------------------------------------
(* DaemonSessions: the steps *)

\* Only the client at work moves, and what it leaves it has left in order.
LEMMA OneClientSteps ==
  ASSUME NEW c \in Clients, DsTyped', dsOdd' = {},
         \A d \in Clients : d = c \/ dsStage'[d] = "idle",
         ClientKnows(c)', dsStage'[c] = "idle" => BrowserRecorded'
  PROVE  DsInv'
<1>1. OneAtWork'
  BY DEF OneAtWork, DsIdle
<1>2. \A d \in Clients : ClientKnows(d)'
  BY DEF ClientKnows
<1>3. (\A d \in Clients : DsIdle(d)') => BrowserRecorded'
  BY DEF DsIdle
<1>4. QED
  BY <1>1, <1>2, <1>3 DEF DsInv, NothingOdd

\* A command that begins, when nothing odd happens, is the only one.
LEMMA CommandBeginsAlone ==
  ASSUME NEW c \in Clients, NEW stage, Begins(c, stage), DsInv, dsOdd' = {}
  PROVE  /\ dsOdd = {} /\ BrowserRecorded
         /\ dsStage[c] = "idle" /\ dsStage'[c] = stage
         /\ \A d \in Clients : d = c \/ dsStage'[d] = "idle"
<1>1. \A d \in Clients : DsIdle(d)
  BY DEF Begins
<1>2. dsOdd = {}
  BY DEF Begins
<1>3. dsStage' = [dsStage EXCEPT ![c] = stage] /\ dsStage \in [Clients -> DsStages]
  BY DEF Begins, DsInv, DsTyped
<1>4. QED
  BY <1>1, <1>2, <1>3 DEF DsInv, NothingOdd, DsIdle

\* While a client is at work, the others are idle.
LEMMA OthersAreIdle ==
  ASSUME NEW c \in Clients, DsInv, dsOdd = {}, dsStage[c] # "idle",
         \/ \E from, to \in DsStages : Moves(c, from, to)
         \/ Ends(c)
  PROVE  /\ ClientKnows(c)
         /\ \A d \in Clients : d = c \/ dsStage'[d] = "idle"
<1>1. \A d \in Clients : d = c \/ dsStage[d] = "idle"
  BY DEF DsInv, NothingOdd, OneAtWork, DsIdle
<1>2. \A d \in Clients : d # c => dsStage'[d] = dsStage[d]
  BY DEF DsInv, DsTyped, Moves, Ends
<1>3. QED
  BY <1>1, <1>2 DEF DsInv, NothingOdd

\* No browser has the number that stands for none.
LEMMA NumbersAreKnown ==
  ASSUME DsTyped
  PROVE  0 \notin dsRunning /\ NoRecord.endpoint = 0 /\ NoRecord.process = 0
         /\ TornRecord.endpoint = 0 /\ TornRecord.process = 0 /\ NoRecord # TornRecord
BY DEF DsTyped, DsTypeOK, NoRecord, TornRecord, SessionRecord

\* A command that starts a browser knows it until it has recorded it.
LEMMA StartKeepsRecord ==
  ASSUME NEW c \in Clients, DsInv, DsTyped', dsOdd' = {},
         \/ DsStart(c) \/ DsLaunches(c) \/ DsReadsPort(c) \/ DsConnects(c) \/ DsRecords(c)
         \/ DsStartFails(c)
  PROVE  DsInv'
<1> USE NumbersAreKnown
<1>1. DsTyped /\ dsStage \in [Clients -> DsStages]
      /\ dsWork \in [Clients -> [child : Known, endpoint : Known, process : Known]]
  BY DEF DsInv, DsTyped
<1>2. CASE DsStart(c)
  <2>1. /\ Begins(c, "launch") /\ dsRecord = NoRecord
        /\ UNCHANGED <<dsRunning, dsRecord, dsWork>>
    BY <1>2 DEF DsStart
  <2>2. /\ dsOdd = {} /\ BrowserRecorded /\ dsStage[c] = "idle" /\ dsStage'[c] = "launch"
        /\ \A d \in Clients : d = c \/ dsStage'[d] = "idle"
    BY <2>1, CommandBeginsAlone
  <2>3. dsWork[c] = NoWork
    BY <1>1, <2>2 DEF DsTyped, DsTypeOK, DsIdle
  <2>4. dsRunning = {}
    BY <1>1, <2>1, <2>2 DEF BrowserRecorded
  <2>5. ClientKnows(c)'
    BY <2>1, <2>2, <2>3, <2>4 DEF ClientKnows, NoWork
  <2>6. QED
    BY <2>2, <2>5, OneClientSteps
<1>3. CASE DsLaunches(c)
  <2>1. /\ Moves(c, "launch", "port") /\ dsRecord' = dsRecord /\ dsOdd' = dsOdd
        /\ dsRunning' = dsRunning \cup {dsSpawned'}
        /\ dsWork' = [dsWork EXCEPT ![c].child = dsSpawned']
    BY <1>3 DEF DsLaunches
  <2>2. dsStage[c] = "launch" /\ dsStage'[c] = "port"
    BY <1>1, <2>1 DEF Moves
  <2>3. ClientKnows(c) /\ \A d \in Clients : d = c \/ dsStage'[d] = "idle"
    BY <2>1, <2>2, OthersAreIdle DEF DsStages
  <2>4. dsRecord = NoRecord /\ dsRunning = {}
    BY <1>1, <2>2, <2>3 DEF ClientKnows
  <2>5. dsWork'[c].child = dsSpawned'
    BY <1>1, <2>1
  <2>6. ClientKnows(c)'
    BY <2>1, <2>2, <2>4, <2>5 DEF ClientKnows
  <2>7. QED
    BY <2>2, <2>3, <2>6, OneClientSteps
<1>4. CASE DsReadsPort(c)
  <2>1. /\ Moves(c, "port", "connect") /\ UNCHANGED <<dsRunning, dsRecord, dsOdd>>
        /\ dsWork' = [dsWork EXCEPT ![c].endpoint = dsPort]
    BY <1>4 DEF DsReadsPort
  <2>2. dsStage[c] = "port" /\ dsStage'[c] = "connect" /\ dsWork'[c].child = dsWork[c].child
    BY <1>1, <2>1 DEF Moves
  <2>3. ClientKnows(c) /\ \A d \in Clients : d = c \/ dsStage'[d] = "idle"
    BY <2>1, <2>2, OthersAreIdle DEF DsStages
  <2>4. ClientKnows(c)'
    BY <2>1, <2>2, <2>3 DEF ClientKnows
  <2>5. QED
    BY <2>2, <2>3, <2>4, OneClientSteps
<1>5. CASE DsConnects(c)
  <2>1. /\ Moves(c, "connect", "record") /\ UNCHANGED <<dsRunning, dsRecord, dsOdd, dsWork>>
        /\ dsWork[c].endpoint \in dsRunning
    BY <1>5 DEF DsConnects, Listening
  <2>2. dsStage[c] = "connect" /\ dsStage'[c] = "record"
    BY <1>1, <2>1 DEF Moves
  <2>3. ClientKnows(c) /\ \A d \in Clients : d = c \/ dsStage'[d] = "idle"
    BY <2>1, <2>2, OthersAreIdle DEF DsStages
  <2>4. ClientKnows(c)'
    BY <2>1, <2>2, <2>3 DEF ClientKnows
  <2>5. QED
    BY <2>2, <2>3, <2>4, OneClientSteps
<1>6. CASE DsRecords(c)
  <2>1. /\ dsStage[c] = "record" /\ Ends(c) /\ UNCHANGED <<dsRunning, dsOdd>>
        /\ dsRecord' = SessionRecord("whole", dsWork[c].endpoint, dsWork[c].child)
    BY <1>6 DEF DsRecords
  <2>2. dsStage'[c] = "idle"
    BY <1>1, <2>1 DEF Ends
  <2>3. ClientKnows(c) /\ \A d \in Clients : d = c \/ dsStage'[d] = "idle"
    BY <2>1, OthersAreIdle
  <2>4. ClientKnows(c)' /\ BrowserRecorded'
    BY <2>1, <2>2, <2>3 DEF ClientKnows, BrowserRecorded, SessionRecord
  <2>5. QED
    BY <2>3, <2>4, OneClientSteps
<1>7. CASE DsStartFails(c)
  <2>1. /\ dsStage[c] \in {"launch", "port", "connect", "record"} /\ Ends(c) /\ MayTear(c)
        /\ dsRunning' = dsRunning \ {dsWork[c].child} /\ dsOdd' = dsOdd
    BY <1>7 DEF DsStartFails
  <2>2. dsStage'[c] = "idle"
    BY <1>1, <2>1 DEF Ends
  <2>3. ClientKnows(c) /\ \A d \in Clients : d = c \/ dsStage'[d] = "idle"
    BY <2>1, OthersAreIdle
  <2>4. dsRunning' = {} /\ dsRecord' \in {NoRecord, TornRecord}
    BY <2>1, <2>3 DEF ClientKnows, MayTear
  <2>5. ClientKnows(c)' /\ BrowserRecorded'
    BY <1>1, <2>2, <2>4 DEF ClientKnows, BrowserRecorded
  <2>6. QED
    BY <2>3, <2>5, OneClientSteps
<1>8. QED
  BY <1>2, <1>3, <1>4, <1>5, <1>6, <1>7

\* A command that stops a browser knows it until its record is removed.
LEMMA StopKeepsRecord ==
  ASSUME NEW c \in Clients, DsInv, DsTyped', dsOdd' = {},
         DsStop(c) \/ DsCleanup(c) \/ DsCloses(c) \/ DsWaits(c) \/ DsRemoves(c)
  PROVE  DsInv'
<1>1. DsTyped /\ dsStage \in [Clients -> DsStages]
      /\ dsWork \in [Clients -> [child : Known, endpoint : Known, process : Known]]
  BY DEF DsInv, DsTyped
<1>2. CASE DsStop(c) \/ DsCleanup(c)
  <2>1. PICK stage \in {"close", "remove"} :
           /\ Stopping(c, stage)
           /\ stage = "remove" => dsRecord.process \notin dsRunning
    BY <1>2 DEF DsStop, DsCleanup
  <2>2. /\ Begins(c, stage) /\ UNCHANGED <<dsRunning, dsRecord>>
        /\ dsWork' = [dsWork EXCEPT ![c].endpoint = dsRecord.endpoint, ![c].process = dsRecord.process]
    BY <2>1 DEF Stopping
  <2>3. /\ BrowserRecorded /\ dsStage[c] = "idle" /\ dsStage'[c] = stage
        /\ \A d \in Clients : d = c \/ dsStage'[d] = "idle"
    BY <2>2, CommandBeginsAlone
  <2>4. dsWork'[c].endpoint = dsRecord.endpoint /\ dsWork'[c].process = dsRecord.process
    BY <1>1, <2>2
  <2>5. ClientKnows(c)'
    BY <2>1, <2>2, <2>3, <2>4 DEF ClientKnows, BrowserRecorded
  <2>6. QED
    BY <2>3, <2>5, OneClientSteps
<1>3. CASE DsCloses(c)
  <2>1. /\ Moves(c, "close", "wait") /\ dsRunning' \subseteq dsRunning
        /\ UNCHANGED <<dsRecord, dsOdd, dsWork>>
    BY <1>3 DEF DsCloses
  <2>2. dsStage[c] = "close" /\ dsStage'[c] = "wait"
    BY <1>1, <2>1 DEF Moves
  <2>3. ClientKnows(c) /\ \A d \in Clients : d = c \/ dsStage'[d] = "idle"
    BY <2>1, <2>2, OthersAreIdle DEF DsStages
  <2>4. ClientKnows(c)'
    BY <2>1, <2>2, <2>3 DEF ClientKnows
  <2>5. QED
    BY <2>2, <2>3, <2>4, OneClientSteps
<1>4. CASE DsWaits(c)
  <2>1. /\ Moves(c, "wait", "remove") /\ dsWork[c].process \notin dsRunning /\ dsOdd = {}
        /\ UNCHANGED <<dsRunning, dsRecord, dsWork>>
    BY <1>4 DEF DsWaits
  <2>2. dsStage[c] = "wait" /\ dsStage'[c] = "remove"
    BY <1>1, <2>1 DEF Moves
  <2>3. ClientKnows(c) /\ \A d \in Clients : d = c \/ dsStage'[d] = "idle"
    BY <2>1, <2>2, OthersAreIdle DEF DsStages
  <2>4. ClientKnows(c)'
    BY <2>1, <2>2, <2>3 DEF ClientKnows
  <2>5. QED
    BY <2>2, <2>3, <2>4, OneClientSteps
<1>5. CASE DsRemoves(c)
  <2>1. dsStage[c] = "remove" /\ Ends(c) /\ UNCHANGED <<dsRunning, dsOdd>> /\ dsRecord' = NoRecord
    BY <1>5 DEF DsRemoves
  <2>2. dsStage'[c] = "idle"
    BY <1>1, <2>1 DEF Ends
  <2>3. ClientKnows(c) /\ \A d \in Clients : d = c \/ dsStage'[d] = "idle"
    BY <2>1, OthersAreIdle
  <2>4. ClientKnows(c)' /\ BrowserRecorded'
    BY <2>1, <2>2, <2>3 DEF ClientKnows, BrowserRecorded, NoRecord, SessionRecord
  <2>5. QED
    BY <2>3, <2>4, OneClientSteps
<1>6. QED
  BY <1>2, <1>3, <1>4, <1>5

\* Browsers that exit, and what the daemon remembers, leave the rest as it is.
LEMMA LessRunningKeepsRecord ==
  ASSUME DsInv, DsTyped', dsRunning' \subseteq dsRunning,
         UNCHANGED <<dsRecord, dsStage, dsWork, dsOdd>>
  PROVE  DsInv'
<1>1. ASSUME NEW c \in Clients, ClientKnows(c)
      PROVE  ClientKnows(c)'
  BY <1>1 DEF ClientKnows
<1>2. OneAtWork => OneAtWork'
  BY DEF OneAtWork, DsIdle
<1>3. BrowserRecorded => BrowserRecorded'
  BY DEF BrowserRecorded
<1>4. QED
  BY <1>1, <1>2, <1>3 DEF DsInv, NothingOdd, DsIdle

\* The daemon's own steps change no record.
LEMMA DaemonKeepsRecord ==
  ASSUME DsInv, DsTyped', dsOdd' = {}, DsStopFindsNoRecord \/ DsReconnects
  PROVE  DsInv'
<1>1. /\ Daemon \in Clients /\ Begins(Daemon, "idle") /\ UNCHANGED <<dsRunning, dsRecord, dsWork>>
  BY DEF DsStopFindsNoRecord, DsReconnects, Clients
<1>2. /\ BrowserRecorded /\ dsStage'[Daemon] = "idle"
      /\ \A d \in Clients : d = Daemon \/ dsStage'[d] = "idle"
  BY <1>1, CommandBeginsAlone
<1>3. ClientKnows(Daemon)' /\ BrowserRecorded'
  BY <1>1, <1>2 DEF ClientKnows, BrowserRecorded
<1>4. QED
  BY <1>1, <1>2, <1>3, OneClientSteps

\* Every step keeps the invariant, odd ones because they are remembered.
LEMMA SessionStepKeepsInv == DsInv /\ [DsNext]_dsVars => DsInv'
<1> SUFFICES ASSUME DsInv, [DsNext]_dsVars PROVE DsInv'
  OBVIOUS
<1>1. DsTyped'
  BY SessionStepIsTyped DEF DsInv
<1>2. CASE dsOdd' # {}
  BY <1>1, <1>2 DEF DsInv, NothingOdd
<1>3. CASE dsOdd' = {}
  <2>1. ASSUME NEW c \in Clients, DsDies(c)
        PROVE  FALSE
    BY <1>3, <2>1 DEF DsDies
  <2>2. CASE DsDaemonRestarts \/ \E b \in 1..MaxBrowsers : ChromeBoots(b) \/ ChromeExits(b)
    BY <1>1, <2>2, LessRunningKeepsRecord DEF DsDaemonRestarts, ChromeBoots, ChromeExits
  <2>3. CASE UNCHANGED dsVars
    BY <1>1, <2>3, LessRunningKeepsRecord DEF dsVars
  <2>4. QED
    BY <1>1, <1>3, <2>1, <2>2, <2>3, StartKeepsRecord, StopKeepsRecord, DaemonKeepsRecord DEF DsNext
<1>4. QED
  BY <1>2, <1>3

\* Before the first command no browser runs.
LEMMA SessionInitInv == DsInit => DsInv
<1> SUFFICES ASSUME DsInit PROVE DsInv
  OBVIOUS
<1>1. DsTyped
  BY DEF DsInit, DsTyped, DsTypeOK, DsStages, Known, NoWork, NoRecord, SessionRecord, DsIdle
<1>2. \A c \in Clients : DsIdle(c) /\ ClientKnows(c)
  BY DEF DsInit, DsIdle, ClientKnows
<1>3. BrowserRecorded
  BY DEF DsInit, BrowserRecorded, NoRecord, SessionRecord
<1>4. QED
  BY <1>1, <1>2, <1>3 DEF DsInv, NothingOdd, OneAtWork

-----------------------------------------------------------------------------
(* DaemonSessions: the theorems *)

\* The inductive invariant holds in every state.
THEOREM SessionInvHolds == DsSpec => []DsInv
BY SessionInitInv, SessionStepKeepsInv, PTL DEF DsSpec

\* Between commands, a browser that runs is the recorded one: no failed start,
\* crash of Chrome or stale port file leaves one that nobody finds again.
THEOREM BrowsersAreRecorded == DsSpec => []RunningBrowsersAreRecorded
<1>1. DsInv => RunningBrowsersAreRecorded
  BY DEF DsInv, NothingOdd, BrowserRecorded, RunningBrowsersAreRecorded
<1>2. QED
  BY <1>1, SessionInvHolds, PTL

-----------------------------------------------------------------------------
(* The type invariants *)

\* The variables of the downloads keep their types.
THEOREM DownloadsAreTyped == DlSpec => []DlTypeOK
<1>1. DlInv => DlTypeOK
  <2> SUFFICES ASSUME DlInv, NEW a \in DlActors PROVE dlWork[a].stage \in DlStages
    BY DEF DlInv, DlTyped, DlTypeOK, DlStages
  <2>1. dlWork[a] \in Works
    BY DEF DlInv, DlTyped
  <2>2. QED
    BY <2>1 DEF Works
<1>2. QED
  BY <1>1, DownloadInvHolds, PTL

\* The variables of the daemon's sessions keep their types: no number of a
\* browser is met that none was launched with.
THEOREM SessionsAreTyped == DsSpec => []DsTypeOK
<1>1. DsInv => DsTypeOK
  BY DEF DsInv, DsTyped
<1>2. QED
  BY <1>1, SessionInvHolds, PTL

\* What is in the directory is one of the kinds of files that are made, and every
\* writer makes one that was asked for.
MadeKinds == {"pdf", "png", "trace", "gif", "mp4"}
ArBounds ==
  /\ arAsked \in 0..MaxArtifacts
  /\ \A w \in Writers :
       /\ arMakes[w] \in 0..arAsked
       /\ arStage[w] # "idle" => arName[w].kind \in MadeKinds
  /\ \A n \in DOMAIN arDisk : n.kind \in MadeKinds \cup {"tmp"}

\* Every step of the writers stays within these bounds.
LEMMA ArBoundsStep ==
  ASSUME ArInv, ArBounds, [ArNext]_arVars
  PROVE  ArBounds'
<1>1. /\ arStage \in [Writers -> ArStages] /\ arName \in [Writers -> ArNames]
      /\ arMakes \in [Writers -> Nat] /\ MaxArtifacts \in Nat
  BY ArtifactsAssumption DEF ArInv, ArTyped
<1>2. CASE UNCHANGED arVars
  BY <1>2 DEF arVars, ArBounds
<1>3. \A kind, try : Name(kind, try).kind = kind
  BY DEF Name
<1>4. ASSUME NEW w \in Writers, NEW kind \in MadeKinds, NEW stage, Asks(w, kind, stage)
      PROVE  ArBounds'
  <2>1. /\ arAsked < MaxArtifacts /\ arAsked' = arAsked + 1 /\ arDisk' = arDisk
        /\ arMakes' = [arMakes EXCEPT ![w] = arAsked + 1] /\ arStage' = [arStage EXCEPT ![w] = stage]
        /\ arName' = [arName EXCEPT ![w] = Name(kind, 0)]
    BY <1>4 DEF Asks, ArGoes
  <2>2. arAsked' \in 0..MaxArtifacts /\ \A n \in 0..arAsked : n \in 0..arAsked'
        /\ arAsked + 1 \in 0..arAsked'
    BY <1>1, <2>1 DEF ArBounds
  <2>3. QED
    BY <1>1, <1>3, <2>1, <2>2 DEF ArBounds
<1>5. ASSUME NEW w \in Writers
      PROVE  /\ arName[w].kind \in MadeKinds => Target(w).kind \in MadeKinds \cup {"tmp"}
             /\ arName[w].kind \in MadeKinds => Written(w).kind \in MadeKinds \cup {"tmp"}
  BY <1>3 DEF Target, Beside, Written
<1>6. ASSUME NEW w \in Writers, NEW stage, arStage' = [arStage EXCEPT ![w] = stage],
             stage = "idle" \/ arName'[w].kind \in MadeKinds,
             \A v \in Writers \ {w} : arName'[v] = arName[v],
             UNCHANGED <<arMakes, arAsked>>,
             \A n \in DOMAIN arDisk' : n \in DOMAIN arDisk \/ n.kind \in MadeKinds \cup {"tmp"}
      PROVE  ArBounds'
  BY <1>1, <1>6 DEF ArBounds
<1>7. ASSUME NEW w \in Writers, ArCaptures(w) \/ ArFails(w) \/ ArRenames(w) \/ ArEncoderFails(w)
      PROVE  ArBounds'
  <2>1. CASE ArCaptures(w)
    BY <1>6, <2>1 DEF ArCaptures, ArGoes, ArBounds
  <2>2. CASE ArFails(w)
    BY <1>6, <2>2 DEF ArFails
  <2>3. CASE ArRenames(w)
    BY <1>6, <2>3 DEF ArRenames, Reports, ArBounds
  <2>4. CASE ArEncoderFails(w)
    <3>1. /\ arName' = [arName EXCEPT ![w] = Name("gif", 0)]
          /\ arStage' = [arStage EXCEPT ![w] = "choose"]
          /\ UNCHANGED <<arMakes, arAsked>> /\ \A n \in DOMAIN arDisk' : n \in DOMAIN arDisk
      BY <2>4 DEF ArEncoderFails
    <3>2. arName'[w].kind \in MadeKinds /\ \A v \in Writers \ {w} : arName'[v] = arName[v]
      BY <1>1, <1>3, <3>1 DEF MadeKinds
    <3>3. QED
      BY <1>6, <3>1, <3>2
  <2>5. QED
    BY <1>7, <2>1, <2>2, <2>3, <2>4
<1>8. ASSUME NEW w \in Writers, ArChooses(w)
      PROVE  ArBounds'
  <2>1. PICK n \in 0..(LastTry + MaxArtifacts) : arName' = [arName EXCEPT ![w] = Name(arName[w].kind, n)]
    BY <1>8 DEF ArChooses, TakesName
  <2>2. /\ arStage[w] = "choose" /\ arStage' = [arStage EXCEPT ![w] = "open"]
        /\ UNCHANGED <<arDisk, arMakes, arAsked>>
    BY <1>8 DEF ArChooses, ArGoes
  <2>3. arName'[w].kind \in MadeKinds /\ \A v \in Writers \ {w} : arName'[v] = arName[v]
    BY <1>1, <1>3, <2>1, <2>2 DEF ArBounds
  <2>4. QED
    BY <1>6, <2>2, <2>3
<1>9. ASSUME NEW w \in Writers, ArOpens(w)
      PROVE  ArBounds'
  <2>1. /\ arStage[w] = "open" /\ arStage' = [arStage EXCEPT ![w] = "write"]
        /\ DOMAIN arDisk' = DOMAIN arDisk \cup {Target(w)} /\ UNCHANGED <<arName, arMakes, arAsked>>
    BY <1>9 DEF ArOpens, ArGoes, PutIn
  <2>2. arName[w].kind \in MadeKinds
    BY <2>1 DEF ArBounds
  <2>3. QED
    BY <1>5, <1>6, <2>1, <2>2
<1>10. ASSUME NEW w \in Writers, ArWrites(w)
       PROVE  ArBounds'
  <2>1. /\ arStage[w] = "write"
        /\ \E stage \in {"idle", "rename"} : arStage' = [arStage EXCEPT ![w] = stage]
        /\ DOMAIN arDisk' = DOMAIN arDisk \cup {Written(w)} /\ UNCHANGED <<arName, arMakes, arAsked>>
    BY <1>10 DEF ArWrites, ArGoes, Reports, PutIn
  <2>2. arName[w].kind \in MadeKinds
    BY <2>1 DEF ArBounds
  <2>3. QED
    BY <1>5, <1>6, <2>1, <2>2
<1>11. ASSUME NEW w \in Writers, ArSavesPdf(w) \/ ArTakesScreenshot(w) \/ ArWritesTrace(w) \/ ArWritesVideo(w)
       PROVE  ArBounds'
  BY <1>4, <1>11 DEF ArSavesPdf, ArTakesScreenshot, ArWritesTrace, ArWritesVideo, MadeKinds
<1>12. QED
  BY <1>2, <1>7, <1>8, <1>9, <1>10, <1>11 DEF ArNext

\* The variables of the writers keep their types: only files of the kinds that
\* are made, and traces not renamed yet, are left in the directory.
THEOREM ArtifactsAreTyped == ArSpec => []ArTypeOK
<1>1. ArInit => ArBounds
  BY ArtifactsAssumption DEF ArInit, ArBounds
<1>2. ArSpec => []ArBounds
  BY <1>1, ArBoundsStep, ArtifactInvHolds, PTL DEF ArSpec
<1>3. ArBounds => ArTypeOK
  BY DEF ArBounds, ArTypeOK, MadeKinds
<1>4. QED
  BY <1>2, <1>3, PTL
=============================================================================
