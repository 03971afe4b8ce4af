------------------------------ MODULE Artifacts ------------------------------
(***************************************************************************)
(* The files sessions and executors leave in a directory they may share:   *)
(* PDFs and screenshots of save_as_pdf and screenshot, the trace and the   *)
(* video written when a browser is closed.  A name is looked for first and *)
(* the file made later, and nothing is locked; a trace is written beside   *)
(* its name and renamed, everything else in place; an encoder that fails   *)
(* gives way to a GIF.  The caller is told the name.                       *)
(***************************************************************************)
EXTENDS Naturals

CONSTANTS
  Writers,        \* sessions and executors at work in one directory
  LastTry,        \* the try whose name is taken unseen: 1000
  MaxArtifacts    \* bound: files asked for

ASSUME ArtifactsAssumption == LastTry \in Nat \ {0} /\ MaxArtifacts \in Nat

VARIABLES
  arDisk,      \* the directory: name -> which artifact it holds, and whether whole
  arStage,     \* writer -> what it does next
  arName,      \* writer -> the name it goes by
  arMakes,     \* writer -> the artifact it makes
  arReported,  \* names callers were told, and for which artifact
  arShared,    \* names two writers went by at a time, or taken unseen
  arAsked

arVars == <<arDisk, arStage, arName, arMakes, arReported, arShared, arAsked>>

\* A name is the kind of file and the number of the try it was found at.
Name(kind, try) == [kind |-> kind, try |-> try]
Beside(name) == Name("tmp", name.try)
ArContent(artifact, whole) == [of |-> artifact, whole |-> whole]
PutIn(disk, name, content) ==
  [n \in DOMAIN disk \cup {name} |-> IF n = name THEN content ELSE disk[n]]

ArInit ==
  /\ arDisk = <<>> /\ arReported = {} /\ arShared = {} /\ arAsked = 0
  /\ arStage = [w \in Writers |-> "idle"]
  /\ arName = [w \in Writers |-> Name("none", 0)]
  /\ arMakes = [w \in Writers |-> 0]

ArGoes(w, from, to) == arStage[w] = from /\ arStage' = [arStage EXCEPT ![w] = to]

-----------------------------------------------------------------------------
Asks(w, kind, stage) ==
  /\ ArGoes(w, "idle", stage) /\ arAsked < MaxArtifacts
  /\ arAsked' = arAsked + 1
  /\ arMakes' = [arMakes EXCEPT ![w] = arAsked']
  /\ arName' = [arName EXCEPT ![w] = Name(kind, 0)]
  /\ UNCHANGED <<arDisk, arReported, arShared>>

ArSavesPdf(w) == Asks(w, "pdf", "capture")
ArTakesScreenshot(w) == Asks(w, "png", "capture")
ArWritesTrace(w) == Asks(w, "trace", "choose")
ArWritesVideo(w) == \E format \in {"gif", "mp4"} : Asks(w, format, "choose")

\* Page.printToPDF, Page.captureScreenshot of the current page.
ArCaptures(w) ==
  /\ ArGoes(w, "capture", "choose")
  /\ UNCHANGED <<arDisk, arName, arMakes, arReported, arShared, arAsked>>

Taken(kind, n) == Name(kind, n) \in DOMAIN arDisk

\* A slip: the first name is taken, there or not.
TryFault(kind, n) == n = 0

\* The try whose name is taken.  A screenshot has the name it was asked for;
\* next_available_pdf_path: "page.pdf", "page (1).pdf" and so on; and
\* unique_artifact_path: after so many names that are taken, one more.
Try(kind, n) ==
  IF kind = "png" THEN n = 0
  ELSE /\ \A j \in 0..n : j < n => Taken(kind, j)
       /\ ~Taken(kind, n) \/ (kind # "pdf" /\ n = LastTry)
       /\ kind # "pdf" => n <= LastTry

\* A screenshot that was there is given up, with what was reported of it; any
\* other name that somebody goes by already, or that holds a file, is shared.
TakesName(w, name) ==
  /\ arName' = [arName EXCEPT ![w] = name]
  /\ arReported' = {r \in arReported : ~(name.kind = "png" /\ r.name = name)}
  /\ arShared' = arShared \cup
       (IF \/ \E v \in Writers \ {w} : arStage[v] \in {"open", "write", "rename"} /\ arName[v] = name
           \/ name \in DOMAIN arDisk /\ name.kind \notin {"png", "pdf"} /\ name.try = LastTry
        THEN {name} ELSE {})
ArChooses(w) ==
  /\ ArGoes(w, "choose", "open")
  /\ \E n \in 0..(LastTry + MaxArtifacts) :
        Try(arName[w].kind, n) /\ TakesName(w, Name(arName[w].kind, n))
  /\ UNCHANGED <<arDisk, arMakes, arAsked>>

-----------------------------------------------------------------------------
Target(w) == IF arName[w].kind = "trace" THEN Beside(arName[w]) ELSE arName[w]

\* The file is made, or emptied, and what is in it is not the artifact yet.
ArOpens(w) ==
  /\ ArGoes(w, "open", "write")
  /\ arDisk' = PutIn(arDisk, Target(w), ArContent(arMakes[w], FALSE))
  /\ UNCHANGED <<arName, arMakes, arReported, arShared, arAsked>>

Reports(w) ==
  /\ arStage' = [arStage EXCEPT ![w] = "idle"]
  /\ arReported' = arReported \cup {[name |-> arName[w], of |-> arMakes[w]]}

\* An open file that was renamed meanwhile is the one of the new name.
Written(w) == IF Target(w) \in DOMAIN arDisk THEN Target(w) ELSE arName[w]
ArWrites(w) ==
  /\ arStage[w] = "write"
  /\ arDisk' = PutIn(arDisk, Written(w), ArContent(arMakes[w], TRUE))
  /\ IF arName[w].kind = "trace"
     THEN ArGoes(w, "write", "rename") /\ UNCHANGED arReported
     ELSE Reports(w)
  /\ UNCHANGED <<arName, arMakes, arShared, arAsked>>

ArRenames(w) ==
  /\ arStage[w] = "rename" /\ Beside(arName[w]) \in DOMAIN arDisk
  /\ arDisk' = [n \in (DOMAIN arDisk \cup {arName[w]}) \ {Beside(arName[w])} |->
                  IF n = arName[w] THEN arDisk[Beside(n)] ELSE arDisk[n]]
  /\ Reports(w)
  /\ UNCHANGED <<arName, arMakes, arShared, arAsked>>

\* The video encoder fails or is not there: what it left is removed.
ArEncoderFails(w) ==
  /\ arStage[w] \in {"open", "write"} /\ arName[w].kind = "mp4"
  /\ arStage' = [arStage EXCEPT ![w] = "choose"]
  /\ arDisk' = [n \in DOMAIN arDisk \ {arName[w]} |-> arDisk[n]]
  /\ arName' = [arName EXCEPT ![w] = Name("gif", 0)]
  /\ UNCHANGED <<arMakes, arReported, arShared, arAsked>>

\* A step fails, the action times out, or the process ends: what is on disk
\* stays as it is.
ArFails(w) ==
  /\ arStage[w] # "idle" /\ arStage' = [arStage EXCEPT ![w] = "idle"]
  /\ UNCHANGED <<arDisk, arName, arMakes, arReported, arShared, arAsked>>

ArNext ==
  \E w \in Writers :
    \/ ArSavesPdf(w) \/ ArTakesScreenshot(w) \/ ArWritesTrace(w) \/ ArWritesVideo(w)
    \/ ArCaptures(w) \/ ArChooses(w) \/ ArOpens(w) \/ ArWrites(w) \/ ArRenames(w)
    \/ ArEncoderFails(w) \/ ArFails(w)

-----------------------------------------------------------------------------
ArTypeOK ==
  /\ arAsked \in 0..MaxArtifacts
  /\ \A w \in Writers : arMakes[w] \in 0..arAsked
  /\ \A n \in DOMAIN arDisk : n.kind \in {"pdf", "png", "trace", "tmp", "gif", "mp4"}

\* A file whose name a caller was told holds, whole, the artifact it was told
\* of, whatever is written to the directory later and whatever fails or ends in
\* the middle; and a trace under its own name is never a torn one; unless two
\* writers went by the same name at a time or the tries ran out.
ReportedFilesHold ==
  /\ \A r \in arReported : r.name \notin arShared =>
       r.name \in DOMAIN arDisk /\ arDisk[r.name] = ArContent(r.of, TRUE)
  /\ \A n \in DOMAIN arDisk : n.kind = "trace" /\ n \notin arShared => arDisk[n].whole
=============================================================================
