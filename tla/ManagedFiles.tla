---------------------------- MODULE ManagedFiles ----------------------------
(***************************************************************************)
(* The agent's managed files.  Every file is kept in memory, which read,   *)
(* append and replace go by, and in the data directory, which uploads and  *)
(* attachments go by; the disk is written first.  Absolute paths go past   *)
(* the memory.  A checkpoint keeps the memory, and a restart writes it     *)
(* into an empty directory.                                                *)
(***************************************************************************)
EXTENDS Naturals, Sequences, SequencesExt, FiniteSets, TLC

CONSTANTS
  WriteNames,    \* the names the model uses that write_file supports
  TextNames,     \* those replace_file supports: no PDF, no DOCX
  Texts,         \* pieces of content
  MaxPieces,     \* bound: pieces of a file
  MaxFileSteps   \* bound: operations

ExtractName(i) == "extracted_content_" \o ToString(i) \o ".md"

ASSUME ManagedFilesAssumption ==
  /\ TextNames \subseteq WriteNames /\ "torn" \notin Texts
  /\ "todo.md" \in TextNames /\ MaxPieces \in Nat \ {0} /\ MaxFileSteps \in Nat
  /\ \A i, j \in 0..MaxFileSteps : ExtractName(i) = ExtractName(j) => i = j

VARIABLES
  mfFiles,      \* ManagedFileSystem.files: name -> content
  mfDisk,       \* the data directory: name -> content
  mfCount,      \* extracted_content_count
  mfSaved,      \* the file system state of the last checkpoint
  mfTouched,    \* names a failed write or an absolute path touched
  mfExtracts,   \* the extracts the model was given a name for
  mfSent,       \* the last upload: its content, memory's, and whether touched
  mfSteps

mfVars == <<mfFiles, mfDisk, mfCount, mfSaved, mfTouched, mfExtracts, mfSent, mfSteps>>

NothingSent == [disk |-> <<>>, memory |-> <<>>, touched |-> FALSE]
Torn == <<"torn">>
Without(f, n) == [k \in DOMAIN f \ {n} |-> f[k]]
With(f, n, content) == [k \in DOMAIN f \cup {n} |-> IF k = n THEN content ELSE f[k]]
ValidName(n) == n \in WriteNames \/ \E i \in 0..mfSaved.count : n = ExtractName(i)
Replaced(content, old, new) == [i \in DOMAIN content |-> IF content[i] = old THEN new ELSE content[i]]

\* new: an empty data directory with an empty todo.md.
MfInit ==
  /\ mfFiles = With(<<>>, "todo.md", <<>>) /\ mfDisk = mfFiles /\ mfCount = 0
  /\ mfSaved = [files |-> mfFiles, count |-> 0, extracts |-> {}]
  /\ mfTouched = {} /\ mfExtracts = {} /\ mfSent = NothingSent /\ mfSteps = 0

Step == mfSteps < MaxFileSteps /\ mfSteps' = mfSteps + 1

\* write_stored_file: a failed write leaves the memory, and the file anyhow.
Stores(n, content) ==
  \/ /\ mfDisk' = With(mfDisk, n, content)
     /\ mfFiles' = With(mfFiles, n, content)
     /\ mfTouched' = mfTouched \ {n}
  \/ /\ mfDisk' \in {mfDisk, With(mfDisk, n, Torn)}
     /\ mfTouched' = mfTouched \cup {n}
     /\ UNCHANGED mfFiles
Stored(n, content) == n \notin mfTouched' /\ n \in DOMAIN mfFiles' /\ mfFiles'[n] = content

\* A write by name ends what an extract of that name promised.
Overwrites(n, content) ==
  /\ Stores(n, content)
  /\ mfExtracts' = IF mfFiles' = mfFiles THEN mfExtracts
                   ELSE {x \in mfExtracts : x.name # n}
  /\ UNCHANGED <<mfCount, mfSaved, mfSent>>

MfWrites ==
  /\ Step
  /\ \E n \in WriteNames, text \in Texts :
       \/ Overwrites(n, <<text>>)
       \/ /\ n \in DOMAIN mfFiles /\ Len(mfFiles[n]) < MaxPieces
          /\ Overwrites(n, Append(mfFiles[n], text))

MfReplaces ==
  /\ Step
  /\ \E n \in TextNames \cap DOMAIN mfFiles, old, new \in Texts :
       old # new /\ Contains(mfFiles[n], old) /\ Overwrites(n, Replaced(mfFiles[n], old, new))

\* A slip: the number of the next extract is left as it is.
CountAfterFault(stored) == mfCount
CountAfter(stored) == IF stored THEN mfCount + 1 ELSE mfCount

\* A long extract is saved under a name the model is told.
MfExtracts ==
  /\ Step
  /\ \E text \in Texts :
       LET n == ExtractName(mfCount) IN
         /\ Stores(n, <<text>>)
         /\ mfCount' = CountAfter(Stored(n, <<text>>))
         /\ mfExtracts' = mfExtracts \cup (IF Stored(n, <<text>>) THEN {[name |-> n, content |-> <<text>>]} ELSE {})
  /\ UNCHANGED <<mfSaved, mfSent>>

\* write_file and replace_file of an absolute path inside the data directory.
WritesPast(n, content) ==
  /\ mfDisk' \in {With(mfDisk, n, content), With(mfDisk, n, Torn)}
  /\ mfTouched' = mfTouched \cup {n}
  /\ UNCHANGED <<mfFiles, mfCount, mfSaved, mfExtracts, mfSent>>
MfWritesAbsolute ==
  /\ Step
  /\ \E n \in WriteNames, text \in Texts :
       \/ WritesPast(n, <<text>>)
       \/ n \in DOMAIN mfDisk /\ Len(mfDisk[n]) < MaxPieces /\ WritesPast(n, Append(mfDisk[n], text))
MfReplacesAbsolute ==
  /\ Step
  /\ \E n \in TextNames \cap DOMAIN mfDisk, old, new \in Texts :
       old # new /\ Contains(mfDisk[n], old) /\ WritesPast(n, Replaced(mfDisk[n], old, new))

\* nuke; when the directory cannot be removed, some of it may be gone.
MfNukes ==
  /\ Step
  /\ \/ mfDisk' = <<>> /\ mfFiles' = <<>> /\ mfTouched' = {} /\ mfExtracts' = {}
     \/ \E gone \in DOMAIN mfDisk :
          /\ mfDisk' = Without(mfDisk, gone) /\ mfTouched' = mfTouched \cup {gone}
          /\ UNCHANGED <<mfFiles, mfExtracts>>
  /\ UNCHANGED <<mfCount, mfSaved, mfSent>>

\* upload_file of a managed file: what is on disk, unless it is empty.
MfUploads ==
  /\ Step
  /\ \E n \in DOMAIN mfFiles \cap DOMAIN mfDisk :
       /\ mfDisk[n] # <<>>
       /\ mfSent' = [disk |-> mfDisk[n], memory |-> mfFiles[n], touched |-> n \in mfTouched]
  /\ UNCHANGED <<mfFiles, mfDisk, mfCount, mfSaved, mfTouched, mfExtracts>>

MfCheckpoints ==
  /\ Step
  /\ mfSaved' = [files |-> mfFiles, count |-> mfCount, extracts |-> mfExtracts]
  /\ UNCHANGED <<mfFiles, mfDisk, mfCount, mfTouched, mfExtracts, mfSent>>

\* from_state: names that are not valid any more are left out.
MfRestores ==
  /\ Step
  /\ mfFiles' = [n \in {k \in DOMAIN mfSaved.files : ValidName(k)} |-> mfSaved.files[n]]
  /\ mfDisk' = mfFiles' /\ mfTouched' = {}
  /\ mfCount' = mfSaved.count /\ mfExtracts' = mfSaved.extracts
  /\ UNCHANGED <<mfSaved, mfSent>>

MfNext ==
  \/ MfWrites \/ MfReplaces \/ MfExtracts \/ MfWritesAbsolute \/ MfReplacesAbsolute
  \/ MfNukes \/ MfUploads \/ MfCheckpoints \/ MfRestores

-----------------------------------------------------------------------------
MfTypeOK ==
  /\ mfCount \in Nat /\ mfSteps \in 0..MaxFileSteps
  /\ \A n \in DOMAIN mfFiles : Len(mfFiles[n]) <= MaxPieces /\ mfFiles[n] # Torn

\* Memory and disk hold the same files with the same content, except those a
\* failed write or an absolute path touched; and every extract the model was
\* given a name for is still under that name, until the model writes there;
\* an upload sends what reading the file shows.
ManagedFilesAgree ==
  /\ \A n \in (DOMAIN mfFiles \cup DOMAIN mfDisk) \ mfTouched :
       n \in DOMAIN mfFiles \cap DOMAIN mfDisk /\ mfFiles[n] = mfDisk[n]
  /\ \A x \in mfExtracts : x.name \in DOMAIN mfFiles /\ mfFiles[x.name] = x.content
  /\ mfSent.touched \/ mfSent.disk = mfSent.memory
=============================================================================
