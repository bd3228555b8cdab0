-------------------------- MODULE PreviewComparisons --------------------------
(***************************************************************************)
(* The attachments of one session: PreviewComparisonsService.create, the   *)
(* screenshots of SessionPromptService.createPrompt, and the files and     *)
(* rows of SessionAttachmentsService under both.  Several uploads are      *)
(* under way at once; storage and database fail separately.                *)
(***************************************************************************)
EXTENDS Naturals, Sequences, FiniteSets

CONSTANTS
  None,
  Captures,         \* uploads of a comparison's capture
  Prompts,          \* prompts with two screenshots
  Pages,            \* pages (with their viewport) a capture may be of
  Images,           \* dimensions a capture's image may have
  MaxComparisons,   \* MAX_PREVIEW_COMPARISONS
  MaxCaptures,      \* MAX_PREVIEW_COMPARISON_CAPTURES
  MaxDecoders,      \* maxActiveDecoders
  MaxFaults         \* bound: storage and database calls that fail

VARIABLES
  promptable,   \* the session accepts prompts and captures
  captures,     \* the capture events appended, in order
  upload,       \* per upload: where it is, and its input
  decoders,     \* activeDecoders
  objects,      \* files in the storage, as <<upload, number>>
  rows,         \* attachment rows
  mishaps,      \* uploads with a failure their own clean-up cannot undo
  failures

comparisonVars == <<promptable, captures, upload, decoders, objects, rows, mishaps, failures>>

Uploads == Captures \cup Prompts
FilesOf(u) == IF u \in Captures THEN {1} ELSE {1, 2}
Files(u) == {<<u, n>> : n \in FilesOf(u)}
Fresh == [at |-> "idle", of |-> None, page |-> None, image |-> None, file |-> 1]

Init ==
  /\ promptable = TRUE
  /\ captures = <<>>
  /\ upload = [u \in Uploads |-> Fresh]
  /\ decoders = 0
  /\ objects = {}
  /\ rows = {}
  /\ mishaps = {}
  /\ failures = 0

At(u, stage) == upload' = [upload EXCEPT ![u].at = stage]
Fail == failures < MaxFaults /\ failures' = failures + 1

\* The session starts or ends some work.
ChangeStatus ==
  /\ promptable' = ~promptable
  /\ UNCHANGED <<captures, upload, decoders, objects, rows, mishaps, failures>>
-----------------------------------------------------------------------------
(***************************************************************************)
(* assertCaptureAllowed.                                                   *)
(***************************************************************************)
Befores == {i \in DOMAIN captures : captures[i].of = captures[i].by}
BeforeOf(c) == CHOOSE i \in Befores : captures[i].by = c

\* sameContext, with the image's dimensions once they are known.
SameContext(u, image) ==
  LET before == captures[BeforeOf(upload[u].of)]
  IN  upload[u].page = before.page /\ (image = None \/ image = before.image)

\* An upload is the before capture of a comparison of its own, or the after of another.
CaptureAllowed(u, image) ==
  /\ promptable
  /\ Len(captures) < MaxCaptures
  /\ IF upload[u].of = u
       THEN Cardinality(Befores) < MaxComparisons
       ELSE /\ \E i \in Befores : captures[i].by = upload[u].of
            /\ SameContext(u, image)

\* The image's dimensions are known only in the transaction.
BeginCapture(u) ==
  /\ upload[u].at = "idle" /\ u \in Captures
  /\ \E of \in Captures, page \in Pages, image \in Images :
       upload' = [upload EXCEPT ![u] = [Fresh EXCEPT !.at = "checking", !.of = of, !.page = page, !.image = image]]
  /\ UNCHANGED <<promptable, captures, decoders, objects, rows, mishaps, failures>>

CheckCapture(u) ==
  /\ upload[u].at = "checking"
  /\ At(u, IF CaptureAllowed(u, None) THEN "decoding" ELSE "refused")
  /\ UNCHANGED <<promptable, captures, decoders, objects, rows, mishaps, failures>>

\* validatePreviewCapture: two images are decoded at a time, others are turned away.
BeginDecode(u) ==
  /\ upload[u].at = "decoding"
  /\ IF decoders >= MaxDecoders
       THEN At(u, "refused") /\ UNCHANGED decoders
       ELSE At(u, "decoded") /\ decoders' = decoders + 1
  /\ UNCHANGED <<promptable, captures, objects, rows, mishaps, failures>>

\* The image is valid or not; its decoder is free again.
EndDecode(u) ==
  /\ upload[u].at = "decoded"
  /\ At(u, "storing") \/ At(u, "refused")
  /\ decoders' = decoders - 1
  /\ UNCHANGED <<promptable, captures, objects, rows, mishaps, failures>>

\* createPrompt: the status, then the screenshots.
BeginPrompt(u) ==
  /\ upload[u].at = "idle" /\ u \in Prompts
  /\ At(u, IF promptable THEN "storing" ELSE "refused")
  /\ UNCHANGED <<promptable, captures, decoders, objects, rows, mishaps, failures>>
-----------------------------------------------------------------------------
(***************************************************************************)
(* SessionAttachmentsService.create: each file, then its row.              *)
(***************************************************************************)
File(u) == <<u, upload[u].file>>

Put(u) ==
  /\ upload[u].at = "storing"
  /\ objects' = objects \cup {File(u)}
  /\ At(u, "inserting")
  /\ UNCHANGED <<promptable, captures, decoders, rows, mishaps, failures>>

\* What put reports as failed may have been stored: nothing deletes it.
FailPut(u) ==
  /\ upload[u].at = "storing"
  /\ Fail
  /\ \/ UNCHANGED <<objects, mishaps>>
     \/ objects' = objects \cup {File(u)} /\ mishaps' = mishaps \cup {u}
  /\ At(u, "removing")
  /\ UNCHANGED <<promptable, captures, decoders, rows>>

Insert(u) ==
  /\ upload[u].at = "inserting"
  /\ rows' = rows \cup {File(u)}
  /\ upload' = [upload EXCEPT ![u].file = @ + 1,
                              ![u].at = IF upload[u].file + 1 \in FilesOf(u) THEN "storing" ELSE "committing"]
  /\ UNCHANGED <<promptable, captures, decoders, objects, mishaps, failures>>

\* The row cannot be written: the file is deleted, or stays without its row.
FailInsert(u) ==
  /\ upload[u].at = "inserting"
  /\ Fail
  /\ \/ objects' = objects \ {File(u)} /\ UNCHANGED mishaps
     \/ UNCHANGED objects /\ mishaps' = mishaps \cup {u}
  /\ At(u, "removing")
  /\ UNCHANGED <<promptable, captures, decoders, rows>>
-----------------------------------------------------------------------------
(***************************************************************************)
(* The transaction, and the clean-up.                                      *)
(***************************************************************************)
\* Mutant of AppendAllowed: what was checked before the upload is enough.
AppendChecked(u) == TRUE

\* The check under the session's row lock, with the image's dimensions.
AppendAllowed(u) == CaptureAllowed(u, upload[u].image)

\* The capture is appended, or the upload is undone.
CommitCapture(u) ==
  /\ upload[u].at = "committing" /\ u \in Captures
  /\ IF AppendAllowed(u)
       THEN /\ captures' = Append(captures, [by |-> u, of |-> upload[u].of,
                                             page |-> upload[u].page, image |-> upload[u].image])
            /\ At(u, "done")
       ELSE At(u, "removing") /\ UNCHANGED captures
  /\ UNCHANGED <<promptable, decoders, objects, rows, mishaps, failures>>

\* The command is routed, and the message written with its screenshots.
CommitPrompt(u) ==
  /\ upload[u].at = "committing" /\ u \in Prompts
  /\ At(u, "done")
  /\ UNCHANGED <<promptable, captures, decoders, objects, rows, mishaps, failures>>

\* The transaction, or the routing of the command, fails.
FailCommit(u) ==
  /\ upload[u].at = "committing"
  /\ Fail
  /\ At(u, "removing")
  /\ UNCHANGED <<promptable, captures, decoders, objects, rows, mishaps>>

\* The transaction is committed, and the answer lost: what it refers to is removed.
LoseCommit(u) ==
  /\ upload[u].at = "committing" /\ u \in Captures /\ AppendAllowed(u)
  /\ Fail
  /\ captures' = Append(captures, [by |-> u, of |-> upload[u].of,
                                   page |-> upload[u].page, image |-> upload[u].image])
  /\ mishaps' = mishaps \cup {u}
  /\ At(u, "removing")
  /\ UNCHANGED <<promptable, decoders, objects, rows>>

\* remove: the files created are deleted, then the rows of those that were.
Remove(u) ==
  /\ upload[u].at = "removing"
  /\ LET created == Files(u) \cap rows
     IN  objects' = objects \ created /\ rows' = rows \ created
  /\ At(u, "refused")
  /\ UNCHANGED <<promptable, captures, decoders, mishaps, failures>>

\* A file that cannot be deleted keeps its row; rows that cannot be stay without a file.
FailRemove(u) ==
  /\ upload[u].at = "removing" /\ Files(u) \cap rows # {}
  /\ Fail
  /\ \E deleted \in SUBSET (Files(u) \cap rows) :
       /\ objects' = objects \ deleted
       /\ rows' \in {rows, rows \ deleted}
  /\ mishaps' = mishaps \cup {u}
  /\ At(u, "refused")
  /\ UNCHANGED <<promptable, captures, decoders>>
-----------------------------------------------------------------------------
Next ==
  \/ ChangeStatus
  \/ \E u \in Uploads :
       \/ BeginCapture(u) \/ CheckCapture(u) \/ BeginDecode(u) \/ EndDecode(u) \/ BeginPrompt(u)
       \/ Put(u) \/ FailPut(u) \/ Insert(u) \/ FailInsert(u)
       \/ CommitCapture(u) \/ CommitPrompt(u) \/ FailCommit(u) \/ LoseCommit(u)
       \/ Remove(u) \/ FailRemove(u)

Spec == Init /\ [][Next]_comparisonVars
-----------------------------------------------------------------------------
(***************************************************************************)
(* Properties.                                                             *)
(***************************************************************************)
\* However many captures are uploaded at once, a session has no more comparisons and
\* captures than the limits (the count is taken again under the row lock), and every
\* after capture is of the page and the dimensions of its before.
CapturesAreWithinLimits ==
  /\ Cardinality(Befores) <= MaxComparisons
  /\ Len(captures) <= MaxCaptures
  /\ \A i \in DOMAIN captures : \E j \in 1..i :
       /\ captures[j].by = captures[i].of
       /\ captures[j].page = captures[i].page
       /\ captures[j].image = captures[i].image

\* An upload that is over holds no decoder: the two there are never run out for good.
DecodersComeBack == decoders = Cardinality({u \in Uploads : upload[u].at = "decoded"})

\* Files and rows stand or fall with what refers to them: all of those of an upload that
\* was answered are there, and none of one that was refused, except for a failure the
\* clean-up itself met.
AttachmentsAreWhole ==
  \A u \in Uploads \ mishaps :
    /\ upload[u].at = "done" => Files(u) \subseteq objects \cap rows
    /\ upload[u].at = "refused" => Files(u) \cap (objects \cup rows) = {}
-----------------------------------------------------------------------------
(***************************************************************************)
(* What the proofs rest on.                                                *)
(***************************************************************************)
Stages ==
  {"idle", "checking", "decoding", "decoded", "storing", "inserting", "committing", "removing", "done", "refused"}

Records ==
  [at : Stages, of : Captures \cup {None}, page : Pages \cup {None}, image : Images \cup {None}, file : Nat]

Domains ==
  /\ captures \in Seq([by : Captures, of : Captures, page : Pages, image : Images])
  /\ upload \in [Uploads -> Records]
  /\ decoders \in Nat

\* What an upload brings, and the file it is at.
Brings(u, record) ==
  /\ record.at \in {"idle", "checking", "decoding", "decoded"} => record.file = 1
  /\ record.at \in {"storing", "inserting"} => record.file \in FilesOf(u)
  /\ u \in Captures /\ record.at # "idle" =>
       record.of \in Captures /\ record.page \in Pages /\ record.image \in Images

InputsFollow == \A u \in Uploads : Brings(u, upload[u])

\* A file of an upload, and its row, are where the upload's stage has come to.
FileFollows(u, n, record, files, kept) ==
  /\ record.at \in {"idle", "checking", "decoding", "decoded", "refused"} => <<u, n>> \notin files \cup kept
  /\ record.at \in {"storing", "inserting"} => (<<u, n>> \in kept <=> n < record.file)
  /\ record.at = "storing" => (<<u, n>> \in files <=> n < record.file)
  /\ record.at = "inserting" => (<<u, n>> \in files <=> n <= record.file)
  /\ record.at \in {"committing", "done"} => <<u, n>> \in files \cap kept
  /\ record.at = "removing" => (<<u, n>> \in files <=> <<u, n>> \in kept)

Follows(u, record, files, kept) == \A n \in FilesOf(u) : FileFollows(u, n, record, files, kept)

AttachmentsFollow == \A u \in Uploads \ mishaps : Follows(u, upload[u], objects, rows)
===============================================================================
