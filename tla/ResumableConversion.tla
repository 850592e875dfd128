------------------------ MODULE ResumableConversion ------------------------
(***************************************************************************)
(* The two commands that write checkpoints and survive being killed:       *)
(* k3x-convert, which writes one artifact, and the GLM5X stream, which     *)
(* downloads one source shard at a time, writes its artifact, verifies it, *)
(* deletes the source and assembles a bundle at the end.                   *)
(*                                                                         *)
(* A file is a sequence of cells, one per aligned extent: a whole extent   *)
(* of a source version, a directory, or a torn write; a torn write shifts  *)
(* whatever is appended after it.  Bytes are synced before the step that   *)
(* relies on them, so a killed process loses its memory and no cell.       *)
(* Renames and unlinks are atomic.  Checksums and digests are modelled by  *)
(* comparing the contents they cover.                                      *)
(***************************************************************************)
EXTENDS Integers, Sequences, SequencesExt

CONSTANTS
    Commands,    \* subset of {"k3x-convert", "stream-glm5x"}
    ShardList,   \* sequence of the shards' names
    Extents,     \* tensors per shard
    Chunks,      \* size of a source shard in downloaded chunks
    MaxCrashes,  \* bound on the kills of a process
    MaxRuns,     \* bound on the times the command is run to its end
    MaxVersions  \* bound on the contents the k3x source goes through

ASSUME ConversionAssumption ==
    /\ Commands \subseteq {"k3x-convert", "stream-glm5x"}
    /\ ShardList \in Seq(STRING) /\ ShardList # <<>>
    /\ {Extents, Chunks, MaxRuns, MaxVersions} \subseteq Nat \ {0}
    /\ MaxCrashes \in Nat

VARIABLES
    command,  \* the command that is run, the same in all runs
    disk,     \* shard -> the files made of it
    bundle,   \* the shards the assembled bundle names
    version,  \* content of the source
    proc,     \* the process: all of it is lost when it is killed
    made,     \* partial files made so far, the source of their uuids
    crashes, runs

vars == <<command, disk, bundle, version, proc, made, crashes, runs>>

Shards == Range(ShardList)
Torn == <<0, 0>>
Directory == <<0, 1>>
Extent(i, v) == <<i, v>>

\* state: of the superblock; records: the offsets the tensor directory holds.
NoFile == [state |-> "absent", cells |-> <<>>, uuid |-> 0, source |-> 0, records |-> <<>>]

\* completed[i]: the offset recorded for the i-th extent of the plan.
NoLedger == [exists |-> FALSE, uuid |-> 0, source |-> 0, completed |-> <<>>]

\* part: chunks of an interrupted download, 0 without one.
NoFiles == [part |-> 0, source |-> FALSE, partial |-> NoFile, ledger |-> NoLedger,
            output |-> NoFile, sidecar |-> FALSE, marker |-> FALSE]

NoProcess == [pc |-> "idle", at |-> 1, offsets |-> <<>>, uuid |-> 0, error |-> "none"]

Streams == command = "stream-glm5x"

Init ==
    /\ command \in Commands
    /\ disk = [s \in Shards |-> [NoFiles EXCEPT !.source = ~Streams]]
    /\ bundle = {} /\ version = 1 /\ proc = NoProcess
    /\ made = 0 /\ crashes = 0 /\ runs = 0

----------------------------------------------------------------------------
\* Steps of the process

\* k3x-convert makes one artifact, the stream one per shard.
Plan == IF Streams THEN ShardList ELSE <<ShardList[1]>>
Shard == Plan[proc.at]
Files == disk[Shard]

Step(from, to) == proc.pc = from /\ proc' = [proc EXCEPT !.pc = to]

Fails(error) == proc' = [proc EXCEPT !.pc = "failed", !.error = error]

Write(files) == disk' = [disk EXCEPT ![Shard] = files]

Elsewhere == <<command, version, crashes, runs>>
OnlyProcess == UNCHANGED <<disk, bundle, made, Elsewhere>>
OnlyFiles == UNCHANGED <<bundle, made, Elsewhere>>

NextShard == proc' = [NoProcess EXCEPT !.pc = "shard", !.at = proc.at + 1]

Start ==
    /\ proc.pc = "idle" \/ (proc.pc = "done" /\ runs < MaxRuns)
    /\ proc' = [NoProcess EXCEPT !.pc = "shard"]
    /\ OnlyProcess

\* Mutant: the last shard is skipped.
NoneLeftEarly == proc.at >= Len(Plan)

NoneLeft == proc.at > Len(Plan)

\* A shard with an artifact and a deletion marker is not downloaded again.
Marked(files) == files.output # NoFile /\ files.marker

TakeShard ==
    /\ proc.pc = "shard" /\ ~NoneLeft
    /\ \/ ~Streams /\ Step("shard", "open")
       \/ Streams /\ Marked(Files) /\ Step("shard", "convert")
       \/ Streams /\ ~Marked(Files) /\ Step("shard", "download")
    /\ OnlyProcess

----------------------------------------------------------------------------
\* download_resumable

\* A server that honours the range refuses one behind the last byte.
Request ==
    /\ proc.pc = "download"
    /\ \/ Files.source /\ Step("download", "convert")
       \/ ~Files.source /\ Files.part < Chunks /\ Step("download", "fetch")
       \/ ~Files.source /\ Files.part = Chunks /\ Fails("DOWNLOAD_FAILED")
    /\ OnlyProcess

\* A server that ignores the range sends the whole file, over what is there.
RequestWhole ==
    /\ Step("download", "fetch")
    /\ ~Files.source /\ Files.part \in 1..Chunks
    /\ Write([Files EXCEPT !.part = 0])
    /\ OnlyFiles

Fetch ==
    /\ Step("fetch", IF Files.part + 1 = Chunks THEN "keep" ELSE "fetch")
    /\ Write([Files EXCEPT !.part = @ + 1])
    /\ OnlyFiles

KeepDownload ==
    /\ Step("keep", "convert")
    /\ Write([Files EXCEPT !.part = 0, !.source = TRUE])
    /\ OnlyFiles

----------------------------------------------------------------------------
\* Opening: convert_glm5x_shards and the first half of either convert

\* What the strict reader accepts: a final superblock and every record's
\* extent as the source had it.
Sound(file) ==
    /\ file.state = "final" /\ Len(file.records) = Extents
    /\ \A i \in 1..Extents : file.cells[file.records[i]] = Extent(i, file.source)

\* An artifact that is there, without a ledger, is checked against its source
\* or, with the source gone, against the deletion marker.
ConvertShard ==
    /\ proc.pc = "convert"
    /\ IF Files.output = NoFile \/ Files.ledger.exists THEN Step("convert", "open")
       ELSE IF ~(Sound(Files.output) /\ Files.sidecar) THEN Fails("INVALID_EXISTING_ARTIFACT")
       ELSE IF Files.source THEN Step("convert", "verify")
       ELSE IF Files.marker THEN NextShard
       ELSE Fails("SOURCE_SHARD_NOT_FOUND")
    /\ OnlyProcess

SameSource(ledger) == ledger.source = version

\* The recorded extents must lie one behind the other from the superblock on.
Canonical(offsets) == \A i \in 1..Len(offsets) : offsets[i] = i

Reusable(file, offsets) ==
    \A i \in 1..Len(offsets) :
        offsets[i] <= Len(file.cells) /\ file.cells[offsets[i]] = Extent(i, version)

Refusal ==
    LET ledger == Files.ledger IN
    IF ~Files.source THEN "SOURCE_SHARD_NOT_FOUND"
    ELSE IF ~ledger.exists THEN "none"
    ELSE IF ~SameSource(ledger) THEN "SOURCE_FINGERPRINT_MISMATCH"
    ELSE IF ~Canonical(ledger.completed) THEN "INVALID_RESUME_EXTENT"
    ELSE IF Streams /\ Files.partial # NoFile /\ Files.output # NoFile
         THEN "AMBIGUOUS_RESUME_STATE"
    ELSE IF Files.partial # NoFile
         THEN IF Reusable(Files.partial, ledger.completed) THEN "none"
              ELSE "RESUME_EXTENT_CRC_MISMATCH"
    ELSE IF Files.output = NoFile THEN "MISSING_PARTIAL_FILE"
    ELSE IF Sound(Files.output) /\ Files.output.uuid = ledger.uuid
            /\ Files.output.source = version THEN "none"
    ELSE "FINAL_ARTIFACT_MISMATCH"

OpenRefused ==
    /\ proc.pc = "open" /\ Refusal # "none"
    /\ Fails(Refusal)
    /\ OnlyProcess

\* Without a ledger the artifact is begun anew, over any partial file.
OpenNew ==
    /\ proc.pc = "open" /\ Refusal = "none" /\ ~Files.ledger.exists
    /\ made' = made + 1
    /\ proc' = [proc EXCEPT !.pc = "ledger", !.uuid = made + 1]
    /\ Write([Files EXCEPT !.partial = [NoFile EXCEPT !.state = "open"]])
    /\ UNCHANGED <<bundle, Elsewhere>>

CreateLedger ==
    /\ Step("ledger", "extent")
    /\ Write([Files EXCEPT !.ledger = [exists |-> TRUE, uuid |-> proc.uuid,
                                       source |-> version, completed |-> <<>>]])
    /\ OnlyFiles

\* The GLM5X writer cuts the file behind the last recorded extent; the K3X
\* writer appends to whatever is there.
Kept(file, offsets) ==
    IF Streams THEN [file EXCEPT !.cells = SubSeq(@, 1, Len(offsets))] ELSE file

OpenPartial ==
    /\ proc.pc = "open" /\ Refusal = "none"
    /\ Files.ledger.exists /\ Files.partial # NoFile
    /\ proc' = [proc EXCEPT !.pc = "extent", !.uuid = Files.ledger.uuid,
                            !.offsets = Files.ledger.completed]
    /\ Write([Files EXCEPT !.partial = Kept(@, Files.ledger.completed)])
    /\ OnlyFiles

\* The last run was killed between the rename and the end.
OpenFinal ==
    /\ Step("open", IF Streams THEN "sidecar" ELSE "unlink")
    /\ Files.ledger.exists /\ Files.partial = NoFile /\ Refusal = "none"
    /\ OnlyProcess

----------------------------------------------------------------------------
\* Writing: extents, directories, superblock

\* Mutant: one extent more than the plan has.
AllWrittenTwice == Len(proc.offsets) > Extents

AllWritten == Len(proc.offsets) = Extents

Appended(cell) == [Files EXCEPT !.partial.cells = Append(@, cell)]

Filled(cell) == [Files EXCEPT !.partial.cells[Len(Files.partial.cells)] = cell]

\* Mutant: an extent is recorded before it is written.
BeginExtentUnfilled ==
    /\ ~AllWritten
    /\ Step("extent", "record")
    /\ Write(Appended(Torn))
    /\ OnlyFiles

BeginExtent ==
    /\ ~AllWritten
    /\ Step("extent", "fill")
    /\ Write(Appended(Torn))
    /\ OnlyFiles

FillExtent ==
    /\ Step("fill", "record")
    /\ Write(Filled(Extent(Len(proc.offsets) + 1, version)))
    /\ OnlyFiles

\* Mutant: the offset that the plan gives, not the one that was written to.
RecordExtentByPlan ==
    /\ proc.pc = "record"
    /\ LET offsets == Append(proc.offsets, Len(proc.offsets) + 1)
       IN  /\ proc' = [proc EXCEPT !.pc = "extent", !.offsets = offsets]
           /\ Write([Files EXCEPT !.ledger.completed = offsets])
    /\ OnlyFiles

\* The ledger is replaced after the extent is synced and read back.
RecordExtent ==
    /\ proc.pc = "record"
    /\ LET offsets == Append(proc.offsets, Len(Files.partial.cells))
       IN  /\ proc' = [proc EXCEPT !.pc = "extent", !.offsets = offsets]
           /\ Write([Files EXCEPT !.ledger.completed = offsets])
    /\ OnlyFiles

BeginDirectories ==
    /\ AllWritten
    /\ Step("extent", "superblock")
    /\ Write(Appended(Torn))
    /\ OnlyFiles

\* First without and then with the digest of the whole file.
WriteSuperblock ==
    /\ Step("superblock", "seal")
    /\ Write([Files EXCEPT !.partial =
                 [state |-> "provisional", cells |-> Filled(Directory).partial.cells,
                  uuid |-> proc.uuid, source |-> version, records |-> proc.offsets]])
    /\ OnlyFiles

Seal ==
    /\ Step("seal", "publish")
    /\ Write([Files EXCEPT !.partial.state = "final"])
    /\ OnlyFiles

Publish ==
    /\ Step("publish", IF Streams THEN "sidecar" ELSE "unlink")
    /\ Write([Files EXCEPT !.output = Files.partial, !.partial = NoFile])
    /\ OnlyFiles

WriteSidecar ==
    /\ Step("sidecar", "unlink")
    /\ Write([Files EXCEPT !.sidecar = TRUE])
    /\ OnlyFiles

UnlinkLedger ==
    /\ proc.pc = "unlink"
    /\ IF Streams THEN Step("unlink", "verify") ELSE NextShard
    /\ Write([Files EXCEPT !.ledger = NoLedger])
    /\ OnlyFiles

----------------------------------------------------------------------------
\* Deleting the source and assembling the bundle

\* Mutant: the source is deleted without a marker.
VerifyUnmarked == Step("verify", "delete") /\ Sound(Files.output) /\ OnlyProcess

Verify == Step("verify", "mark") /\ Sound(Files.output) /\ OnlyProcess

Mark ==
    /\ Step("mark", "delete")
    /\ Write([Files EXCEPT !.marker = TRUE])
    /\ OnlyFiles

Delete ==
    /\ proc.pc = "delete" /\ NextShard
    /\ Write([Files EXCEPT !.source = FALSE])
    /\ OnlyFiles

\* A run over all shards that assembles: every artifact in the directory is
\* indexed; one without its sidecar fails.
\* Checksums were verified before the markers and are not read again.
Artifacts == {s \in Shards : disk[s].output # NoFile}

Finish ==
    /\ proc.pc = "shard" /\ NoneLeft
    /\ IF ~Streams \/ \A s \in Artifacts : disk[s].sidecar
       THEN /\ proc' = [proc EXCEPT !.pc = "done"]
            /\ bundle' = IF Streams THEN Artifacts ELSE {}
            /\ runs' = runs + 1
       ELSE /\ Fails("EXPERT_BUNDLE_SIDECAR_MISSING")
            /\ UNCHANGED <<bundle, runs>>
    /\ UNCHANGED <<command, disk, version, made, crashes>>

----------------------------------------------------------------------------
\* The process is killed, or its connection breaks: files stay as they are.
Crash ==
    /\ proc.pc \notin {"idle", "done", "failed"} /\ crashes < MaxCrashes
    /\ crashes' = crashes + 1
    /\ proc' = NoProcess
    /\ UNCHANGED <<command, disk, bundle, version, made, runs>>

\* Between two runs somebody replaces the k3x source.
EditSource ==
    /\ ~Streams /\ proc.pc \in {"idle", "done"} /\ version < MaxVersions
    /\ version' = version + 1
    /\ UNCHANGED <<command, disk, bundle, proc, made, crashes, runs>>

ProcessStep ==
    \/ TakeShard \/ Request \/ RequestWhole \/ Fetch \/ KeepDownload
    \/ ConvertShard \/ OpenRefused \/ OpenNew \/ CreateLedger \/ OpenPartial \/ OpenFinal
    \/ BeginExtent \/ FillExtent \/ RecordExtent \/ BeginDirectories \/ WriteSuperblock
    \/ Seal \/ Publish \/ WriteSidecar \/ UnlinkLedger \/ Verify \/ Mark \/ Delete \/ Finish

Next == Start \/ ProcessStep \/ Crash \/ EditSource

Spec == Init /\ [][Next]_vars

\* A process that is alive runs on, and a command that was killed is run again.
FairSpec == Spec /\ WF_vars(Start \/ ProcessStep)

----------------------------------------------------------------------------
\* Whenever the process is killed, what the ledger calls completed is on disk:
\* in the partial file or, once that is renamed, in the artifact, whole and of
\* the source version the ledger names.
LedgerIsTrue ==
    \A s \in Shards :
        LET ledger == disk[s].ledger
            file == IF disk[s].partial # NoFile THEN disk[s].partial ELSE disk[s].output
        IN  \A i \in 1..Len(ledger.completed) :
               /\ ledger.completed[i] <= Len(file.cells)
               /\ file.cells[ledger.completed[i]] = Extent(i, ledger.source)

\* A file under an artifact's final name passes the strict reader: however
\* often the conversion was killed and resumed, it holds every extent, all of
\* one version of the source.
PublishedIsWhole ==
    \A s \in Shards : disk[s].output # NoFile => Sound(disk[s].output)

\* A source shard is deleted only when its artifact, its sidecar and its
\* deletion marker are there and nothing of the conversion is left to resume.
DeletionIsSafe ==
    [][\A s \in Shards :
          disk[s].source /\ ~disk'[s].source =>
              /\ Marked(disk'[s]) /\ disk'[s].sidecar /\ Sound(disk'[s].output)
              /\ ~disk'[s].ledger.exists]_vars

\* The stream skips the checksums when it assembles the bundle; what makes up
\* for it is that the bundle names exactly the shards, each of them marked,
\* that is verified by the strict reader before its source was deleted.
BundleIsVerified ==
    bundle # {} => bundle = Shards /\ \A s \in bundle : Marked(disk[s]) /\ ~disk[s].source

\* A command that is killed finitely often and run again each time ends: in
\* the whole result or in one of those refusals.
CommandEnds == <>(proc.pc \in {"done", "failed"})

\* The design calls the K3X conversion crash safe: run again with the source
\* unchanged, it goes on from what was recorded.
ConversionResumes == version = 1 => proc.error # "INVALID_RESUME_EXTENT"

\* The stream is said to keep partial downloads to resume them safely after an
\* interruption: a download that is run again gets its file.
DownloadResumes == proc.error # "DOWNLOAD_FAILED"
============================================================================
