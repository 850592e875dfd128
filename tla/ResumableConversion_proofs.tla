--------------------- MODULE ResumableConversion_proofs ---------------------
(***************************************************************************)
(* The two conversions are safe however often they are killed and run      *)
(* again, for every list of shards and any number of extents: the ledger   *)
(* tells the truth, what is published is whole, a source is deleted last   *)
(* and a bundle names verified artifacts.                                  *)
(***************************************************************************)
EXTENDS ResumableConversion, SequenceTheorems, TLAPS

FileSet == [state : {"absent", "open", "provisional", "final"},
            cells : Seq(Nat \X Nat), uuid : Nat, source : Nat, records : Seq(Nat)]

LedgerSet == [exists : BOOLEAN, uuid : Nat, source : Nat, completed : Seq(Nat)]

FilesSet == [part : Nat, source : BOOLEAN, partial : FileSet, ledger : LedgerSet,
             output : FileSet, sidecar : BOOLEAN, marker : BOOLEAN]

Resting == {"idle", "shard", "done", "failed"}
Fetching == {"download", "fetch", "keep"}
Opening == {"convert", "open"}
Writing == {"extent", "fill", "record", "superblock", "seal", "publish"}
Deleting == {"verify", "mark", "delete"}
Finishing == {"sidecar", "unlink"} \cup Deleting
Working == Fetching \cup Opening \cup {"ledger"} \cup Writing \cup Finishing

Errors == {"DOWNLOAD_FAILED", "INVALID_EXISTING_ARTIFACT", "SOURCE_SHARD_NOT_FOUND",
           "SOURCE_FINGERPRINT_MISMATCH", "INVALID_RESUME_EXTENT",
           "AMBIGUOUS_RESUME_STATE", "RESUME_EXTENT_CRC_MISMATCH",
           "MISSING_PARTIAL_FILE", "FINAL_ARTIFACT_MISMATCH",
           "EXPERT_BUNDLE_SIDECAR_MISSING"}

ProcSet == [pc : Resting \cup Working, at : Nat \ {0}, offsets : Seq(Nat),
            uuid : Nat, error : Errors \cup {"none"}]

Types ==
  /\ disk \in [Shards -> FilesSet] /\ version \in Nat /\ made \in Nat
  /\ proc \in ProcSet

-----------------------------------------------------------------------------
(* The invariant                                                           *)

\* The file the ledger speaks of.
Recorded(files) == IF files.partial # NoFile THEN files.partial ELSE files.output

TrueLedger(files) ==
  \A i \in 1..Len(files.ledger.completed) :
    /\ files.ledger.completed[i] \in 1..Len(Recorded(files).cells)
    /\ Recorded(files).cells[files.ledger.completed[i]] = Extent(i, files.ledger.source)

\* The files of a shard, whoever looks at them and whenever.
FilesInv(files) ==
  /\ files.partial.state = "absent" => files.partial = NoFile
  /\ files.output.state = "absent" => files.output = NoFile
  /\ TrueLedger(files)
  /\ files.output # NoFile => Sound(files.output)
  /\ ~files.ledger.exists => files.ledger.completed = <<>>

\* The shard is through: its source is gone and it will not be fetched again.
Through(files) == Marked(files) /\ ~files.source

\* What the process p knows of the files it is working on.
Knows(p, files) ==
  /\ p.pc \in Fetching \cup {"convert"} => Streams
  /\ p.pc \in Fetching => ~Marked(files)
  /\ p.pc \in Fetching \cup Opening \cup {"ledger"} => p.offsets = <<>>
  /\ p.pc \in {"ledger"} \cup Writing \cup Finishing => files.source
  /\ p.pc = "ledger" => files.partial # NoFile /\ ~files.ledger.exists
  /\ p.pc \in Writing =>
       /\ files.partial # NoFile /\ files.ledger.exists
       /\ files.ledger.source = version /\ files.ledger.completed = p.offsets
  /\ p.pc \in {"fill", "record", "superblock"} =>
       /\ files.partial.cells # <<>>
       /\ \A i \in 1..Len(p.offsets) : p.offsets[i] < Len(files.partial.cells)
  /\ p.pc = "record" =>
       files.partial.cells[Len(files.partial.cells)] = Extent(Len(p.offsets) + 1, version)
  /\ p.pc \in {"superblock", "seal", "publish"} => Len(p.offsets) = Extents
  /\ p.pc \in {"seal", "publish"} =>
       files.partial.source = version /\ files.partial.records = p.offsets
  /\ p.pc = "publish" => files.partial.state = "final"
  /\ p.pc \in Finishing => files.output # NoFile
  /\ p.pc \in Deleting \/ (p.pc = "unlink" /\ Streams) => files.sidecar
  /\ p.pc \in Deleting => ~files.ledger.exists /\ Streams
  /\ p.pc = "delete" => files.marker

\* A process at work is at a shard of its plan and knows its files.
AtWork ==
  proc.pc \in Working => proc.at <= Len(Plan) /\ Knows(proc, disk[Plan[proc.at]])

\* Nothing is written when a shard is taken up.
Unwritten == proc.pc = "shard" => proc.offsets = <<>>

\* A running stream has been through every shard before the present one.
Progress ==
  Streams /\ proc.pc \in Working \cup {"shard"} =>
    \A i \in 1..Len(Plan) : i < proc.at => Through(disk[Plan[i]])

BundleThrough == bundle # {} => bundle = Shards /\ \A s \in Shards : Through(disk[s])

ConversionInv ==
  /\ Types /\ AtWork /\ Unwritten /\ Progress /\ BundleThrough
  /\ \A s \in Shards : FilesInv(disk[s])

-----------------------------------------------------------------------------
(* What all steps have in common                                           *)

\* A plan is of shards, and a stream's plan of all of them.
LEMMA PlanIs ==
  /\ Len(Plan) \in Nat \ {0}
  /\ \A i \in 1..Len(Plan) : Plan[i] \in Shards
  /\ Streams => \A s \in Shards : \E i \in 1..Len(Plan) : Plan[i] = s
<1>1. ShardList \in Seq(STRING) /\ ShardList # <<>>
  BY ConversionAssumption
<1>2. Len(ShardList) \in Nat \ {0} /\ DOMAIN ShardList = 1..Len(ShardList)
  BY <1>1
<1>3. Shards = {ShardList[i] : i \in 1..Len(ShardList)}
  BY <1>2 DEF Shards, Range
<1>4. CASE Streams
  BY <1>2, <1>3, <1>4 DEF Plan
<1>5. CASE ~Streams
  <2>1. Plan = <<ShardList[1]>>
    BY <1>5 DEF Plan
  <2>2. Len(Plan) = 1 /\ Plan[1] = ShardList[1]
    BY <2>1
  <2> QED
    BY <1>2, <1>3, <1>5, <2>2
<1> QED
  BY <1>4, <1>5

\* A process at work is at a shard, whose files are as the invariant says.
LEMMA Present ==
  ASSUME ConversionInv, proc.pc \in Working
  PROVE  /\ Shard \in Shards /\ Files \in FilesSet /\ FilesInv(Files)
         /\ Knows(proc, Files) /\ proc.at \in 1..Len(Plan)
<1>1. proc.at \in Nat \ {0} /\ proc.at <= Len(Plan) /\ Knows(proc, disk[Plan[proc.at]])
  BY DEF ConversionInv, Types, ProcSet, AtWork
<1>2. proc.at \in 1..Len(Plan)
  BY <1>1, PlanIs
<1>3. Shard \in Shards
  BY <1>2, PlanIs DEF Shard
<1> QED
  BY <1>1, <1>2, <1>3 DEF ConversionInv, Types, Shard, Files

\* A step of a process at work: it touches the files of the present shard and
\* none of a shard that is through, and goes on, to the next shard or down.
LEMMA WorkStep ==
  ASSUME ConversionInv, proc.pc \in Working,
         NEW f \in FilesSet, FilesInv(f), disk' = [disk EXCEPT ![Shard] = f],
         Through(Files) => f = Files,
         command' = command, version' = version, bundle' = bundle, made' \in Nat,
         proc' \in ProcSet,
         \/ proc'.pc \in Working /\ proc'.at = proc.at /\ Knows(proc', f)
         \/ /\ proc'.pc = "shard" /\ proc'.at = proc.at + 1 /\ proc'.offsets = <<>>
            /\ Streams => Through(f)
         \/ proc'.pc \in {"idle", "failed"}
  PROVE  ConversionInv'
<1>0. /\ Shard \in Shards /\ Files \in FilesSet /\ FilesInv(Files)
      /\ Knows(proc, Files) /\ proc.at \in 1..Len(Plan)
  BY Present
<1>1. disk \in [Shards -> FilesSet]
  BY DEF ConversionInv, Types
<1>2. /\ disk' \in [Shards -> FilesSet] /\ disk'[Shard] = f
      /\ \A s \in Shards : s # Shard => disk'[s] = disk[s]
  BY <1>0, <1>1
<1>3. Types'
  BY <1>2 DEF ConversionInv, Types
<1>4. \A s \in Shards : FilesInv(disk'[s])
  BY <1>2 DEF ConversionInv
<1>5. \A s \in Shards : Through(disk[s]) => Through(disk'[s])
  BY <1>2 DEF Files
<1>6. Plan' = Plan /\ Streams' = Streams
  BY DEF Plan, Streams
<1>7. AtWork'
  <2> SUFFICES ASSUME proc'.pc \in Working
               PROVE  proc'.at <= Len(Plan) /\ Knows(proc', disk'[Plan[proc'.at]])
    BY <1>6 DEF AtWork, Knows
  <2>1. proc'.at = proc.at /\ Knows(proc', f)
    BY DEF Working, Fetching, Opening, Writing, Finishing, Deleting
  <2>2. Plan[proc'.at] = Shard
    BY <2>1 DEF Shard
  <2>3. Knows(proc', disk'[Plan[proc'.at]])
    BY <1>2, <2>1, <2>2
  <2> QED
    BY <1>0, <2>1, <2>3
<1>8. Progress'
  <2> SUFFICES ASSUME Streams, proc'.pc \in Working \cup {"shard"},
                      NEW i \in 1..Len(Plan), i < proc'.at
               PROVE  Through(disk'[Plan[i]])
    BY <1>6 DEF Progress
  <2>1. Plan[i] \in Shards
    BY PlanIs
  <2>2. CASE i < proc.at
    BY <1>5, <2>1, <2>2 DEF ConversionInv, Progress
  <2>3. CASE ~(i < proc.at)
    <3>1. proc'.at # proc.at
      BY <2>3
    <3>2. proc'.pc \notin {"idle", "failed"}
      BY DEF Working, Fetching, Opening, Writing, Finishing, Deleting
    <3>3. proc'.at = proc.at + 1 /\ Through(f)
      BY <3>1, <3>2
    <3>4. i = proc.at
      BY <1>0, <2>3, <3>3
    <3> QED
      BY <1>2, <3>3, <3>4 DEF Shard
  <2> QED
    BY <2>2, <2>3
<1>9. BundleThrough'
  BY <1>5 DEF ConversionInv, BundleThrough
<1>10. Unwritten'
  BY DEF Unwritten, Working, Fetching, Opening, Writing, Finishing, Deleting
<1> QED
  BY <1>3, <1>4, <1>7, <1>8, <1>9, <1>10 DEF ConversionInv

\* The same for a step that writes nothing.
LEMMA QuietStep ==
  ASSUME ConversionInv, proc.pc \in Working, OnlyProcess,
         proc' \in ProcSet,
         \/ proc'.pc \in Working /\ proc'.at = proc.at /\ Knows(proc', Files)
         \/ /\ proc'.pc = "shard" /\ proc'.at = proc.at + 1 /\ proc'.offsets = <<>>
            /\ Streams => Through(Files)
         \/ proc'.pc \in {"idle", "failed"}
  PROVE  ConversionInv'
<1>1. Shard \in Shards /\ Files \in FilesSet /\ FilesInv(Files)
  BY Present
<1>2. disk' = [disk EXCEPT ![Shard] = Files]
  BY <1>1 DEF OnlyProcess, Files, ConversionInv, Types
<1>3. /\ command' = command /\ version' = version /\ bundle' = bundle /\ made' \in Nat
  BY DEF OnlyProcess, Elsewhere, ConversionInv, Types
<1> QED
  BY <1>1, <1>2, <1>3, WorkStep

\* A step of the environment, or of a process between two shards.
LEMMA RestStep ==
  ASSUME ConversionInv, disk' = disk, bundle' = bundle, command' = command,
         made' = made, version' \in Nat, proc' \in ProcSet,
         \/ proc'.pc \in {"idle", "done", "failed"}
         \/ proc'.pc = "shard" /\ proc'.at = 1 /\ proc'.offsets = <<>>
  PROVE  ConversionInv'
<1>1. Types' /\ BundleThrough' /\ \A s \in Shards : FilesInv(disk'[s])
  BY DEF ConversionInv, Types, BundleThrough
<1>2. AtWork'
  BY DEF AtWork, Working, Fetching, Opening, Writing, Finishing, Deleting
<1>3. Progress'
  <2>1. \A i \in 1..Len(Plan') : ~(i < 1)
    OBVIOUS
  <2>2. proc'.pc \in Working \cup {"shard"} => proc'.at = 1
    BY DEF Working, Fetching, Opening, Writing, Finishing, Deleting
  <2> QED
    BY <2>1, <2>2 DEF Progress
<1>4. Unwritten'
  BY DEF Unwritten
<1> QED
  BY <1>1, <1>2, <1>3, <1>4 DEF ConversionInv

\* Outside of the opening a process works on a shard that is not through.
LEMMA NotThrough ==
  ASSUME ConversionInv, proc.pc \in Working \ Opening
  PROVE  ~Through(Files)
<1>1. Knows(proc, Files)
  BY Present
<1>2. proc.pc \in Fetching \/ proc.pc \in {"ledger"} \cup Writing \cup Finishing
  BY DEF Working
<1> QED
  BY <1>1, <1>2 DEF Knows, Through

\* A process whose position alone changes.
LEMMA GoesTo ==
  ASSUME Types, NEW to \in Resting \cup Working, proc' = [proc EXCEPT !.pc = to]
  PROVE  /\ proc' \in ProcSet /\ proc'.pc = to /\ proc'.at = proc.at
         /\ proc'.offsets = proc.offsets
BY DEF Types, ProcSet

\* The process gives up, or goes on to the next shard.
LEMMA LeavesShard ==
  ASSUME Types
  PROVE  /\ \A e \in Errors : Fails(e) => proc' \in ProcSet /\ proc'.pc = "failed"
         /\ NextShard => /\ proc' \in ProcSet /\ proc'.pc = "shard"
                        /\ proc'.at = proc.at + 1 /\ proc'.offsets = <<>>
         /\ NoProcess \in ProcSet
<1>1. NoProcess \in ProcSet /\ NoProcess.pc = "idle" /\ NoProcess.offsets = <<>>
  BY DEF NoProcess, ProcSet, Resting
<1>2. ASSUME NEW e \in Errors, Fails(e)
      PROVE  proc' \in ProcSet /\ proc'.pc = "failed"
  BY <1>2 DEF Fails, Types, ProcSet, Resting
<1>3. ASSUME NextShard
      PROVE  /\ proc' \in ProcSet /\ proc'.pc = "shard" /\ proc'.at = proc.at + 1
             /\ proc'.offsets = <<>>
  <2>1. proc.at + 1 \in Nat \ {0}
    BY DEF Types, ProcSet
  <2>2. proc' = [NoProcess EXCEPT !.pc = "shard", !.at = proc.at + 1]
    BY <1>3 DEF NextShard
  <2> QED
    BY <1>1, <2>1, <2>2 DEF ProcSet, Resting
<1> QED
  BY <1>1, <1>2, <1>3

\* The first n cells of a file.
LEMMA FirstCells ==
  ASSUME NEW S, NEW s \in Seq(S), NEW n \in Nat, n <= Len(s)
  PROVE  /\ SubSeq(s, 1, n) \in Seq(S) /\ Len(SubSeq(s, 1, n)) = n
         /\ \A i \in 1..n : SubSeq(s, 1, n)[i] = s[i]
OBVIOUS

\* A cell appended behind the others.
LEMMA AppendCell ==
  ASSUME NEW S, NEW s \in Seq(S), NEW c \in S
  PROVE  /\ Append(s, c) \in Seq(S) /\ Len(Append(s, c)) = Len(s) + 1
         /\ Append(s, c) # <<>> /\ Len(s) \in Nat
         /\ \A i \in 1..Len(s) : Append(s, c)[i] = s[i]
OBVIOUS

\* A place among n cells lies before the end of n + 1.
LEMMA BeforeTheEnd ==
  ASSUME NEW n \in Nat, NEW k \in 1..n
  PROVE  k \in 1..(n + 1) /\ k < n + 1
OBVIOUS

\* The last cell written over.
LEMMA LastCell ==
  ASSUME NEW S, NEW s \in Seq(S), s # <<>>, NEW c \in S,
         NEW t, t = [s EXCEPT ![Len(s)] = c]
  PROVE  /\ t \in Seq(S) /\ Len(t) = Len(s) /\ t # <<>> /\ Len(s) \in Nat
         /\ t[Len(s)] = c /\ \A i \in 1..Len(s) : i < Len(s) => t[i] = s[i]
<1>1. Len(s) \in Nat \ {0} /\ Len(s) \in 1..Len(s)
  OBVIOUS
<1>2. /\ t \in Seq(S) /\ Len(t) = Len(s)
      /\ \A i \in 1..Len(s) : t[i] = IF i = Len(s) THEN c ELSE s[i]
  BY <1>1, ExceptSeq
<1>3. t # <<>>
  BY <1>1, <1>2
<1>4. t[Len(s)] = c
  BY <1>1, <1>2
<1>5. ASSUME NEW i \in 1..Len(s), i < Len(s)
      PROVE  t[i] = s[i]
  <2>1. i # Len(s)
    BY <1>1, <1>5
  <2>2. t[i] = IF i = Len(s) THEN c ELSE s[i]
    BY <1>2
  <2> QED
    BY <2>1, <2>2, Zenon
<1> QED
  <2>1. Len(s) \in Nat
    BY <1>1
  <2> QED
    BY <1>2, <1>3, <1>4, <1>5, <2>1, Zenon

\* A partial file that holds what the ledger records may take the place of
\* the one that is there.
LEMMA NewPartial ==
  ASSUME NEW files \in FilesSet, FilesInv(files),
         NEW file \in FileSet, file.state # "absent",
         NEW f, f = [files EXCEPT !.partial = file],
         \A i \in 1..Len(files.ledger.completed) :
            /\ files.ledger.completed[i] \in 1..Len(file.cells)
            /\ file.cells[files.ledger.completed[i]] = Extent(i, files.ledger.source)
  PROVE  /\ f \in FilesSet /\ FilesInv(f) /\ f.partial = file /\ f.partial # NoFile
         /\ f.ledger = files.ledger /\ f.output = files.output /\ f.source = files.source
         /\ f.sidecar = files.sidecar /\ f.marker = files.marker
<1>1. /\ f \in FilesSet /\ f.partial = file
      /\ f.ledger = files.ledger /\ f.output = files.output /\ f.source = files.source
      /\ f.sidecar = files.sidecar /\ f.marker = files.marker
  BY DEF FilesSet
<1>2. file # NoFile
  BY DEF NoFile
<1>3. TrueLedger(f)
  BY <1>1, <1>2 DEF TrueLedger, Recorded
<1> QED
  BY <1>1, <1>2, <1>3 DEF FilesInv

-----------------------------------------------------------------------------
(* Between shards, downloading and opening                                 *)

\* Starting, being killed, and a source that is replaced between two runs.
LEMMA RestPreserves ==
  ASSUME ConversionInv, Start \/ Crash \/ EditSource
  PROVE  ConversionInv'
<1>0. Types
  BY DEF ConversionInv
<1>1. CASE Start
  <2>1. proc' = [NoProcess EXCEPT !.pc = "shard"]
    BY <1>1 DEF Start
  <2>2. NoProcess \in ProcSet /\ NoProcess.at = 1 /\ NoProcess.offsets = <<>>
    BY <1>0, LeavesShard DEF NoProcess
  <2>3. /\ proc' \in ProcSet /\ proc'.pc = "shard" /\ proc'.at = 1
        /\ proc'.offsets = <<>>
    BY <2>1, <2>2 DEF ProcSet, Resting
  <2> QED
    BY <1>0, <1>1, <2>3, RestStep DEF Start, OnlyProcess, Elsewhere, Types
<1>2. CASE Crash
  <2>1. proc' \in ProcSet /\ proc'.pc = "idle"
    BY <1>0, <1>2, LeavesShard DEF Crash, NoProcess
  <2> QED
    BY <1>0, <1>2, <2>1, RestStep DEF Crash, Types
<1>3. CASE EditSource
  <2>1. version' \in Nat /\ proc' \in ProcSet /\ proc'.pc \in {"idle", "done"}
    BY <1>0, <1>3 DEF EditSource, Types
  <2> QED
    BY <1>3, <2>1, RestStep DEF EditSource
<1> QED
  BY <1>1, <1>2, <1>3

\* A shard of the plan is taken up.
LEMMA TakePreserves ==
  ASSUME ConversionInv, TakeShard
  PROVE  ConversionInv'
<1>1. PICK to \in {"open", "convert", "download"} :
        /\ proc.pc = "shard" /\ proc' = [proc EXCEPT !.pc = to]
        /\ to # "open" => Streams
        /\ to = "download" => ~Marked(Files)
  BY DEF TakeShard, Step
<1>2. UNCHANGED <<disk, bundle, made, version, command>> /\ ~NoneLeft
  BY DEF TakeShard, OnlyProcess, Elsewhere
<1>3. to \in Working
  BY DEF Working, Fetching, Opening
<1>4. /\ proc' \in ProcSet /\ proc'.pc = to /\ proc'.at = proc.at /\ proc.at \in Nat \ {0}
      /\ proc'.offsets = <<>>
  BY <1>1, <1>3, GoesTo DEF ConversionInv, Types, ProcSet, Unwritten
<1>5. Plan' = Plan /\ Streams' = Streams
  BY <1>2 DEF Plan, Streams
<1>6. Types' /\ BundleThrough' /\ \A s \in Shards : FilesInv(disk'[s])
  BY <1>2, <1>4 DEF ConversionInv, Types, BundleThrough
<1>7. AtWork'
  <2>1. proc.at <= Len(Plan)
    BY <1>2, <1>4, PlanIs DEF NoneLeft
  <2>2. Knows(proc', Files)
    BY <1>1, <1>4 DEF Knows, Fetching, Opening, Writing, Finishing, Deleting
  <2> QED
    BY <1>2, <1>4, <1>5, <2>1, <2>2 DEF AtWork, Knows, Files, Shard
<1>8. Progress'
  BY <1>1, <1>2, <1>4, <1>5 DEF ConversionInv, Progress
<1> QED
  BY <1>1, <1>4, <1>6, <1>7, <1>8 DEF ConversionInv, Unwritten

\* download_resumable fetches a source that is not there, for a shard without
\* marker or artifact.
LEMMA DownloadPreserves ==
  ASSUME ConversionInv, Request \/ RequestWhole \/ Fetch \/ KeepDownload
  PROVE  ConversionInv'
<1>0. proc.pc \in Fetching /\ proc.pc \in Working
  BY DEF Request, RequestWhole, Fetch, KeepDownload, Step, Fetching, Working
<1>1. Files \in FilesSet /\ FilesInv(Files) /\ Knows(proc, Files) /\ Types
  BY <1>0, Present DEF ConversionInv
<1>2. ~Marked(Files) /\ Streams /\ proc.offsets = <<>>
  BY <1>0, <1>1 DEF Knows
<1>3. CASE Request
  <2>1. CASE Fails("DOWNLOAD_FAILED")
    <3>1. proc' \in ProcSet /\ proc'.pc = "failed"
      BY <1>1, <2>1, LeavesShard DEF Errors
    <3> QED
      BY <1>0, <1>3, <3>1, QuietStep DEF Request
  <2>2. CASE \E to \in {"convert", "fetch"} : Step("download", to)
    <3>1. PICK to \in {"convert", "fetch"} : proc' = [proc EXCEPT !.pc = to]
      BY <2>2 DEF Step
    <3>2. /\ proc' \in ProcSet /\ proc'.pc = to /\ proc'.at = proc.at /\ to \in Working
          /\ proc'.offsets = <<>>
      BY <1>1, <1>2, <3>1, GoesTo DEF Working, Fetching, Opening
    <3>3. Knows(proc', Files)
      BY <1>2, <3>2 DEF Knows, Fetching, Opening, Writing, Finishing, Deleting
    <3> QED
      BY <1>0, <1>3, <3>2, <3>3, QuietStep DEF Request
  <2> QED
    BY <1>3, <2>1, <2>2 DEF Request
<1>4. CASE RequestWhole \/ Fetch \/ KeepDownload
  <2>1. PICK part \in Nat, source \in BOOLEAN, to \in {"fetch", "keep", "convert"} :
          /\ proc' = [proc EXCEPT !.pc = to]
          /\ disk' = [disk EXCEPT ![Shard] = [Files EXCEPT !.part = part, !.source = source]]
    <3>1. CASE RequestWhole
      <4>1. /\ proc' = [proc EXCEPT !.pc = "fetch"]
            /\ disk' = [disk EXCEPT ![Shard] = [Files EXCEPT !.part = 0]]
        BY <3>1 DEF RequestWhole, Step, Write
      <4>2. [Files EXCEPT !.part = 0] = [Files EXCEPT !.part = 0, !.source = Files.source]
        BY <1>1 DEF FilesSet
      <4>3. Files.source \in BOOLEAN
        BY <1>1 DEF FilesSet
      <4> QED
        BY <4>1, <4>2, <4>3
    <3>2. CASE Fetch
      <4>1. PICK to \in {"fetch", "keep"} :
              /\ proc' = [proc EXCEPT !.pc = to]
              /\ disk' = [disk EXCEPT ![Shard] = [Files EXCEPT !.part = Files.part + 1]]
        BY <3>2 DEF Fetch, Step, Write
      <4>2. [Files EXCEPT !.part = Files.part + 1]
              = [Files EXCEPT !.part = Files.part + 1, !.source = Files.source]
        BY <1>1 DEF FilesSet
      <4>3. Files.source \in BOOLEAN /\ Files.part + 1 \in Nat
        BY <1>1 DEF FilesSet
      <4> QED
        BY <4>1, <4>2, <4>3
    <3>3. CASE KeepDownload
      BY <3>3 DEF KeepDownload, Step, Write
    <3> QED
      BY <1>4, <3>1, <3>2, <3>3
  <2> DEFINE f == [Files EXCEPT !.part = part, !.source = source]
  <2>2. /\ f \in FilesSet /\ f.partial = Files.partial /\ f.output = Files.output
        /\ f.ledger = Files.ledger /\ f.marker = Files.marker
    BY <1>1 DEF FilesSet
  <2>3. FilesInv(f) /\ ~Marked(f)
    BY <1>1, <1>2, <2>2 DEF FilesInv, TrueLedger, Recorded, Marked
  <2>4. /\ proc' \in ProcSet /\ proc'.pc = to /\ proc'.at = proc.at /\ to \in Working
        /\ proc'.offsets = <<>>
    BY <1>1, <1>2, <2>1, GoesTo DEF Working, Fetching, Opening
  <2>5. Knows(proc', f)
    <3> HIDE DEF f
    <3> QED
      BY <1>2, <2>3, <2>4 DEF Knows, Fetching, Opening, Writing, Finishing, Deleting
  <2>6. /\ command' = command /\ version' = version /\ bundle' = bundle /\ made' \in Nat
    BY <1>1, <1>4 DEF RequestWhole, Fetch, KeepDownload, OnlyFiles, Elsewhere, Types
  <2>7. ~Through(Files)
    BY <1>2 DEF Through
  <2>8. disk' = [disk EXCEPT ![Shard] = f]
    BY <2>1
  <2> HIDE DEF f
  <2> QED
    BY <1>0, <2>2, <2>3, <2>4, <2>5, <2>6, <2>7, <2>8, WorkStep
<1> QED
  BY <1>3, <1>4

\* What convert_glm5x_shards decides of an artifact that is there, and what
\* opening refuses.
LEMMA DecidePreserves ==
  ASSUME ConversionInv, ConvertShard \/ OpenRefused
  PROVE  ConversionInv'
<1>0. proc.pc \in Opening /\ proc.pc \in Working /\ OnlyProcess
  BY DEF ConvertShard, OpenRefused, Step, Opening, Working
<1>1. Files \in FilesSet /\ FilesInv(Files) /\ Knows(proc, Files) /\ Types
  BY <1>0, Present DEF ConversionInv
<1>2. ASSUME NEW e \in Errors, Fails(e)
      PROVE  ConversionInv'
  <2>1. proc' \in ProcSet /\ proc'.pc = "failed"
    BY <1>1, <1>2, LeavesShard
  <2> QED
    BY <1>0, <2>1, QuietStep
<1>3. CASE OpenRefused
  <2>1. Refusal \in Errors
    BY <1>3 DEF OpenRefused, Refusal, Errors
  <2> QED
    BY <1>2, <1>3, <2>1 DEF OpenRefused
<1>4. CASE ConvertShard
  <2>1. CASE Fails("INVALID_EXISTING_ARTIFACT") \/ Fails("SOURCE_SHARD_NOT_FOUND")
    BY <1>2, <2>1 DEF Errors
  <2>2. CASE Step("convert", "open")
    <3>1. proc' = [proc EXCEPT !.pc = "open"] /\ "open" \in Working
      BY <2>2 DEF Step, Working, Opening
    <3>2. /\ proc' \in ProcSet /\ proc'.pc = "open" /\ proc'.at = proc.at
          /\ proc'.offsets = proc.offsets
      BY <1>1, <3>1, GoesTo
    <3>3. Knows(proc', Files)
      BY <1>0, <1>1, <3>2 DEF Knows, Fetching, Opening, Writing, Finishing, Deleting
    <3> QED
      BY <1>0, <3>1, <3>2, <3>3, QuietStep
  <2>3. CASE /\ Files.output # NoFile /\ ~Files.ledger.exists /\ Files.sidecar
             /\ Files.source /\ Step("convert", "verify")
    <3>1. proc' = [proc EXCEPT !.pc = "verify"] /\ "verify" \in Working
      BY <2>3 DEF Step, Working, Finishing, Deleting
    <3>2. proc' \in ProcSet /\ proc'.pc = "verify" /\ proc'.at = proc.at
      BY <1>1, <3>1, GoesTo
    <3>3. Streams
      BY <1>1, <2>3 DEF Knows, Step
    <3>4. Knows(proc', Files)
      BY <2>3, <3>2, <3>3 DEF Knows, Fetching, Opening, Writing, Finishing, Deleting
    <3> QED
      BY <1>0, <3>1, <3>2, <3>4, QuietStep
  <2>4. CASE Files.output # NoFile /\ ~Files.source /\ Files.marker /\ NextShard
    <3>1. /\ proc' \in ProcSet /\ proc'.pc = "shard" /\ proc'.at = proc.at + 1
          /\ proc'.offsets = <<>>
      BY <1>1, <2>4, LeavesShard
    <3>2. Through(Files)
      BY <2>4 DEF Through, Marked
    <3> QED
      BY <1>0, <3>1, <3>2, QuietStep
  <2> QED
    BY <1>4, <2>1, <2>2, <2>3, <2>4 DEF ConvertShard
<1> QED
  BY <1>3, <1>4

\* An artifact is begun: a partial file without a ledger.
LEMMA NewPreserves ==
  ASSUME ConversionInv, OpenNew
  PROVE  ConversionInv'
<1> DEFINE file == [NoFile EXCEPT !.state = "open"]
           f == [Files EXCEPT !.partial = file]
<1>0. proc.pc \in Opening /\ proc.pc \in Working
  BY DEF OpenNew, Opening, Working
<1>1. Files \in FilesSet /\ FilesInv(Files) /\ Knows(proc, Files) /\ Types
  BY <1>0, Present DEF ConversionInv
<1>2. /\ Files.source /\ ~Files.ledger.exists /\ proc.offsets = <<>>
      /\ Files.ledger.completed = <<>>
  BY <1>0, <1>1 DEF OpenNew, Refusal, Knows, FilesInv
<1>3. NoFile \in FileSet
  BY DEF NoFile, FileSet
<1>4. file \in FileSet /\ file.state = "open"
  BY <1>3 DEF FileSet
<1>5. /\ f \in FilesSet /\ FilesInv(f) /\ f.partial # NoFile
      /\ f.ledger = Files.ledger /\ f.source = Files.source
  <2>1. 1..Len(Files.ledger.completed) = {}
    BY <1>2
  <2>2. file.state # "absent"
    BY <1>4
  <2> HIDE DEF file
  <2> QED
    BY <1>1, <1>4, <2>1, <2>2, NewPartial
<1>6. /\ proc' \in ProcSet /\ proc'.pc = "ledger" /\ proc'.at = proc.at
      /\ proc'.offsets = <<>> /\ made' \in Nat /\ "ledger" \in Working
  <2>1. made + 1 \in Nat /\ "ledger" \in Resting \cup Working
    BY <1>1 DEF Types, Working
  <2>2. proc' = [proc EXCEPT !.pc = "ledger", !.uuid = made + 1] /\ made' = made + 1
    BY DEF OpenNew
  <2> QED
    BY <1>1, <1>2, <2>1, <2>2 DEF Types, ProcSet, Working
<1>7. Knows(proc', f)
  <2> HIDE DEF f
  <2> QED
    BY <1>2, <1>5, <1>6 DEF Knows, Fetching, Opening, Writing, Finishing, Deleting
<1>8. disk' = [disk EXCEPT ![Shard] = f] /\ ~Through(Files)
      /\ command' = command /\ version' = version /\ bundle' = bundle
  BY <1>2 DEF OpenNew, Write, Elsewhere, Through
<1> HIDE DEF f
<1> QED
  BY <1>0, <1>5, <1>6, <1>7, <1>8, WorkStep

\* The ledger of a new artifact records nothing.
LEMMA LedgerPreserves ==
  ASSUME ConversionInv, CreateLedger
  PROVE  ConversionInv'
<1> DEFINE ledger == [exists |-> TRUE, uuid |-> proc.uuid,
                      source |-> version, completed |-> <<>>]
           f == [Files EXCEPT !.ledger = ledger]
<1>0. proc.pc = "ledger" /\ proc.pc \in Working \ Opening
  BY DEF CreateLedger, Step, Opening, Working
<1>1. Files \in FilesSet /\ FilesInv(Files) /\ Knows(proc, Files) /\ Types
  BY <1>0, Present DEF ConversionInv
<1>2. /\ Files.source /\ Files.partial # NoFile /\ proc.offsets = <<>>
      /\ proc.uuid \in Nat /\ version \in Nat
  BY <1>0, <1>1 DEF Knows, Types, ProcSet
<1>3. ledger \in LedgerSet
  BY <1>2 DEF LedgerSet
<1>4. /\ f \in FilesSet /\ f.ledger = ledger /\ f.partial = Files.partial
      /\ f.output = Files.output /\ f.source = Files.source
  <2> HIDE DEF ledger
  <2> QED
    BY <1>1, <1>3 DEF FilesSet
<1>5. /\ f.ledger.completed = <<>> /\ f.ledger.source = version /\ f.ledger.exists
  BY <1>4
<1>6. FilesInv(f)
  <2> HIDE DEF f, ledger
  <2> QED
    BY <1>1, <1>4, <1>5 DEF FilesInv, TrueLedger
<1>7. /\ proc' \in ProcSet /\ proc'.pc = "extent" /\ proc'.at = proc.at
      /\ proc'.offsets = <<>> /\ "extent" \in Working
  <2>1. proc' = [proc EXCEPT !.pc = "extent"] /\ "extent" \in Working
    BY DEF CreateLedger, Step, Working, Writing
  <2> QED
    BY <1>1, <1>2, <2>1, GoesTo
<1>8. Knows(proc', f)
  <2> HIDE DEF f
  <2> QED
    BY <1>2, <1>4, <1>5, <1>7 DEF Knows, Fetching, Opening, Writing, Finishing, Deleting
<1>9. /\ disk' = [disk EXCEPT ![Shard] = f] /\ ~Through(Files)
      /\ command' = command /\ version' = version /\ bundle' = bundle /\ made' \in Nat
  BY <1>1, <1>2 DEF CreateLedger, Write, OnlyFiles, Elsewhere, Through, Types
<1> HIDE DEF f
<1> QED
  BY <1>0, <1>4, <1>6, <1>7, <1>8, <1>9, WorkStep

\* A partial file is gone on with: what the ledger records is kept.
LEMMA ResumePreserves ==
  ASSUME ConversionInv, OpenPartial
  PROVE  ConversionInv'
<1> DEFINE n == Len(Files.ledger.completed)
           file == Kept(Files.partial, Files.ledger.completed)
           f == [Files EXCEPT !.partial = file]
<1>0. proc.pc \in Opening /\ proc.pc \in Working
  BY DEF OpenPartial, Opening, Working
<1>1. Files \in FilesSet /\ FilesInv(Files) /\ Knows(proc, Files) /\ Types
  BY <1>0, Present DEF ConversionInv
<1>2. /\ Files.source /\ Files.ledger.exists /\ Files.partial # NoFile
      /\ Files.ledger.source = version /\ Canonical(Files.ledger.completed)
  BY DEF OpenPartial, Refusal, SameSource
<1>3. /\ Files.partial \in FileSet /\ Files.partial.cells \in Seq(Nat \X Nat)
      /\ Files.ledger.completed \in Seq(Nat) /\ Files.partial.state # "absent"
      /\ n \in Nat /\ Files.ledger.uuid \in Nat
  <2>1. Files.partial \in FileSet /\ Files.ledger \in LedgerSet
    BY <1>1 DEF FilesSet
  <2> QED
    BY <1>1, <1>2, <2>1 DEF FileSet, LedgerSet, FilesInv
<1>4. \A i \in 1..n : /\ Files.ledger.completed[i] \in 1..Len(Files.partial.cells)
                      /\ Files.partial.cells[Files.ledger.completed[i]]
                            = Extent(i, Files.ledger.source)
  BY <1>1, <1>2 DEF FilesInv, TrueLedger, Recorded
<1>5. /\ file \in FileSet /\ file.state # "absent"
      /\ \A i \in 1..n : /\ Files.ledger.completed[i] \in 1..Len(file.cells)
                        /\ file.cells[Files.ledger.completed[i]]
                              = Extent(i, Files.ledger.source)
  <2>1. CASE ~Streams
    BY <1>3, <1>4, <2>1 DEF Kept
  <2>2. CASE Streams
    <3> DEFINE cells == SubSeq(Files.partial.cells, 1, n)
    <3>1. \A i \in 1..n : Files.ledger.completed[i] = i /\ i <= Len(Files.partial.cells)
      BY <1>2, <1>4 DEF Canonical
    <3>2. n <= Len(Files.partial.cells)
      BY <1>3, <3>1
    <3>3. /\ cells \in Seq(Nat \X Nat) /\ Len(cells) = n
          /\ \A i \in 1..n : cells[i] = Files.partial.cells[i]
      BY <1>3, <3>2, FirstCells, ZenonT(30)
    <3>4. file = [Files.partial EXCEPT !.cells = cells]
      BY <2>2 DEF Kept
    <3>5. file \in FileSet /\ file.cells = cells /\ file.state = Files.partial.state
      <4> HIDE DEF cells, file
      <4> QED
        BY <1>3, <3>3, <3>4 DEF FileSet
    <3> HIDE DEF cells, file
    <3> QED
      BY <1>3, <1>4, <3>1, <3>3, <3>5
  <2> QED
    BY <2>1, <2>2
<1>6. /\ f \in FilesSet /\ FilesInv(f) /\ f.partial # NoFile
      /\ f.ledger = Files.ledger /\ f.source = Files.source
  <2> HIDE DEF file
  <2> QED
    BY <1>1, <1>5, NewPartial
<1>7. /\ proc' \in ProcSet /\ proc'.pc = "extent" /\ proc'.at = proc.at
      /\ proc'.offsets = Files.ledger.completed /\ "extent" \in Working
  <2>1. proc' = [proc EXCEPT !.pc = "extent", !.uuid = Files.ledger.uuid,
                             !.offsets = Files.ledger.completed]
    BY DEF OpenPartial
  <2>2. "extent" \in Working
    BY DEF Working, Writing
  <2> QED
    BY <1>1, <1>3, <2>1, <2>2 DEF Types, ProcSet
<1>8. Knows(proc', f)
  <2> HIDE DEF f
  <2> QED
    BY <1>2, <1>6, <1>7 DEF Knows, Fetching, Opening, Writing, Finishing, Deleting
<1>9. /\ disk' = [disk EXCEPT ![Shard] = f] /\ ~Through(Files)
      /\ command' = command /\ version' = version /\ bundle' = bundle /\ made' \in Nat
  BY <1>1, <1>2 DEF OpenPartial, Write, OnlyFiles, Elsewhere, Through, Types
<1> HIDE DEF f
<1> QED
  BY <1>0, <1>6, <1>7, <1>8, <1>9, WorkStep

\* An artifact that a killed run has published is gone on with.
LEMMA OpenFinalPreserves ==
  ASSUME ConversionInv, OpenFinal
  PROVE  ConversionInv'
<1>0. proc.pc \in Opening /\ proc.pc \in Working /\ OnlyProcess
  BY DEF OpenFinal, Step, Opening, Working
<1>1. Files \in FilesSet /\ FilesInv(Files) /\ Knows(proc, Files) /\ Types
  BY <1>0, Present DEF ConversionInv
<1>2. Files.source /\ Files.output # NoFile
  BY DEF OpenFinal, Refusal
<1>3. PICK to \in {"sidecar", "unlink"} :
        proc' = [proc EXCEPT !.pc = to] /\ (to = "unlink" => ~Streams)
  BY DEF OpenFinal, Step
<1>4. proc' \in ProcSet /\ proc'.pc = to /\ proc'.at = proc.at /\ to \in Working
  BY <1>1, <1>3, GoesTo DEF Working, Finishing
<1>5. Knows(proc', Files)
  BY <1>2, <1>3, <1>4 DEF Knows, Fetching, Opening, Writing, Finishing, Deleting
<1> QED
  BY <1>0, <1>4, <1>5, QuietStep

-----------------------------------------------------------------------------
(* Writing                                                                 *)

\* What a process that writes may rely on.
LEMMA WhileWriting ==
  ASSUME ConversionInv, proc.pc \in Writing
  PROVE  /\ proc.pc \in Working /\ ~Through(Files) /\ Types
         /\ Files \in FilesSet /\ FilesInv(Files) /\ Knows(proc, Files)
         /\ Files.source /\ Files.ledger.exists /\ Files.ledger.source = version
         /\ Files.ledger.completed = proc.offsets /\ proc.offsets \in Seq(Nat)
         /\ Len(proc.offsets) \in Nat /\ version \in Nat
         /\ Files.partial # NoFile /\ Files.partial \in FileSet
         /\ Files.partial.state # "absent" /\ Files.partial.cells \in Seq(Nat \X Nat)
         /\ Len(Files.partial.cells) \in Nat
         /\ \A i \in 1..Len(proc.offsets) :
              /\ proc.offsets[i] \in 1..Len(Files.partial.cells)
              /\ Files.partial.cells[proc.offsets[i]] = Extent(i, version)
<1>1. proc.pc \in Working
  BY DEF Working
<1>2. Files \in FilesSet /\ FilesInv(Files) /\ Knows(proc, Files) /\ Types
  BY <1>1, Present DEF ConversionInv
<1>3. /\ Files.source /\ Files.ledger.exists /\ Files.ledger.source = version
      /\ Files.ledger.completed = proc.offsets /\ Files.partial # NoFile
  BY <1>2 DEF Knows
<1>4. proc.offsets \in Seq(Nat) /\ version \in Nat
  BY <1>2 DEF Types, ProcSet
<1>5. Files.partial \in FileSet
  BY <1>2 DEF FilesSet
<1>6. Files.partial.cells \in Seq(Nat \X Nat) /\ Files.partial.state # "absent"
  BY <1>2, <1>3, <1>5 DEF FileSet, FilesInv
<1>7. \A i \in 1..Len(proc.offsets) :
        /\ proc.offsets[i] \in 1..Len(Files.partial.cells)
        /\ Files.partial.cells[proc.offsets[i]] = Extent(i, version)
  BY <1>2, <1>3 DEF FilesInv, TrueLedger, Recorded
<1>8. Len(proc.offsets) \in Nat /\ Len(Files.partial.cells) \in Nat /\ ~Through(Files)
  BY <1>3, <1>4, <1>6 DEF Through
<1> QED
  BY <1>1, <1>2, <1>3, <1>4, <1>5, <1>6, <1>7, <1>8

\* A step that writes the partial file and keeps what is recorded of it.
LEMMA PartialStep ==
  ASSUME ConversionInv, proc.pc \in Writing,
         NEW file \in FileSet, file.state # "absent",
         \A i \in 1..Len(proc.offsets) :
            /\ proc.offsets[i] \in 1..Len(file.cells)
            /\ file.cells[proc.offsets[i]] = Extent(i, version),
         disk' = [disk EXCEPT ![Shard] = [Files EXCEPT !.partial = file]], OnlyFiles,
         NEW to \in Writing, proc' = [proc EXCEPT !.pc = to],
         to \in {"fill", "record", "superblock"} =>
            /\ file.cells # <<>>
            /\ \A i \in 1..Len(proc.offsets) : proc.offsets[i] < Len(file.cells),
         to = "record" =>
            file.cells[Len(file.cells)] = Extent(Len(proc.offsets) + 1, version),
         to \in {"superblock", "seal", "publish"} => Len(proc.offsets) = Extents,
         to \in {"seal", "publish"} =>
            file.source = version /\ file.records = proc.offsets,
         to = "publish" => file.state = "final"
  PROVE  ConversionInv'
<1> DEFINE f == [Files EXCEPT !.partial = file]
<1>1. /\ proc.pc \in Working /\ ~Through(Files) /\ Types
      /\ Files \in FilesSet /\ FilesInv(Files) /\ Files.source /\ Files.ledger.exists
      /\ Files.ledger.source = version /\ Files.ledger.completed = proc.offsets
  BY WhileWriting
<1>2. /\ f \in FilesSet /\ FilesInv(f) /\ f.partial = file /\ f.partial # NoFile
      /\ f.ledger = Files.ledger /\ f.source = Files.source
  <2>1. \A i \in 1..Len(Files.ledger.completed) :
           /\ Files.ledger.completed[i] \in 1..Len(file.cells)
           /\ file.cells[Files.ledger.completed[i]] = Extent(i, Files.ledger.source)
    BY <1>1
  <2>2. f = [Files EXCEPT !.partial = file]
    OBVIOUS
  <2> HIDE DEF f
  <2> QED
    BY <1>1, <2>1, <2>2, NewPartial, ZenonT(60)
<1>3. /\ proc' \in ProcSet /\ proc'.pc = to /\ proc'.at = proc.at
      /\ proc'.offsets = proc.offsets /\ to \in Working
  BY <1>1, GoesTo DEF Working
<1>4. Knows(proc', f)
  <2> HIDE DEF f
  <2> QED
    BY <1>1, <1>2, <1>3 DEF Knows, Fetching, Opening, Writing, Finishing, Deleting
<1>5. /\ disk' = [disk EXCEPT ![Shard] = f]
      /\ command' = command /\ version' = version /\ bundle' = bundle /\ made' \in Nat
  BY <1>1 DEF OnlyFiles, Elsewhere, Types
<1> HIDE DEF f
<1> QED
  BY <1>1, <1>2, <1>3, <1>4, <1>5, WorkStep

\* Room for an extent or for the directories is made behind what is there.
LEMMA BeginPreserves ==
  ASSUME ConversionInv, BeginExtent \/ BeginDirectories
  PROVE  ConversionInv'
<1> DEFINE cells == Append(Files.partial.cells, Torn)
           file == [Files.partial EXCEPT !.cells = cells]
<1>0. proc.pc = "extent" /\ proc.pc \in Writing
  BY DEF BeginExtent, BeginDirectories, Step, Writing
<1>1. PICK to \in {"fill", "superblock"} :
        /\ proc' = [proc EXCEPT !.pc = to]
        /\ to = "superblock" => Len(proc.offsets) = Extents
  BY DEF BeginExtent, BeginDirectories, Step, AllWritten
<1>2. /\ Files.partial \in FileSet /\ Files.partial.state # "absent"
      /\ Files.partial.cells \in Seq(Nat \X Nat) /\ Torn \in Nat \X Nat
      /\ \A i \in 1..Len(proc.offsets) :
           /\ proc.offsets[i] \in 1..Len(Files.partial.cells)
           /\ Files.partial.cells[proc.offsets[i]] = Extent(i, version)
  BY <1>0, WhileWriting DEF Torn
<1>3. /\ cells \in Seq(Nat \X Nat) /\ Len(cells) = Len(Files.partial.cells) + 1
      /\ cells # <<>> /\ Len(Files.partial.cells) \in Nat
      /\ \A i \in 1..Len(Files.partial.cells) : cells[i] = Files.partial.cells[i]
  BY <1>2, AppendCell, ZenonT(30)
<1>4. /\ file \in FileSet /\ file.cells = cells /\ file.state # "absent"
  <2> HIDE DEF cells
  <2> QED
    BY <1>2, <1>3 DEF FileSet
<1>5. \A i \in 1..Len(proc.offsets) :
        /\ proc.offsets[i] \in 1..Len(file.cells) /\ proc.offsets[i] < Len(file.cells)
        /\ file.cells[proc.offsets[i]] = Extent(i, version)
  <2> HIDE DEF cells, file
  <2> SUFFICES ASSUME NEW i \in 1..Len(proc.offsets)
               PROVE  /\ proc.offsets[i] \in 1..Len(file.cells)
                      /\ proc.offsets[i] < Len(file.cells)
                      /\ file.cells[proc.offsets[i]] = Extent(i, version)
    OBVIOUS
  <2>1. /\ proc.offsets[i] \in 1..Len(Files.partial.cells)
        /\ Files.partial.cells[proc.offsets[i]] = Extent(i, version)
    BY <1>2
  <2>2. cells[proc.offsets[i]] = Files.partial.cells[proc.offsets[i]]
    BY <1>3, <2>1
  <2>3. Len(file.cells) = Len(Files.partial.cells) + 1
    BY <1>3, <1>4
  <2>4. proc.offsets[i] \in 1..Len(file.cells) /\ proc.offsets[i] < Len(file.cells)
    BY <1>3, <2>1, <2>3, BeforeTheEnd
  <2> QED
    BY <1>4, <2>1, <2>2, <2>4
<1>6. disk' = [disk EXCEPT ![Shard] = [Files EXCEPT !.partial = file]] /\ OnlyFiles
  BY DEF BeginExtent, BeginDirectories, Appended, Write
<1>7. to \in Writing
  BY DEF Writing
<1> HIDE DEF cells, file
<1> QED
  BY <1>0, <1>1, <1>3, <1>4, <1>5, <1>6, <1>7, PartialStep

\* The extent is written where room was made, behind the recorded ones.
LEMMA FillPreserves ==
  ASSUME ConversionInv, FillExtent
  PROVE  ConversionInv'
<1> DEFINE n == Len(proc.offsets)
           old == Files.partial.cells
           cells == [old EXCEPT ![Len(old)] = Extent(n + 1, version)]
           file == [Files.partial EXCEPT !.cells = cells]
<1>0. /\ proc.pc = "fill" /\ proc.pc \in Writing /\ "record" \in Writing
      /\ proc' = [proc EXCEPT !.pc = "record"]
  BY DEF FillExtent, Step, Writing
<1>1. /\ Files.partial \in FileSet /\ Files.partial.state # "absent"
      /\ old \in Seq(Nat \X Nat) /\ Knows(proc, Files) /\ n \in Nat /\ version \in Nat
      /\ \A i \in 1..n : proc.offsets[i] \in 1..Len(old)
                         /\ old[proc.offsets[i]] = Extent(i, version)
  BY <1>0, WhileWriting
<1>2. old # <<>> /\ \A i \in 1..n : proc.offsets[i] < Len(old)
  BY <1>0, <1>1 DEF Knows
<1>3. Extent(n + 1, version) \in Nat \X Nat
  BY <1>1 DEF Extent
<1>4. /\ cells \in Seq(Nat \X Nat) /\ Len(cells) = Len(old) /\ cells # <<>>
      /\ cells[Len(old)] = Extent(n + 1, version)
      /\ \A i \in 1..Len(old) : i < Len(old) => cells[i] = old[i]
  <2> HIDE DEF old
  <2> QED
    BY <1>1, <1>2, <1>3, LastCell
<1>5. /\ file \in FileSet /\ file.cells = cells /\ file.state # "absent"
  <2> HIDE DEF cells
  <2> QED
    BY <1>1, <1>4 DEF FileSet
<1>6. \A i \in 1..n :
        /\ proc.offsets[i] \in 1..Len(file.cells) /\ proc.offsets[i] < Len(file.cells)
        /\ file.cells[proc.offsets[i]] = Extent(i, version)
  <2> HIDE DEF n, old, cells, file
  <2> QED
    BY <1>1, <1>2, <1>4, <1>5
<1>7. disk' = [disk EXCEPT ![Shard] = [Files EXCEPT !.partial = file]] /\ OnlyFiles
  BY DEF FillExtent, Filled, Write
<1>8. file.cells # <<>> /\ file.cells[Len(file.cells)] = Extent(n + 1, version)
  BY <1>4, <1>5
<1> HIDE DEF cells, file
<1> QED
  BY <1>0, <1>5, <1>6, <1>7, <1>8, PartialStep

\* The superblock is written over the directories, with the recorded offsets.
LEMMA SuperblockPreserves ==
  ASSUME ConversionInv, WriteSuperblock
  PROVE  ConversionInv'
<1> DEFINE n == Len(proc.offsets)
           old == Files.partial.cells
           cells == [old EXCEPT ![Len(old)] = Directory]
           file == [state |-> "provisional", cells |-> cells, uuid |-> proc.uuid,
                    source |-> version, records |-> proc.offsets]
<1>0. /\ proc.pc = "superblock" /\ proc.pc \in Writing /\ "seal" \in Writing
      /\ proc' = [proc EXCEPT !.pc = "seal"]
  BY DEF WriteSuperblock, Step, Writing
<1>1. /\ Files.partial \in FileSet /\ proc.offsets \in Seq(Nat)
      /\ old \in Seq(Nat \X Nat) /\ Knows(proc, Files) /\ n \in Nat /\ version \in Nat
      /\ proc.uuid \in Nat /\ Files \in FilesSet
      /\ \A i \in 1..n : proc.offsets[i] \in 1..Len(old)
                         /\ old[proc.offsets[i]] = Extent(i, version)
  BY <1>0, WhileWriting DEF Types, ProcSet
<1>2. /\ old # <<>> /\ n = Extents /\ \A i \in 1..n : proc.offsets[i] < Len(old)
  BY <1>0, <1>1 DEF Knows
<1>3. Directory \in Nat \X Nat
  BY DEF Directory
<1>4. /\ cells \in Seq(Nat \X Nat) /\ Len(cells) = Len(old)
      /\ \A i \in 1..Len(old) : i < Len(old) => cells[i] = old[i]
  <2> HIDE DEF old
  <2> QED
    BY <1>1, <1>2, <1>3, LastCell
<1>5. /\ file \in FileSet /\ file.cells = cells /\ file.state # "absent"
      /\ file.source = version /\ file.records = proc.offsets
  <2> HIDE DEF cells
  <2> QED
    BY <1>1, <1>4 DEF FileSet
<1>6. \A i \in 1..n :
        /\ proc.offsets[i] \in 1..Len(file.cells)
        /\ file.cells[proc.offsets[i]] = Extent(i, version)
  <2> HIDE DEF n, old, cells, file
  <2> QED
    BY <1>1, <1>2, <1>4, <1>5
<1>7. disk' = [disk EXCEPT ![Shard] = [Files EXCEPT !.partial = file]] /\ OnlyFiles
  <2>1. Filled(Directory).partial.cells = cells
    BY <1>1 DEF Filled, FilesSet, FileSet
  <2> HIDE DEF cells
  <2> QED
    BY <2>1 DEF WriteSuperblock, Write
<1> HIDE DEF cells, file
<1> QED
  BY <1>0, <1>2, <1>5, <1>6, <1>7, PartialStep

\* The file is declared final.
LEMMA SealPreserves ==
  ASSUME ConversionInv, Seal
  PROVE  ConversionInv'
<1> DEFINE file == [Files.partial EXCEPT !.state = "final"]
<1>0. /\ proc.pc = "seal" /\ proc.pc \in Writing /\ "publish" \in Writing
      /\ proc' = [proc EXCEPT !.pc = "publish"]
  BY DEF Seal, Step, Writing
<1>1. /\ Files.partial \in FileSet /\ Knows(proc, Files)
      /\ \A i \in 1..Len(proc.offsets) :
           /\ proc.offsets[i] \in 1..Len(Files.partial.cells)
           /\ Files.partial.cells[proc.offsets[i]] = Extent(i, version)
  BY <1>0, WhileWriting
<1>2. /\ Len(proc.offsets) = Extents /\ Files.partial.source = version
      /\ Files.partial.records = proc.offsets
  BY <1>0, <1>1 DEF Knows
<1>3. /\ file \in FileSet /\ file.cells = Files.partial.cells /\ file.state = "final"
      /\ file.source = version /\ file.records = proc.offsets
  BY <1>1, <1>2 DEF FileSet
<1>4. \A i \in 1..Len(proc.offsets) :
        /\ proc.offsets[i] \in 1..Len(file.cells)
        /\ file.cells[proc.offsets[i]] = Extent(i, version)
  <2> HIDE DEF file
  <2> QED
    BY <1>1, <1>3
<1>5. disk' = [disk EXCEPT ![Shard] = [Files EXCEPT !.partial = file]] /\ OnlyFiles
  BY DEF Seal, Write
<1>6. file.state # "absent"
  BY <1>3
<1> HIDE DEF file
<1> QED
  BY <1>0, <1>2, <1>3, <1>4, <1>5, <1>6, PartialStep

\* An offset appended behind the recorded ones.
LEMMA AppendOffset ==
  ASSUME NEW s \in Seq(Nat), NEW c \in Nat
  PROVE  /\ Append(s, c) \in Seq(Nat) /\ Len(Append(s, c)) = Len(s) + 1
         /\ Append(s, c)[Len(s) + 1] = c /\ Len(s) \in Nat
         /\ \A i \in 1..(Len(s) + 1) : i # Len(s) + 1 => i \in 1..Len(s)
         /\ \A i \in 1..Len(s) : Append(s, c)[i] = s[i]
OBVIOUS

\* What was written last is recorded.
LEMMA RecordPreserves ==
  ASSUME ConversionInv, RecordExtent
  PROVE  ConversionInv'
<1> DEFINE n == Len(proc.offsets)
           cells == Files.partial.cells
           offsets == Append(proc.offsets, Len(cells))
           ledger == [Files.ledger EXCEPT !.completed = offsets]
           f == [Files EXCEPT !.ledger = ledger]
<1>0. proc.pc = "record" /\ proc.pc \in Writing
  BY DEF RecordExtent, Writing
<1>1. /\ Files \in FilesSet /\ FilesInv(Files) /\ Knows(proc, Files) /\ Types
      /\ Files.source /\ Files.ledger.exists /\ Files.ledger.source = version
      /\ proc.offsets \in Seq(Nat) /\ Files.partial # NoFile
      /\ cells \in Seq(Nat \X Nat) /\ Len(cells) \in Nat
      /\ proc.pc \in Working /\ ~Through(Files)
      /\ \A i \in 1..n : proc.offsets[i] \in 1..Len(cells)
                         /\ cells[proc.offsets[i]] = Extent(i, version)
  BY <1>0, WhileWriting
<1>2. cells # <<>> /\ cells[Len(cells)] = Extent(n + 1, version)
  BY <1>0, <1>1 DEF Knows
<1>3. Len(cells) \in 1..Len(cells)
  <2>1. Len(cells) # 0
    BY <1>1, <1>2
  <2> QED
    BY <1>1, <2>1
<1>4. /\ offsets \in Seq(Nat) /\ Len(offsets) = n + 1 /\ offsets[n + 1] = Len(cells)
      /\ \A i \in 1..(n + 1) : i # n + 1 => i \in 1..n
      /\ \A i \in 1..n : offsets[i] = proc.offsets[i]
  BY <1>1, AppendOffset
<1>5. \A i \in 1..Len(offsets) : offsets[i] \in 1..Len(cells)
                                 /\ cells[offsets[i]] = Extent(i, version)
  <2> HIDE DEF offsets, cells, n
  <2> SUFFICES ASSUME NEW i \in 1..(n + 1)
               PROVE  offsets[i] \in 1..Len(cells) /\ cells[offsets[i]] = Extent(i, version)
    BY <1>4
  <2>1. CASE i = n + 1
    BY <1>2, <1>3, <1>4, <2>1, Zenon
  <2>2. CASE i # n + 1
    BY <1>1, <1>4, <2>2, Zenon DEF n, cells
  <2> QED
    BY <2>1, <2>2
<1>6. /\ ledger \in LedgerSet /\ ledger.completed = offsets /\ ledger.exists
      /\ ledger.source = version
  <2>1. Files.ledger \in LedgerSet
    BY <1>1 DEF FilesSet
  <2> HIDE DEF offsets
  <2> QED
    BY <1>1, <1>4, <2>1 DEF LedgerSet
<1>7. /\ f \in FilesSet /\ f.ledger = ledger /\ f.partial = Files.partial
      /\ f.output = Files.output /\ f.source = Files.source
  <2> HIDE DEF ledger
  <2> QED
    BY <1>1, <1>6 DEF FilesSet
<1>8. FilesInv(f)
  <2>1. Recorded(f) = Files.partial
    <3> HIDE DEF f
    <3> QED
      BY <1>1, <1>7 DEF Recorded
  <2>2. TrueLedger(f)
    <3> HIDE DEF f, ledger, offsets
    <3> QED
      BY <1>5, <1>6, <1>7, <2>1 DEF TrueLedger, cells
  <2> HIDE DEF f, ledger, offsets
  <2> QED
    BY <1>1, <1>6, <1>7, <2>2 DEF FilesInv
<1>9. /\ proc' \in ProcSet /\ proc'.pc = "extent" /\ proc'.at = proc.at
      /\ proc'.offsets = offsets /\ "extent" \in Working
  <2>1. proc' = [proc EXCEPT !.pc = "extent", !.offsets = offsets]
    BY DEF RecordExtent
  <2>2. "extent" \in Working
    BY DEF Working, Writing
  <2> HIDE DEF offsets
  <2> QED
    BY <1>1, <1>4, <2>1, <2>2 DEF Types, ProcSet
<1>10. Knows(proc', f)
  <2> HIDE DEF f, ledger, offsets, cells, n
  <2> QED
    BY <1>1, <1>6, <1>7, <1>9 DEF Knows, Fetching, Opening, Writing, Finishing, Deleting
<1>11. /\ disk' = [disk EXCEPT ![Shard] = f]
       /\ command' = command /\ version' = version /\ bundle' = bundle /\ made' \in Nat
  BY <1>1 DEF RecordExtent, Write, OnlyFiles, Elsewhere, Types
<1> HIDE DEF f, ledger, offsets, cells, n
<1> QED
  BY <1>1, <1>7, <1>8, <1>9, <1>10, <1>11, WorkStep

\* The partial file takes the final name: it is whole, and now the ledger
\* speaks of the artifact.
LEMMA PublishPreserves ==
  ASSUME ConversionInv, Publish
  PROVE  ConversionInv'
<1> DEFINE f == [Files EXCEPT !.output = Files.partial, !.partial = NoFile]
<1>0. proc.pc = "publish" /\ proc.pc \in Writing
  BY DEF Publish, Step, Writing
<1>1. /\ Files \in FilesSet /\ FilesInv(Files) /\ Knows(proc, Files) /\ Types
      /\ Files.source /\ Files.ledger.exists /\ Files.ledger.source = version
      /\ Files.ledger.completed = proc.offsets
      /\ Files.partial # NoFile /\ Files.partial \in FileSet
      /\ Files.partial.state # "absent" /\ proc.pc \in Working /\ ~Through(Files)
      /\ \A i \in 1..Len(proc.offsets) :
           /\ proc.offsets[i] \in 1..Len(Files.partial.cells)
           /\ Files.partial.cells[proc.offsets[i]] = Extent(i, version)
  BY <1>0, WhileWriting
<1>2. /\ Len(proc.offsets) = Extents /\ Files.partial.source = version
      /\ Files.partial.records = proc.offsets /\ Files.partial.state = "final"
  BY <1>0, <1>1 DEF Knows
<1>3. Sound(Files.partial)
  BY <1>1, <1>2 DEF Sound
<1>4. /\ f \in FilesSet /\ f.output = Files.partial /\ f.partial = NoFile
      /\ f.ledger = Files.ledger /\ f.source = Files.source
  <2>1. NoFile \in FileSet
    BY DEF NoFile, FileSet
  <2> QED
    BY <1>1, <2>1 DEF FilesSet
<1>5. FilesInv(f)
  <2> HIDE DEF f
  <2>1. Recorded(f) = Files.partial
    BY <1>4 DEF Recorded
  <2>2. TrueLedger(f)
    BY <1>1, <1>4, <2>1 DEF TrueLedger
  <2> QED
    BY <1>1, <1>3, <1>4, <2>2 DEF FilesInv
<1>6. PICK to \in {"sidecar", "unlink"} :
        proc' = [proc EXCEPT !.pc = to] /\ (to = "unlink" => ~Streams)
  BY DEF Publish, Step
<1>7. proc' \in ProcSet /\ proc'.pc = to /\ proc'.at = proc.at /\ to \in Working
  BY <1>1, <1>6, GoesTo DEF Working, Finishing
<1>8. Knows(proc', f)
  <2> HIDE DEF f
  <2> QED
    BY <1>1, <1>4, <1>6, <1>7 DEF Knows, Fetching, Opening, Writing, Finishing, Deleting
<1>9. /\ disk' = [disk EXCEPT ![Shard] = f]
      /\ command' = command /\ version' = version /\ bundle' = bundle /\ made' \in Nat
  BY <1>1 DEF Publish, Write, OnlyFiles, Elsewhere, Types
<1> HIDE DEF f
<1> QED
  BY <1>1, <1>4, <1>5, <1>7, <1>8, <1>9, WorkStep

-----------------------------------------------------------------------------
(* Behind the publication                                                  *)

\* What a process that finishes a shard may rely on.
LEMMA WhileFinishing ==
  ASSUME ConversionInv, proc.pc \in Finishing
  PROVE  /\ proc.pc \in Working /\ ~Through(Files) /\ Types
         /\ Files \in FilesSet /\ FilesInv(Files) /\ Knows(proc, Files)
         /\ Files.source /\ Files.output # NoFile
<1>1. proc.pc \in Working
  BY DEF Working
<1>2. Files \in FilesSet /\ FilesInv(Files) /\ Knows(proc, Files) /\ Types
  BY <1>1, Present DEF ConversionInv
<1>3. Files.source /\ Files.output # NoFile
  BY <1>2 DEF Knows
<1> QED
  BY <1>1, <1>2, <1>3 DEF Through

\* The sidecar, and the deletion marker, are written.
LEMMA NotesPreserve ==
  ASSUME ConversionInv, WriteSidecar \/ Mark
  PROVE  ConversionInv'
<1>0. /\ proc.pc = "sidecar" \/ proc.pc = "mark"
      /\ proc.pc \in Finishing
  BY DEF WriteSidecar, Mark, Step, Finishing, Deleting
<1>1. /\ proc.pc \in Working /\ ~Through(Files) /\ Types
      /\ Files \in FilesSet /\ FilesInv(Files) /\ Knows(proc, Files)
      /\ Files.source /\ Files.output # NoFile
  BY <1>0, WhileFinishing
<1>2. ASSUME NEW f \in FilesSet, disk' = [disk EXCEPT ![Shard] = f],
             f.partial = Files.partial, f.output = Files.output,
             f.ledger = Files.ledger, f.source = Files.source, OnlyFiles,
             NEW to \in Finishing, proc' = [proc EXCEPT !.pc = to], Knows(proc', f)
      PROVE  ConversionInv'
  <2>1. FilesInv(f)
    BY <1>1, <1>2 DEF FilesInv, TrueLedger, Recorded
  <2>2. proc' \in ProcSet /\ proc'.pc = to /\ proc'.at = proc.at /\ to \in Working
    BY <1>1, <1>2, GoesTo DEF Working
  <2>3. command' = command /\ version' = version /\ bundle' = bundle /\ made' \in Nat
    BY <1>1, <1>2 DEF OnlyFiles, Elsewhere, Types
  <2> QED
    BY <1>1, <1>2, <2>1, <2>2, <2>3, WorkStep
<1>3. CASE WriteSidecar
  <2> DEFINE f == [Files EXCEPT !.sidecar = TRUE]
  <2>1. /\ f \in FilesSet /\ f.partial = Files.partial /\ f.output = Files.output
        /\ f.ledger = Files.ledger /\ f.source = Files.source /\ f.sidecar
    BY <1>1 DEF FilesSet
  <2>2. /\ proc' = [proc EXCEPT !.pc = "unlink"] /\ "unlink" \in Finishing
        /\ disk' = [disk EXCEPT ![Shard] = f] /\ OnlyFiles
    BY <1>3 DEF WriteSidecar, Step, Write, Finishing
  <2>3. proc'.pc = "unlink"
    BY <1>1, <2>2 DEF Types, ProcSet
  <2> HIDE DEF f
  <2>4. Knows(proc', f)
    BY <1>1, <2>1, <2>3 DEF Knows, Fetching, Opening, Writing, Finishing, Deleting
  <2> QED
    BY <1>2, <2>1, <2>2, <2>4
<1>4. CASE Mark
  <2> DEFINE f == [Files EXCEPT !.marker = TRUE]
  <2>1. /\ f \in FilesSet /\ f.partial = Files.partial /\ f.output = Files.output
        /\ f.ledger = Files.ledger /\ f.source = Files.source /\ f.marker
        /\ f.sidecar = Files.sidecar
    BY <1>1 DEF FilesSet
  <2>2. /\ proc' = [proc EXCEPT !.pc = "delete"] /\ "delete" \in Finishing
        /\ disk' = [disk EXCEPT ![Shard] = f] /\ OnlyFiles /\ proc.pc = "mark"
    BY <1>4 DEF Mark, Step, Write, Finishing, Deleting
  <2>3. proc'.pc = "delete" /\ Files.sidecar /\ ~Files.ledger.exists /\ Streams
    BY <1>1, <2>2 DEF Types, ProcSet, Knows, Deleting
  <2> HIDE DEF f
  <2>4. Knows(proc', f)
    BY <1>1, <2>1, <2>3 DEF Knows, Fetching, Opening, Writing, Finishing, Deleting
  <2> QED
    BY <1>2, <2>1, <2>2, <2>4
<1> QED
  BY <1>3, <1>4

\* The artifact is verified; nothing is written.
LEMMA VerifyPreserves ==
  ASSUME ConversionInv, Verify
  PROVE  ConversionInv'
<1>0. /\ proc.pc = "verify" /\ proc.pc \in Finishing /\ "mark" \in Working
      /\ proc' = [proc EXCEPT !.pc = "mark"] /\ OnlyProcess
  BY DEF Verify, Step, Finishing, Deleting, Working
<1>1. /\ proc.pc \in Working /\ Types /\ Knows(proc, Files)
  BY <1>0, WhileFinishing
<1>2. proc' \in ProcSet /\ proc'.pc = "mark" /\ proc'.at = proc.at
  BY <1>0, <1>1, GoesTo
<1>3. Knows(proc', Files)
  BY <1>0, <1>1, <1>2 DEF Knows, Fetching, Opening, Writing, Finishing, Deleting
<1> QED
  BY <1>0, <1>1, <1>2, <1>3, QuietStep

\* The ledger goes when the artifact is published; k3x-convert is done then.
LEMMA UnlinkPreserves ==
  ASSUME ConversionInv, UnlinkLedger
  PROVE  ConversionInv'
<1> DEFINE f == [Files EXCEPT !.ledger = NoLedger]
<1>0. proc.pc = "unlink" /\ proc.pc \in Finishing
  BY DEF UnlinkLedger, Finishing
<1>1. /\ proc.pc \in Working /\ ~Through(Files) /\ Types
      /\ Files \in FilesSet /\ FilesInv(Files) /\ Knows(proc, Files)
      /\ Files.source /\ Files.output # NoFile
  BY <1>0, WhileFinishing
<1>2. /\ NoLedger \in LedgerSet /\ NoLedger.completed = <<>> /\ ~NoLedger.exists
  BY DEF NoLedger, LedgerSet
<1>3. /\ f \in FilesSet /\ f.partial = Files.partial /\ f.output = Files.output
      /\ f.ledger = NoLedger /\ f.source = Files.source /\ f.sidecar = Files.sidecar
  BY <1>1, <1>2 DEF FilesSet
<1>4. FilesInv(f)
  <2> HIDE DEF f
  <2> QED
    BY <1>1, <1>2, <1>3 DEF FilesInv, TrueLedger
<1>5. /\ disk' = [disk EXCEPT ![Shard] = f]
      /\ command' = command /\ version' = version /\ bundle' = bundle /\ made' \in Nat
  BY <1>1 DEF UnlinkLedger, Write, OnlyFiles, Elsewhere, Types
<1> HIDE DEF f
<1>6. CASE Streams
  <2>1. proc' = [proc EXCEPT !.pc = "verify"] /\ "verify" \in Working
    BY <1>6 DEF UnlinkLedger, Step, Working, Finishing, Deleting
  <2>2. proc' \in ProcSet /\ proc'.pc = "verify" /\ proc'.at = proc.at
    BY <1>1, <2>1, GoesTo
  <2>3. Files.sidecar
    BY <1>0, <1>1, <1>6 DEF Knows
  <2>4. Knows(proc', f)
    BY <1>1, <1>2, <1>3, <1>6, <2>2, <2>3
    DEF Knows, Fetching, Opening, Writing, Finishing, Deleting
  <2> QED
    BY <1>1, <1>3, <1>4, <1>5, <2>1, <2>2, <2>4, WorkStep
<1>7. CASE ~Streams
  <2>1. /\ proc' \in ProcSet /\ proc'.pc = "shard" /\ proc'.at = proc.at + 1
        /\ proc'.offsets = <<>>
    BY <1>1, <1>7, LeavesShard DEF UnlinkLedger
  <2> QED
    BY <1>1, <1>3, <1>4, <1>5, <1>7, <2>1, WorkStep
<1> QED
  BY <1>6, <1>7

\* The source goes last: the shard is through.
LEMMA DeletePreserves ==
  ASSUME ConversionInv, Delete
  PROVE  ConversionInv'
<1> DEFINE f == [Files EXCEPT !.source = FALSE]
<1>0. proc.pc = "delete" /\ proc.pc \in Finishing
  BY DEF Delete, Finishing, Deleting
<1>1. /\ proc.pc \in Working /\ ~Through(Files) /\ Types
      /\ Files \in FilesSet /\ FilesInv(Files) /\ Knows(proc, Files)
      /\ Files.source /\ Files.output # NoFile
  BY <1>0, WhileFinishing
<1>2. Files.marker
  BY <1>0, <1>1 DEF Knows
<1>3. /\ f \in FilesSet /\ f.partial = Files.partial /\ f.output = Files.output
      /\ f.ledger = Files.ledger /\ ~f.source /\ f.marker
  BY <1>1, <1>2 DEF FilesSet
<1>4. /\ disk' = [disk EXCEPT ![Shard] = f]
      /\ command' = command /\ version' = version /\ bundle' = bundle /\ made' \in Nat
  BY <1>1 DEF Delete, Write, OnlyFiles, Elsewhere, Types
<1> HIDE DEF f
<1>5. FilesInv(f)
  BY <1>1, <1>3 DEF FilesInv, TrueLedger, Recorded
<1>6. Through(f)
  BY <1>1, <1>3 DEF Through, Marked
<1>7. /\ proc' \in ProcSet /\ proc'.pc = "shard" /\ proc'.at = proc.at + 1
      /\ proc'.offsets = <<>>
  BY <1>1, LeavesShard DEF Delete
<1> QED
  BY <1>1, <1>3, <1>4, <1>5, <1>6, <1>7, WorkStep

\* A stream that has been through all shards finds an artifact of each.
LEMMA FinishPreserves ==
  ASSUME ConversionInv, Finish
  PROVE  ConversionInv'
<1>1. proc.pc = "shard" /\ NoneLeft /\ Types
  BY DEF Finish, ConversionInv
<1>2. CASE Fails("EXPERT_BUNDLE_SIDECAR_MISSING") /\ bundle' = bundle
  <2>1. proc' \in ProcSet /\ proc'.pc = "failed"
    BY <1>1, <1>2, LeavesShard DEF Errors
  <2> QED
    BY <1>1, <1>2, <2>1, RestStep DEF Finish, Types
<1>3. CASE /\ proc' = [proc EXCEPT !.pc = "done"]
           /\ bundle' = IF Streams THEN Artifacts ELSE {}
  <2>1. proc' \in ProcSet /\ proc'.pc = "done"
    BY <1>1, <1>3, GoesTo DEF Resting
  <2>2. Types' /\ \A s \in Shards : FilesInv(disk'[s])
    BY <2>1 DEF Finish, ConversionInv, Types
  <2>3. AtWork' /\ Progress' /\ Unwritten'
    BY <2>1 DEF AtWork, Progress, Unwritten,
                Working, Fetching, Opening, Writing, Finishing, Deleting
  <2>4. BundleThrough'
    <3>1. CASE Streams
      <4>1. \A i \in 1..Len(Plan) : Through(disk[Plan[i]])
        <5>1. proc.at \in Nat /\ proc.at > Len(Plan) /\ Len(Plan) \in Nat
          BY <1>1, PlanIs DEF Types, ProcSet, NoneLeft
        <5>2. \A i \in 1..Len(Plan) : i < proc.at
          BY <5>1
        <5> QED
          BY <1>1, <3>1, <5>2 DEF ConversionInv, Progress
      <4>2. \A s \in Shards : Through(disk[s])
        BY <3>1, <4>1, PlanIs
      <4>3. Artifacts = Shards
        BY <4>2 DEF Artifacts, Through, Marked
      <4> QED
        BY <1>3, <3>1, <4>2, <4>3 DEF Finish, BundleThrough
    <3>2. CASE ~Streams
      BY <1>3, <3>2 DEF BundleThrough
    <3> QED
      BY <3>1, <3>2
  <2> QED
    BY <2>2, <2>3, <2>4 DEF ConversionInv
<1> QED
  BY <1>2, <1>3 DEF Finish

-----------------------------------------------------------------------------
(* The theorems                                                            *)

\* Nothing has been made, and only k3x-convert has its source at hand.
LEMMA ConversionInitInv ==
  ASSUME Init
  PROVE  ConversionInv
<1> DEFINE new == [NoFiles EXCEPT !.source = ~Streams]
<1>1. /\ proc = NoProcess /\ bundle = {} /\ version = 1 /\ made = 0
      /\ disk = [s \in Shards |-> new]
  BY DEF Init
<1>2. NoFiles \in FilesSet /\ NoFiles.partial = NoFile /\ NoFiles.output = NoFile
      /\ NoFiles.ledger = NoLedger
  BY DEF NoFiles, NoFile, NoLedger, FilesSet, FileSet, LedgerSet
<1>3. new \in FilesSet /\ new.partial = NoFile /\ new.output = NoFile
      /\ new.ledger = NoLedger
  BY <1>2 DEF FilesSet, Streams
<1> HIDE DEF new
<1>4. FilesInv(new)
  <2>1. NoLedger.completed = <<>> /\ Len(NoLedger.completed) = 0
    BY DEF NoLedger
  <2> QED
    BY <1>3, <2>1 DEF FilesInv, TrueLedger
<1>5. NoProcess \in ProcSet /\ NoProcess.pc = "idle"
  BY DEF NoProcess, ProcSet, Resting
<1>6. Types /\ \A s \in Shards : FilesInv(disk[s])
  BY <1>1, <1>3, <1>4, <1>5 DEF Types
<1>7. AtWork /\ Unwritten /\ Progress /\ BundleThrough
  BY <1>1, <1>5 DEF AtWork, Unwritten, Progress, BundleThrough,
                    Working, Fetching, Opening, Writing, Finishing, Deleting
<1> QED
  BY <1>6, <1>7 DEF ConversionInv

\* Every step of the command, of the killer and of the editor.
LEMMA ConversionStepInv ==
  ASSUME ConversionInv, [Next]_vars
  PROVE  ConversionInv'
<1>1. CASE Start \/ Crash \/ EditSource
  BY <1>1, RestPreserves
<1>2. CASE TakeShard
  BY <1>2, TakePreserves
<1>3. CASE Request \/ RequestWhole \/ Fetch \/ KeepDownload
  BY <1>3, DownloadPreserves
<1>4. CASE ConvertShard \/ OpenRefused
  BY <1>4, DecidePreserves
<1>5. CASE OpenNew
  BY <1>5, NewPreserves
<1>6. CASE CreateLedger
  BY <1>6, LedgerPreserves
<1>7. CASE OpenPartial
  BY <1>7, ResumePreserves
<1>8. CASE OpenFinal
  BY <1>8, OpenFinalPreserves
<1>9. CASE BeginExtent \/ BeginDirectories
  BY <1>9, BeginPreserves
<1>10. CASE FillExtent
  BY <1>10, FillPreserves
<1>11. CASE RecordExtent
  BY <1>11, RecordPreserves
<1>12. CASE WriteSuperblock
  BY <1>12, SuperblockPreserves
<1>13. CASE Seal
  BY <1>13, SealPreserves
<1>14. CASE Publish
  BY <1>14, PublishPreserves
<1>15. CASE WriteSidecar \/ Mark
  BY <1>15, NotesPreserve
<1>16. CASE UnlinkLedger
  BY <1>16, UnlinkPreserves
<1>17. CASE Verify
  BY <1>17, VerifyPreserves
<1>18. CASE Delete
  BY <1>18, DeletePreserves
<1>19. CASE Finish
  BY <1>19, FinishPreserves
<1>20. CASE UNCHANGED vars
  <2>1. UNCHANGED <<disk, version, made, proc, bundle, Plan, Streams>>
    BY <1>20 DEF vars, Plan, Streams
  <2>2. Types' /\ Unwritten' /\ \A s \in Shards : FilesInv(disk[s])'
    BY <2>1 DEF ConversionInv, Types, Unwritten
  <2>3. AtWork'
    BY <2>1 DEF ConversionInv, AtWork, Knows
  <2>4. Progress' /\ BundleThrough'
    BY <2>1 DEF ConversionInv, Progress, BundleThrough
  <2> QED
    BY <2>2, <2>3, <2>4 DEF ConversionInv
<1> QED
  BY <1>1, <1>2, <1>3, <1>4, <1>5, <1>6, <1>7, <1>8, <1>9, <1>10, <1>11, <1>12, <1>13,
     <1>14, <1>15, <1>16, <1>17, <1>18, <1>19, <1>20 DEF Next, ProcessStep

\* The files a step that is not Delete writes have their source if they had it.
LEMMA KeepsSource ==
  ASSUME ConversionInv, [Next]_vars, ~Delete, NEW s \in Shards, disk[s].source
  PROVE  disk'[s].source
<1>1. disk \in [Shards -> FilesSet] /\ disk[s] \in FilesSet
  BY DEF ConversionInv, Types
<1>2. ASSUME NEW f, Write(f), f.source = Files.source \/ f.source
      PROVE  disk'[s].source
  BY <1>1, <1>2 DEF Write, Files
<1>3. CASE disk' = disk
  BY <1>3
<1>4. CASE proc.pc \in Working
  <2>1. Files \in FilesSet
    BY <1>4, Present
  <2>2. CASE RequestWhole \/ Fetch
    <3>1. PICK n : Write([Files EXCEPT !.part = n])
      BY <2>2 DEF RequestWhole, Fetch
    <3>2. [Files EXCEPT !.part = n].source = Files.source
      BY <2>1 DEF FilesSet
    <3> QED
      BY <1>2, <3>1, <3>2
  <2>3. CASE KeepDownload
    <3>1. [Files EXCEPT !.part = 0, !.source = TRUE].source
      BY <2>1 DEF FilesSet
    <3> QED
      BY <1>2, <2>3, <3>1 DEF KeepDownload
  <2>4. CASE OpenNew \/ OpenPartial \/ BeginExtent \/ FillExtent \/ BeginDirectories
             \/ WriteSuperblock \/ Seal
    <3>1. PICK p : Write([Files EXCEPT !.partial = p])
      BY <2>4 DEF OpenNew, OpenPartial, BeginExtent, FillExtent, BeginDirectories,
                  WriteSuperblock, Seal, Appended, Filled
    <3>2. [Files EXCEPT !.partial = p].source = Files.source
      BY <2>1 DEF FilesSet
    <3> QED
      BY <1>2, <3>1, <3>2
  <2>5. CASE CreateLedger \/ RecordExtent \/ UnlinkLedger
    <3>1. PICK l : Write([Files EXCEPT !.ledger = l])
      BY <2>5 DEF CreateLedger, RecordExtent, UnlinkLedger
    <3>2. [Files EXCEPT !.ledger = l].source = Files.source
      BY <2>1 DEF FilesSet
    <3> QED
      BY <1>2, <3>1, <3>2
  <2>6. CASE Publish
    <3>1. [Files EXCEPT !.output = Files.partial, !.partial = NoFile].source
             = Files.source
      BY <2>1 DEF FilesSet
    <3> QED
      BY <1>2, <2>6, <3>1 DEF Publish
  <2>7. CASE WriteSidecar \/ Mark
    <3>1. /\ [Files EXCEPT !.sidecar = TRUE].source = Files.source
          /\ [Files EXCEPT !.marker = TRUE].source = Files.source
      BY <2>1 DEF FilesSet
    <3> QED
      BY <1>2, <2>7, <3>1 DEF WriteSidecar, Mark
  <2> QED
    BY <1>3, <2>2, <2>3, <2>4, <2>5, <2>6, <2>7
    DEF Next, vars, ProcessStep, Start, Crash, EditSource, TakeShard, Request,
        ConvertShard, OpenRefused, OpenFinal, Verify, Finish, OnlyProcess
<1>5. CASE proc.pc \notin Working
  <2>1. UNCHANGED vars \/ Start \/ Crash \/ EditSource \/ TakeShard \/ Finish
    BY <1>5 DEF Next, ProcessStep, Step, Working, Fetching, Opening, Writing, Finishing,
                Deleting, Request, RequestWhole, Fetch, KeepDownload, ConvertShard,
                OpenRefused, OpenNew, CreateLedger, OpenPartial, OpenFinal, BeginExtent,
                FillExtent, RecordExtent, BeginDirectories, WriteSuperblock, Seal,
                Publish, WriteSidecar, UnlinkLedger, Verify, Mark, Delete
  <2> QED
    BY <1>3, <2>1 DEF vars, Start, Crash, EditSource, TakeShard, Finish, OnlyProcess
<1> QED
  BY <1>4, <1>5

\* A shard whose source Delete removes has all that was made of it.
LEMMA DeletedSafely ==
  ASSUME ConversionInv, Delete, NEW s \in Shards, disk[s].source, ~disk'[s].source
  PROVE  /\ Marked(disk'[s]) /\ disk'[s].sidecar /\ Sound(disk'[s].output)
         /\ ~disk'[s].ledger.exists
<1> DEFINE f == [Files EXCEPT !.source = FALSE]
<1>1. proc.pc = "delete" /\ proc.pc \in Finishing /\ proc.pc \in Working
  BY DEF Delete, Finishing, Deleting, Working
<1>2. /\ Files \in FilesSet /\ FilesInv(Files) /\ Knows(proc, Files) /\ Shard \in Shards
  BY <1>1, Present
<1>3. /\ Files.output # NoFile /\ Files.marker /\ Files.sidecar /\ ~Files.ledger.exists
      /\ Sound(Files.output)
  BY <1>1, <1>2 DEF Knows, Deleting, FilesInv
<1>4. /\ f.output = Files.output /\ f.marker = Files.marker /\ f.sidecar = Files.sidecar
      /\ f.ledger = Files.ledger
  BY <1>2 DEF FilesSet
<1> HIDE DEF f
<1>5. disk \in [Shards -> FilesSet] /\ disk' = [disk EXCEPT ![Shard] = f]
  BY DEF Delete, Write, ConversionInv, Types, f
<1>6. s = Shard /\ disk'[s] = f
  BY <1>2, <1>5
<1> QED
  BY <1>3, <1>4, <1>6 DEF Marked

\* Whatever is killed and run again, the invariant of the conversions holds.
THEOREM ConversionInvariant == Spec => []ConversionInv
<1>1. Init => ConversionInv
  BY ConversionInitInv
<1>2. ConversionInv /\ [Next]_vars => ConversionInv'
  BY ConversionStepInv
<1> QED
  BY <1>1, <1>2, PTL DEF Spec

\* The ledger never records what is not on disk: of any plan, killed and
\* resumed any number of times, over any number of replaced sources.
THEOREM LedgerIsTrueCorrect == Spec => []LedgerIsTrue
<1>1. ConversionInv => LedgerIsTrue
  <2> SUFFICES ASSUME ConversionInv, NEW s \in Shards,
                      NEW i \in 1..Len(disk[s].ledger.completed)
               PROVE  /\ disk[s].ledger.completed[i] <= Len(Recorded(disk[s]).cells)
                      /\ Recorded(disk[s]).cells[disk[s].ledger.completed[i]]
                            = Extent(i, disk[s].ledger.source)
    BY DEF LedgerIsTrue, Recorded
  <2>1. disk[s] \in FilesSet /\ TrueLedger(disk[s])
    BY DEF ConversionInv, Types, FilesInv
  <2>2. Recorded(disk[s]) \in FileSet
    BY <2>1 DEF FilesSet, Recorded
  <2>3. Recorded(disk[s]).cells \in Seq(Nat \X Nat)
    BY <2>2 DEF FileSet
  <2>4. Len(Recorded(disk[s]).cells) \in Nat
    BY <2>3
  <2>5. /\ disk[s].ledger.completed[i] \in 1..Len(Recorded(disk[s]).cells)
        /\ Recorded(disk[s]).cells[disk[s].ledger.completed[i]]
              = Extent(i, disk[s].ledger.source)
    BY <2>1 DEF TrueLedger
  <2> QED
    BY <2>4, <2>5
<1> QED
  BY <1>1, ConversionInvariant, PTL

\* No artifact with a hole, a torn extent or extents of two sources is ever
\* found under its final name.
THEOREM PublishedIsWholeCorrect == Spec => []PublishedIsWhole
<1>1. ConversionInv => PublishedIsWhole
  BY DEF ConversionInv, PublishedIsWhole, FilesInv
<1> QED
  BY <1>1, ConversionInvariant, PTL

\* The bundle names all shards, and each was verified before its source went.
THEOREM BundleIsVerifiedCorrect == Spec => []BundleIsVerified
<1>1. ConversionInv => BundleIsVerified
  BY DEF ConversionInv, BundleThrough, BundleIsVerified, Through
<1> QED
  BY <1>1, ConversionInvariant, PTL

\* A source that was there and is there no more was deleted by a process that
\* had published, verified and marked the artifact.
THEOREM DeletionIsSafeCorrect == Spec => DeletionIsSafe
<1> DEFINE Safe == \A s \in Shards :
              disk[s].source /\ ~disk'[s].source =>
                 /\ Marked(disk'[s]) /\ disk'[s].sidecar /\ Sound(disk'[s].output)
                 /\ ~disk'[s].ledger.exists
<1>1. ConversionInv /\ [Next]_vars => [Safe]_vars
  <2> SUFFICES ASSUME ConversionInv, [Next]_vars, NEW s \in Shards,
                      disk[s].source, ~disk'[s].source
               PROVE  /\ Marked(disk'[s]) /\ disk'[s].sidecar /\ Sound(disk'[s].output)
                      /\ ~disk'[s].ledger.exists
    OBVIOUS
  <2>1. Delete
    BY KeepsSource
  <2> QED
    BY <2>1, DeletedSafely
<1> QED
  BY <1>1, ConversionInvariant, PTL DEF Spec, DeletionIsSafe
=============================================================================
