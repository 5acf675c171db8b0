------------------------------- MODULE DBImpl -------------------------------
(***************************************************************************)
(* The LevelDB store (Pods/leveldb-library, db/db_impl.cc) that            *)
(* FirebaseDatabase keeps its cache in when persistence is turned on.      *)
(*                                                                         *)
(* Writers queue; the one in front writes the log and the memtable for a   *)
(* group of them, without the mutex.  A full memtable is made immutable    *)
(* and a background thread writes it to a table; the same thread merges    *)
(* tables into the next level.  Readers go without the mutex over what     *)
(* they took a reference to.  A crash leaves the files, and opening the    *)
(* store again replays the logs.                                           *)
(*                                                                         *)
(* An action is what a thread does between taking the mutex and letting it *)
(* go, or what it does in between without it.                              *)
(*                                                                         *)
(* References to versions and memtables are the places that hold them: the *)
(* current version, the inputs of a compaction, a reader.  A memtable goes *)
(* by the number of the log that was begun with it.  CURRENT, the lock     *)
(* file and the names of MANIFEST files are left out: manifest is what a   *)
(* recovery would read.  The 1 ms a writer sleeps when level 0 grows is a  *)
(* stutter.  The compactions a user asks for (CompactRange) and the closing *)
(* of the store, which FirebaseDatabase never does while it works, are not *)
(* modelled, nor are tables that the disk spoils.                          *)
(***************************************************************************)
EXTENDS VersionSet, LogFile

CONSTANTS
  Keys,         \* the user keys, natural numbers
  Batches,      \* the batches writers bring: sequences of [key, del]
  Syncs,        \* the values of WriteOptions::sync used
  Snapshots,    \* the snapshots there can be at a time
  Readers,      \* the Gets and iterators there can be at a time
  MemLimit,     \* options.write_buffer_size, in entries
  L0Stop,       \* config::kL0_StopWritesTrigger
  MaxGroup,     \* the entries a group may have (max_size in BuildBatchGroup)
  MaxQueue,     \* bound: writers at a time
  MaxWrites,    \* bound: batches written
  MaxReads,     \* bound: readers and snapshots made
  MaxCrashes,   \* bound: crashes
  CrashKinds,   \* among "process" and "machine"
  MaxFaults,    \* bound: calls to the disk that fail
  Faults        \* which: "newlog", "append", "sync", "table", "manifest"

ASSUME DBAssumption ==
  /\ Keys \subseteq Nat /\ IsFiniteSet(Keys)
  /\ {MemLimit, L0Stop, MaxGroup, MaxQueue} \subseteq Nat \ {0}
  /\ {MaxWrites, MaxReads, MaxCrashes, MaxFaults} \subseteq Nat
  /\ CrashKinds \subseteq {"process", "machine"}

ASSUME BatchesAssumption == Batches \subseteq Seq([key : Keys, del : BOOLEAN])

VARIABLES
  tables,     \* the table files: number -> entries
  logs,       \* the log files: number -> LogFile
  manifest,   \* what MANIFEST says: version, log, next file, last sequence
  phase,      \* "down", "recovering", "committed" or "open"
  memtables,  \* number -> entries, of the memtables somebody refers to
  mem,        \* mem_ and logfile_number_
  imm,        \* imm_, or NoFile
  current,    \* versions_->current()
  logNumber,  \* versions_->LogNumber()
  nextFile,   \* next_file_number_
  lastSequence,  \* last_sequence_
  seekFile,   \* file_to_compact_ of the current version
  pending,    \* pending_outputs_
  writers,    \* writers_
  group,      \* the batch group being written, or NoGroup
  snaps,      \* snapshot -> its number, of those not released
  readers,    \* reader -> what it refers to, of those under way
  bg,         \* where the background thread is
  edit,       \* the version edit being logged, or NoEdit
  scheduled,  \* bg_compaction_scheduled_
  bgError,    \* bg_error_ is set
  done,       \* ghost: the batches the store consists of
  limbo,      \* ghost: the batches begun and not acknowledged
  issued, reads, crashes, faults   \* counted for the bounds

disk    == <<tables, logs, manifest>>
version == <<current, logNumber, seekFile>>
mems    == <<memtables, mem, imm>>
held    == <<snaps, readers>>
back    == <<bg, edit, scheduled>>
ghosts  == <<done, limbo>>
counts  == <<issued, reads, crashes, faults>>
vars == <<disk, phase, mems, version, nextFile, lastSequence, pending, writers, group, held,
          back, bgError, ghosts, counts>>

NoFile  == 0
NoGroup == [stage |-> "none"]
NoEdit  == [kind |-> "none"]
Idle    == [pc |-> "idle", out |-> NoFile, comp |-> {}]

InManifest(v, log, next, seq) == [version |-> v, log |-> log, next |-> next, seq |-> seq]

Fault(kind) == kind \in Faults /\ faults < MaxFaults /\ faults' = faults + 1

NoFault == faults' = faults

\* MemTable::ApproximateMemoryUsage has passed the limit.
Full(ents) == Cardinality(ents) >= MemLimit

-----------------------------------------------------------------------------
(* The background thread is asked for.                                     *)

\* Mutant: a switch of memtables while nothing else is to do asks nobody.
ScheduleForFilesOnly(was, im, v, seek) ==
  was \/ (~bgError /\ NeedsCompaction(v, seek))

\* MaybeScheduleCompaction.
MaybeSchedule(was, im, v, seek) ==
  was \/ (~bgError /\ (im # NoFile \/ NeedsCompaction(v, seek)))

-----------------------------------------------------------------------------
(* Files.                                                                  *)

\* AddLiveFiles: the files of every version somebody refers to.
LiveFiles(v, comp) ==
  FileNumbers(v) \cup (UNION {FileNumbers(c.base) : c \in comp})
                 \cup (UNION {FileNumbers(readers[r].version) : r \in DOMAIN readers})

\* Mutant: after an error too.
DeleteAfterError(err, v, pend, comp, log) ==
  /\ tables' = Restrict(tables, DOMAIN tables \cap (pend \cup LiveFiles(v, comp)))
  /\ logs'   = Restrict(logs, {n \in DOMAIN logs : n >= log})

\* DeleteObsoleteFiles, when v is current and log the oldest log needed.
\* After an error nothing is deleted: MANIFEST may say either.
DeleteObsoleteFiles(err, v, pend, comp, log) ==
  IF err THEN UNCHANGED <<tables, logs>>
  ELSE /\ tables' = Restrict(tables, DOMAIN tables \cap (pend \cup LiveFiles(v, comp)))
       /\ logs'   = Restrict(logs, {n \in DOMAIN logs : n >= log})

Referred(ms) == Restrict(memtables, DOMAIN memtables \cap ms)

HeldMemtables(rs) == {rs[r].mem : r \in DOMAIN rs} \cup {rs[r].imm : r \in DOMAIN rs}

-----------------------------------------------------------------------------
(* Writers.                                                                *)

\* Write: a writer takes its place in the queue.
Write(batch, sync) ==
  /\ phase = "open"
  /\ Len(writers) < MaxQueue /\ issued < MaxWrites
  /\ issued' = issued + 1
  /\ writers' = Append(writers, [batch |-> batch, sync |-> sync, id |-> issued'])
  /\ UNCHANGED <<disk, phase, mems, version, nextFile, lastSequence, pending, group, held,
                 back, bgError, ghosts, reads, crashes, faults>>

\* MakeRoomForWrite when a new log and a memtable are called for and may be had.
MustSwitch == Full(memtables[mem]) /\ imm = NoFile /\ Cardinality(current[0]) < L0Stop

SwitchMemTable ==
  /\ MustSwitch
  /\ logs' = Bind(logs, nextFile, NewLog)
  /\ memtables' = Bind(memtables, nextFile, {})
  /\ mem' = nextFile /\ imm' = mem
  /\ nextFile' = nextFile + 1
  /\ scheduled' = MaybeSchedule(scheduled, imm', current, seekFile)

\* MakeRoomForWrite when it lets the front writer go on.  When the memtable
\* is full and the one before is still there, or level 0 has too many
\* files, the writer waits for the background thread.
MakeRoomForWrite ==
  /\ ~bgError
  /\ \/ ~Full(memtables[mem]) /\ UNCHANGED <<logs, mems, nextFile, scheduled>>
     \/ SwitchMemTable

\* Mutant: a synced write joins a group that is not synced.
GroupSizeAnySync ==
  LET Entries(n) == SumFunctionOnSet([i \in 1 .. Len(writers) |-> Len(writers[i].batch)], 1 .. n)
  IN  Max({n \in 1 .. Len(writers) : \A i \in 2 .. n : Entries(i) <= MaxGroup})

\* BuildBatchGroup: how many writers the front one writes for.  It takes
\* no synced write into a group that is not, nor more than MaxGroup.
GroupSize ==
  LET Entries(n) == SumFunctionOnSet([i \in 1 .. Len(writers) |-> Len(writers[i].batch)], 1 .. n)
      Joins(n)   == /\ writers[n].sync => writers[1].sync
                    /\ Entries(n) <= MaxGroup
  IN  Max({n \in 1 .. Len(writers) : \A i \in 2 .. n : Joins(i)})

\* The entries of the first n writers, numbered from the last sequence number.
GroupRecord(n) ==
  LET ops == FlattenSeq([i \in 1 .. n |->
               [j \in DOMAIN writers[i].batch |->
                  [key |-> writers[i].batch[j].key,
                   val |-> IF writers[i].batch[j].del THEN Deleted ELSE writers[i].id]]])
  IN  [j \in DOMAIN ops |-> Entry(ops[j].key, lastSequence + j, ops[j].val)]

\* The front writer makes room and gathers its group.
BeginGroup ==
  /\ phase = "open" /\ writers # <<>> /\ group = NoGroup
  /\ MakeRoomForWrite
  /\ LET n == GroupSize
         r == [rec |-> GroupRecord(n), sync |-> \E i \in 1 .. n : writers[i].sync,
               log |-> mem', risky |-> logs'[mem'].damaged]
     IN  /\ group' = [stage |-> "log", n |-> n, sync |-> writers[1].sync, batch |-> r]
         /\ limbo' = limbo \cup {r}
  /\ UNCHANGED <<tables, manifest, phase, version, lastSequence, pending, writers, held,
                 bg, edit, bgError, done, counts>>

\* A writer who finds the store in error, or no new log to be had, is answered
\* with it: only the writer in front.
FailFront ==
  /\ phase = "open" /\ writers # <<>> /\ group = NoGroup
  /\ \/ bgError /\ NoFault
     \/ ~bgError /\ MustSwitch /\ Fault("newlog")
  /\ writers' = Tail(writers)
  /\ UNCHANGED <<disk, phase, mems, version, nextFile, lastSequence, pending, group, held,
                 back, bgError, ghosts, issued, reads, crashes>>

Stage(s) == group' = [group EXCEPT !.stage = s]

\* log_->AddRecord and, when asked for, logfile_->Sync.
LogGroup ==
  /\ group.stage = "log"
  /\ \/ /\ logs' = [logs EXCEPT ![mem] = LET l == Appended(logs[mem], group.batch.rec)
                                         IN  IF group.sync THEN Synced(l) ELSE l]
        /\ Stage("insert") /\ NoFault
     \/ /\ Fault("append")
        /\ \E l \in Torn(logs[mem], group.batch.rec) : logs' = [logs EXCEPT ![mem] = l]
        /\ Stage("failed")
     \/ /\ group.sync /\ Fault("sync")
        /\ logs' = [logs EXCEPT ![mem] = Appended(logs[mem], group.batch.rec)]
        /\ Stage("unsynced")
  /\ UNCHANGED <<tables, manifest, phase, mems, version, nextFile, lastSequence, pending,
                 writers, held, back, bgError, ghosts, issued, reads, crashes>>

\* WriteBatchInternal::InsertInto, still without the mutex.
InsertGroup ==
  /\ group.stage = "insert"
  /\ memtables' = [memtables EXCEPT ![mem] = @ \cup ToSet(group.batch.rec)]
  /\ Stage("finish")
  /\ UNCHANGED <<disk, phase, mem, imm, version, nextFile, lastSequence, pending, writers, held,
                 back, bgError, ghosts, counts>>

\* Mutant: the numbers of a group that failed are given again.
LastSequenceIfWritten == lastSequence + IF group.stage = "finish" THEN Len(group.batch.rec) ELSE 0

LastSequenceOfGroup == lastSequence + Len(group.batch.rec)

\* The writers of the group are answered.  The sequence numbers are used
\* up whether it was written or not; a failed Sync stops every write to come.
FinishGroup ==
  /\ group.stage \in {"finish", "failed", "unsynced"}
  /\ lastSequence' = LastSequenceOfGroup
  /\ writers' = SubSeq(writers, group.n + 1, Len(writers))
  /\ group' = NoGroup
  /\ bgError' = (bgError \/ group.stage = "unsynced")
  /\ IF group.stage = "finish"
       THEN done' = done \cup {group.batch} /\ limbo' = limbo \ {group.batch}
       ELSE UNCHANGED ghosts
  /\ UNCHANGED <<disk, phase, mems, version, nextFile, pending, held, back, counts>>

WriterStep == BeginGroup \/ FailFront \/ LogGroup \/ InsertGroup \/ FinishGroup

-----------------------------------------------------------------------------
(* The background thread.                                                  *)

\* The thread is done: it is asked for again when there is more to do.
EndCall(im, v, seek, err) ==
  /\ bg' = Idle /\ edit' = NoEdit
  /\ scheduled' = (~err /\ MaybeSchedule(FALSE, im, v, seek))

\* Mutant: the thread is done after any flush.
EndFlushDone(im, v, seek, err) == EndCall(im, v, seek, err)

\* The flush is over: the thread goes on with its compaction, or is done.
EndFlush(im, v, seek, err) ==
  IF bg.comp = {} THEN EndCall(im, v, seek, err)
  ELSE /\ bg' = [bg EXCEPT !.pc = "compact", !.out = NoFile]
       /\ edit' = NoEdit
       /\ UNCHANGED scheduled

BackgroundCall == bg.pc = "idle" /\ scheduled

\* BackgroundCall after an error.
BackgroundError ==
  /\ BackgroundCall /\ bgError
  /\ scheduled' = FALSE
  /\ UNCHANGED <<disk, phase, mems, version, nextFile, lastSequence, pending, writers, group,
                 held, bg, edit, bgError, ghosts, counts>>

\* Input that the merge has not come to: the last output has its first entry.
InputsRemain(c) ==
  \E e \in AllEntries(c.in0 \cup c.in1) : \A f \in c.outs : Before(FirstEntry(f.ents), e)

\* CompactMemTable begins, by itself or between two keys of a compaction.
BeginFlush ==
  /\ imm # NoFile
  /\ \/ BackgroundCall /\ ~bgError
     \/ bg.pc = "compact" /\ \A c \in bg.comp : InputsRemain(c)
  /\ bg' = [bg EXCEPT !.pc = "build", !.out = nextFile]
  /\ nextFile' = nextFile + 1
  /\ pending' = pending \cup {nextFile}
  /\ UNCHANGED <<disk, phase, mems, version, lastSequence, writers, group, held, edit,
                 scheduled, bgError, ghosts, counts>>

\* WriteLevel0Table, and the edit of CompactMemTable: logs before the one of
\* mem_ are no longer needed.
BuildTable ==
  /\ bg.pc = "build"
  /\ LET f == File(bg.out, memtables[imm])
         l == PickLevelForMemTableOutput(current, f.ents)
     IN  /\ tables' = Bind(tables, f.num, f.ents)
         /\ edit' = Edit("flush", At(l, {f}), {}, mem, nextFile, lastSequence)
  /\ pending' = pending \ {bg.out}
  /\ bg' = [bg EXCEPT !.pc = "manifest"]
  /\ UNCHANGED <<logs, manifest, phase, mems, version, nextFile, lastSequence, writers, group,
                 held, scheduled, bgError, ghosts, counts>>

BuildTableFails ==
  /\ bg.pc = "build" /\ Fault("table")
  /\ pending' = pending \ {bg.out}
  /\ bgError' = TRUE
  /\ EndFlush(imm, current, seekFile, TRUE)
  /\ UNCHANGED <<disk, phase, mems, version, nextFile, lastSequence, writers, group, held,
                 ghosts, issued, reads, crashes>>

\* Mutant: snapshots are not looked at.
SnapshotIgnored == lastSequence

\* The snapshot that the entries kept must serve.
SmallestSnapshot == IF snaps = <<>> THEN lastSequence ELSE Min(Range(snaps))

\* BackgroundCompaction picks a compaction: it moves a file, or begins to
\* merge.  There is one to pick, or the thread would not have been asked.
BeginCompaction ==
  /\ BackgroundCall /\ ~bgError /\ imm = NoFile
  /\ \E c \in Compactions(current, seekFile) :
       IF IsTrivialMove(c)
         THEN /\ edit' = Edit("move", At(c.level + 1, c.in0), At(c.level, c.in0), logNumber,
                              nextFile, lastSequence)
              /\ bg' = [bg EXCEPT !.pc = "manifest"]
         ELSE /\ bg' = [bg EXCEPT !.pc = "compact", !.comp = {CompactionState(c, SmallestSnapshot)}]
              /\ UNCHANGED edit
  /\ UNCHANGED <<disk, phase, mems, version, nextFile, lastSequence, pending, writers, group,
                 held, scheduled, bgError, ghosts, counts>>

OutNumbers(c) == {f.num : f \in c.outs}

\* Mutant: the outputs are not kept in pending_outputs_.
OutputUnpinned == pending

\* OpenCompactionOutputFile keeps the output from being deleted.
OutputPinned == pending \cup {nextFile}

\* An output of the merge is opened.  Nobody goes to it before the merge is
\* done, so it is given at once the entries it will have when it is closed.
CompactOutput ==
  /\ bg.pc = "compact"
  /\ \E c \in bg.comp :
       /\ c.todo # <<>>
       /\ tables' = Bind(tables, nextFile, Head(c.todo))
       /\ bg' = [bg EXCEPT !.comp = {[c EXCEPT !.todo = Tail(@),
                                               !.outs = @ \cup {File(nextFile, Head(c.todo))}]}]
  /\ pending' = OutputPinned
  /\ nextFile' = nextFile + 1
  /\ UNCHANGED <<logs, manifest, phase, mems, version, lastSequence, writers, group, held, edit,
                 scheduled, bgError, ghosts, counts>>

\* An output cannot be opened, or one that was cannot be written or closed.
CompactOutputFails ==
  /\ bg.pc = "compact" /\ Fault("table")
  /\ \E c \in bg.comp : /\ \/ c.todo # <<>> /\ nextFile' = nextFile + 1
                           \/ c.outs # {} /\ UNCHANGED nextFile
                        /\ pending' = pending \ OutNumbers(c)
  /\ DeleteObsoleteFiles(TRUE, current, pending', {}, logNumber)
  /\ bgError' = TRUE
  /\ EndCall(imm, current, seekFile, TRUE)
  /\ UNCHANGED <<manifest, phase, mems, version, lastSequence, writers, group, held, ghosts,
                 issued, reads, crashes>>

\* InstallCompactionResults: the edit of the merge.
CompactDone ==
  /\ bg.pc = "compact"
  /\ \E c \in bg.comp :
       /\ c.todo = <<>>
       /\ edit' = Edit("compact", At(c.level + 1, c.outs),
                       At(c.level, c.in0) \cup At(c.level + 1, c.in1),
                       logNumber, nextFile, lastSequence)
  /\ bg' = [bg EXCEPT !.pc = "manifest"]
  /\ UNCHANGED <<disk, phase, mems, version, nextFile, lastSequence, pending, writers, group,
                 held, scheduled, bgError, ghosts, counts>>

\* LogAndApply writes the edit to MANIFEST, without the mutex.
Logged(e) == InManifest(ApplyEdit(manifest.version, e), e.log, e.next, e.seq)

WriteManifest ==
  /\ bg.pc = "manifest"
  /\ manifest' = Logged(edit)
  /\ bg' = [bg EXCEPT !.pc = "install"]
  /\ UNCHANGED <<tables, logs, phase, mems, version, nextFile, lastSequence, pending, writers,
                 group, held, edit, scheduled, bgError, ghosts, counts>>

Outputs == UNION {OutNumbers(c) : c \in bg.comp}

\* The write fails, and whether a recovery will find the edit is not known.
\* Limit: not for a flush within a compaction, see the README.
WriteManifestFails ==
  /\ bg.pc = "manifest" /\ Fault("manifest")
  /\ edit.kind = "flush" => bg.comp = {}
  /\ manifest' \in {manifest, Logged(edit)}
  /\ bgError' = TRUE
  /\ pending' = pending \ Outputs
  /\ IF edit.kind = "compact" THEN DeleteObsoleteFiles(TRUE, current, pending', {}, logNumber)
                              ELSE UNCHANGED <<tables, logs>>
  /\ EndCall(imm, current, seekFile, TRUE)
  /\ UNCHANGED <<phase, mems, version, nextFile, lastSequence, writers, group,
                 held, ghosts, issued, reads, crashes>>

NewVersion ==
  /\ current' = ApplyEdit(current, edit)
  /\ logNumber' = edit.log
  /\ seekFile' = NoSeekFile

\* LogAndApply makes the new version current, and what made it cleans up.
InstallFlush ==
  /\ bg.pc = "install" /\ edit.kind = "flush"
  /\ NewVersion
  /\ imm' = NoFile
  /\ memtables' = Referred({mem} \cup HeldMemtables(readers))
  /\ DeleteObsoleteFiles(bgError, current', pending, bg.comp, edit.log)
  /\ EndFlush(NoFile, current', NoSeekFile, FALSE)
  /\ UNCHANGED <<manifest, phase, mem, nextFile, lastSequence, pending, writers, group, held,
                 bgError, ghosts, counts>>

InstallMove ==
  /\ bg.pc = "install" /\ edit.kind = "move"
  /\ NewVersion
  /\ EndCall(imm, current', NoSeekFile, FALSE)
  /\ UNCHANGED <<disk, phase, mems, nextFile, lastSequence, pending, writers, group, held,
                 bgError, ghosts, counts>>

InstallCompaction ==
  /\ bg.pc = "install" /\ edit.kind = "compact"
  /\ NewVersion
  /\ pending' = pending \ Outputs
  /\ DeleteObsoleteFiles(bgError, current', pending', {}, edit.log)
  /\ EndCall(imm, current', NoSeekFile, FALSE)
  /\ UNCHANGED <<manifest, phase, mems, nextFile, lastSequence, writers, group, held, bgError,
                 ghosts, counts>>

BackgroundStep ==
  \/ BackgroundError
  \/ BeginFlush \/ BuildTable \/ BuildTableFails
  \/ BeginCompaction \/ CompactOutput \/ CompactOutputFails \/ CompactDone
  \/ WriteManifest \/ WriteManifestFails
  \/ InstallFlush \/ InstallMove \/ InstallCompaction

-----------------------------------------------------------------------------
(* Readers.                                                                *)

\* What Get finds: in the memtable, else in the one before, else in the files.
Found(m, im, v, seq, key) ==
  LET inMem == Seek(memtables[m], key, seq)
      inImm == IF im = NoFile THEN {} ELSE Seek(memtables[im], key, seq)
  IN  IF inMem # {} THEN inMem ELSE IF inImm # {} THEN inImm ELSE VersionSeek(v, key, seq)

Answer(m, im, v, seq, key) ==
  LET e == Found(m, im, v, seq, key) IN IF e = {} THEN Deleted ELSE (CHOOSE x \in e : TRUE).val

GetSnapshot(s) ==
  /\ phase = "open" /\ s \notin DOMAIN snaps
  /\ reads < MaxReads /\ reads' = reads + 1
  /\ snaps' = Bind(snaps, s, lastSequence)
  /\ UNCHANGED <<disk, phase, mems, version, nextFile, lastSequence, pending, writers, group,
                 readers, back, bgError, ghosts, issued, crashes, faults>>

ReleaseSnapshot(s) ==
  /\ s \in DOMAIN snaps
  /\ snaps' = Restrict(snaps, DOMAIN snaps \ {s})
  /\ UNCHANGED <<disk, phase, mems, version, nextFile, lastSequence, pending, writers, group,
                 readers, back, bgError, ghosts, counts>>

\* Get and NewIterator take their references, as of now or of a snapshot.
BeginRead(r) ==
  /\ phase = "open" /\ r \notin DOMAIN readers
  /\ reads < MaxReads /\ reads' = reads + 1
  /\ \E seq \in {lastSequence} \cup Range(snaps) :
       readers' = Bind(readers, r, [seq |-> seq, mem |-> mem, imm |-> imm,
                                    version |-> current])
  /\ UNCHANGED <<disk, phase, mems, version, nextFile, lastSequence, pending, writers, group,
                 snaps, back, bgError, ghosts, issued, crashes, faults>>

\* UpdateStats: the read used up the seeks allowed to the file it charges,
\* the first of two or more, and no other file of the version has.
UsesUpSeeks(files) ==
  /\ Cardinality(files) >= 2 /\ seekFile = NoSeekFile
  /\ seekFile' = FirstOf(files)
  /\ scheduled' = MaybeSchedule(scheduled, imm, current, seekFile')

\* The read is over, and its references are given back.  A Get that went to
\* the files charges them, in the version it read.
EndRead(r) ==
  /\ r \in DOMAIN readers
  /\ LET rd == readers[r]
         InMemory(key) == \/ Seek(memtables[rd.mem], key, rd.seq) # {}
                          \/ rd.imm # NoFile /\ Seek(memtables[rd.imm], key, rd.seq) # {}
     IN  \/ UNCHANGED <<seekFile, scheduled>>
         \/ /\ rd.version = current
            /\ \E key \in Keys : /\ ~InMemory(key)
                                 /\ UsesUpSeeks(FilesRead(rd.version, key, rd.seq))
  /\ readers' = Restrict(readers, DOMAIN readers \ {r})
  /\ memtables' = Referred({mem, imm} \cup HeldMemtables(readers'))
  /\ UNCHANGED <<disk, phase, mem, imm, current, logNumber, nextFile, lastSequence, pending,
                 writers, group, snaps, bg, edit, bgError, ghosts, counts>>

\* RecordReadSample: an iterator charges the files it meets, in the current version.
RecordReadSample(r) ==
  /\ r \in DOMAIN readers
  /\ \E key \in Keys : UsesUpSeeks(FilesToSearch(current, key, readers[r].seq))
  /\ UNCHANGED <<disk, phase, mems, current, logNumber, nextFile, lastSequence, pending, writers,
                 group, held, bg, edit, bgError, ghosts, counts>>

ReaderStep ==
  \/ \E s \in Snapshots : GetSnapshot(s) \/ ReleaseSnapshot(s)
  \/ \E r \in Readers : BeginRead(r) \/ EndRead(r) \/ RecordReadSample(r)
=============================================================================
