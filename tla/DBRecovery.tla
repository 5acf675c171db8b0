----------------------------- MODULE DBRecovery -----------------------------
(***************************************************************************)
(* The LevelDB store through crashes: what a crash leaves on the disk and  *)
(* how DB::Open makes a store of it (db/db_impl.cc, Recover and Open).     *)
(*                                                                         *)
(* A crash of the process keeps what was given to the system; a crash of   *)
(* the machine may also cut off any part of a log that was not synced.     *)
(* Tables and MANIFEST are synced before they are relied on.  The          *)
(* directory is taken to keep the names of the files made in it.           *)
(*                                                                         *)
(* An error of the disk while the store is opened makes Open fail, which   *)
(* leaves what a crash at that place leaves.                               *)
(***************************************************************************)
EXTENDS DBImpl

-----------------------------------------------------------------------------
(* Crashes.                                                                *)

\* The batch is on the disk: its log is no longer needed, or gives it back.
OnDisk(b, ls) ==
  \/ b \in done /\ b.log < manifest.log
  \/ b.log >= manifest.log /\ b.rec \in ToSet(Replayed(ls[b.log]))

\* What an append under way may have come to.
Interrupted ==
  IF group.stage # "log" THEN {logs}
  ELSE {[logs EXCEPT ![mem] = l] : l \in Torn(logs[mem], group.batch.rec)}

\* A machine that crashes loses any end of a log that was not synced.
Cut(log, n) == [log EXCEPT !.data = SubSeq(@, 1, n)]

Cuts(ls) ==
  LET Ends == [n \in DOMAIN ls |-> ls[n].synced .. Len(ls[n].data)]
  IN  {[n \in DOMAIN ls |-> Cut(ls[n], end[n])] :
         end \in {e \in [DOMAIN ls -> UNION Range(Ends)] : \A n \in DOMAIN ls : e[n] \in Ends[n]}}

Left(kind) == IF kind = "process" THEN Interrupted ELSE UNION {Cuts(ls) : ls \in Interrupted}

ProcessEnds ==
  /\ phase' = "down"
  /\ memtables' = <<>> /\ mem' = NoFile /\ imm' = NoFile
  /\ current' = NoFiles /\ logNumber' = 0 /\ seekFile' = NoSeekFile
  /\ nextFile' = 0 /\ lastSequence' = 0 /\ pending' = {}
  /\ writers' = <<>> /\ group' = NoGroup
  /\ snaps' = <<>> /\ readers' = <<>>
  /\ bg' = Idle /\ edit' = NoEdit /\ scheduled' = FALSE /\ bgError' = FALSE

Crash(kind) ==
  /\ phase # "down"
  /\ crashes < MaxCrashes /\ crashes' = crashes + 1
  /\ logs' \in Left(kind)
  /\ done' = {b \in done : OnDisk(b, logs')}
              \cup {[b EXCEPT !.sync = FALSE] : b \in {b \in limbo : OnDisk(b, logs')}}
  /\ limbo' = {}
  /\ ProcessEnds
  /\ UNCHANGED <<tables, manifest, issued, reads, faults>>

-----------------------------------------------------------------------------
(* Opening.                                                                *)

\* RecoverLogFile over one record: a memtable that has become full is written out.
ReplayRecord(st, rec) ==
  LET ents == st.mem \cup ToSet(rec)
  IN  IF Full(ents)
        THEN [st EXCEPT !.files = @ \cup {File(st.next, ents)}, !.next = @ + 1, !.mem = {}]
        ELSE [st EXCEPT !.mem = ents]

\* RecoverLogFile and MarkFileNumberUsed.
ReplayLog(st, n) ==
  LET read == FoldSteps(ReplayRecord, st, Replayed(logs[n]))
      rest == IF read.mem = {} THEN read
              ELSE [files |-> read.files \cup {File(read.next, read.mem)},
                    next |-> read.next + 1, mem |-> {}]
  IN  [rest EXCEPT !.next = IF @ <= n THEN n + 1 ELSE @]

\* The logs that are replayed, the oldest first.
LogsToReplay == InOrder({n \in DOMAIN logs : n >= manifest.log}, <)

Replay ==
  LET next == manifest.next + 1  \* the number of the new MANIFEST is taken
  IN  FoldSteps(ReplayLog,
               [files |-> {}, mem |-> {},
                next |-> IF next <= manifest.log THEN manifest.log + 1 ELSE next],
               LogsToReplay)

\* The largest sequence number that MANIFEST or a log knows.
RecoveredSequence(files) == Max({manifest.seq} \cup {e.seq : e \in AllEntries(files)})

\* Recover, and the new log and memtable of Open: the logs are written out to
\* tables of level 0.  Tables that MANIFEST names and nobody finds would make
\* it give up: DiskIsRecoverable says there are none.
Recover ==
  /\ phase = "down"
  /\ FileNumbers(manifest.version) \subseteq DOMAIN tables
  /\ LET r == Replay
         numbers == {f.num : f \in r.files}
     IN  /\ tables' = [n \in DOMAIN tables \cup numbers |->
                         IF n \in numbers THEN (CHOOSE f \in r.files : f.num = n).ents
                                         ELSE tables[n]]
         /\ lastSequence' = RecoveredSequence(r.files)
         /\ mem' = r.next
         /\ nextFile' = r.next + 1
         /\ edit' = Edit("recover", At(0, r.files), {}, mem', nextFile', lastSequence')
  /\ logs' = Bind(logs, mem', NewLog)
  /\ memtables' = Bind(<<>>, mem', {})
  /\ current' = manifest.version /\ logNumber' = manifest.log
  /\ phase' = "recovering"
  /\ UNCHANGED <<manifest, imm, seekFile, pending, writers, group, held, bg, scheduled, bgError,
                 ghosts, counts>>

\* LogAndApply writes a new MANIFEST, and CURRENT points to it.
CommitRecovery ==
  /\ phase = "recovering"
  /\ manifest' = Logged(edit)
  /\ phase' = "committed"
  /\ UNCHANGED <<tables, logs, mems, version, nextFile, lastSequence, pending, writers, group,
                 held, back, bgError, ghosts, counts>>

\* The recovered version is current, and the store is open.
FinishOpen ==
  /\ phase = "committed"
  /\ NewVersion
  /\ DeleteObsoleteFiles(bgError, current', pending, {}, edit.log)
  /\ edit' = NoEdit
  /\ scheduled' = MaybeSchedule(scheduled, imm, current', NoSeekFile)
  /\ phase' = "open"
  /\ done' = {[b EXCEPT !.sync = TRUE, !.risky = FALSE] : b \in done}
  /\ UNCHANGED <<manifest, mems, nextFile, lastSequence, pending, writers, group, held, bg,
                 bgError, limbo, counts>>

OpenStep == Recover \/ CommitRecovery \/ FinishOpen

-----------------------------------------------------------------------------
(* The specification.                                                      *)

\* No process has the store open.
NoProcess ==
  /\ memtables = <<>> /\ mem = NoFile /\ imm = NoFile
  /\ current = NoFiles /\ logNumber = 0 /\ seekFile = NoSeekFile
  /\ nextFile = 0 /\ lastSequence = 0 /\ pending = {}
  /\ writers = <<>> /\ group = NoGroup
  /\ snaps = <<>> /\ readers = <<>>
  /\ bg = Idle /\ edit = NoEdit /\ scheduled = FALSE /\ bgError = FALSE

\* NewDB has been called in an empty directory.
Init ==
  /\ tables = <<>> /\ logs = <<>>
  /\ manifest = InManifest(NoFiles, 0, 2, 0)
  /\ phase = "down"
  /\ NoProcess
  /\ done = {} /\ limbo = {}
  /\ issued = 0 /\ reads = 0 /\ crashes = 0 /\ faults = 0

Next ==
  \/ OpenStep
  \/ \E b \in Batches, sync \in Syncs : Write(b, sync)
  \/ WriterStep
  \/ BackgroundStep
  \/ ReaderStep
  \/ \E kind \in CrashKinds : Crash(kind)

\* The front writer and the background thread go on when they can.
Fairness == WF_vars(WriterStep) /\ WF_vars(BackgroundStep)

Spec == Init /\ [][Next]_vars /\ Fairness

-----------------------------------------------------------------------------
(* Properties.                                                             *)

\* Types, and what the background thread is at agrees with what it has in hand.
TypeOK ==
  /\ phase \in {"down", "recovering", "committed", "open"}
  /\ DOMAIN tables \subseteq Nat /\ DOMAIN logs \subseteq Nat /\ pending \subseteq Nat
  /\ phase = "open" => {mem, imm} \ {NoFile} \subseteq DOMAIN memtables
  /\ bg.pc \in {"idle", "build", "compact", "manifest", "install"}
  /\ (bg.pc = "build") = (bg.out \in pending)
  /\ bg.pc = "compact" => bg.comp # {}
  /\ (edit = NoEdit) = (bg.pc \notin {"manifest", "install"} /\ phase \in {"down", "open"})
  /\ bg.pc = "idle" => pending = {}
  /\ scheduled \/ bg = Idle
  /\ lastSequence \in Nat /\ bgError \in BOOLEAN

\* Every table that the current version, the compaction under way or a reader
\* goes to is on the disk with the entries it should have, and so are the logs
\* of both memtables: DeleteObsoleteFiles works from what is referred to and
\* from pending_outputs_, while the mutex is let go in between.
NeededFilesExist ==
  LET needed == FilesOf(current) \cup (UNION {FilesOf(c.base) \cup c.outs : c \in bg.comp})
                                 \cup (UNION {FilesOf(readers[r].version) : r \in DOMAIN readers})
  IN  phase = "open" =>
        /\ \A f \in needed : f.num \in DOMAIN tables /\ tables[f.num] = f.ents
        /\ {mem, imm} \ {NoFile} \subseteq DOMAIN logs

\* A crash at this moment leaves files that Recover takes: every table that
\* MANIFEST names is there with its entries.  Otherwise Open reports
\* "missing files" and the store is lost.
DiskIsRecoverable ==
  \A f \in FilesOf(manifest.version) : f.num \in DOMAIN tables /\ tables[f.num] = f.ents

\* "Entries never hop across levels" (Version::Get): from one level to the next
\* the entries of a key get older, so the first file that has the key settles
\* a read.
EntriesNeverHop ==
  \A v \in {current, manifest.version} : \A l, m \in Levels : l < m =>
    \A d \in AllEntries(v[l]), e \in AllEntries(v[m]) : d.key = e.key => d.seq > e.seq

\* What the search of a read relies on: entries never hop across levels, in
\* level 0 the newer file has the newer entries, and the files of the other
\* levels are disjoint.
LevelsHoldOlder ==
  /\ EntriesNeverHop
  /\ \A v \in {current, manifest.version} :
       /\ \A f, g \in v[0] : f.num > g.num =>
            \A d \in f.ents, e \in g.ents : d.key = e.key => d.seq > e.seq
       /\ \A l \in Levels \ {0} : \A f, g \in v[l] :
            f = g \/ Before(LastEntry(f.ents), FirstEntry(g.ents))
                  \/ Before(LastEntry(g.ents), FirstEntry(f.ents))

\* While there is something to flush or to compact and no error, the
\* background thread has been asked for: nobody waits for a thread that
\* nobody will wake.
WorkIsScheduled ==
  phase = "open" /\ ~bgError /\ (imm # NoFile \/ NeedsCompaction(current, seekFile)) => scheduled

\* The file that used up its seeks is not of the last level: it is charged when
\* a read went on to a file behind it.  Its compaction goes to the next level,
\* and while PickCompaction asserts for a compaction by size that there is one,
\* here only GetOverlappingInputs would find out.
SeekFileHasNextLevel == \A a \in seekFile : a.level + 1 \in Levels

\* No two entries of the store, on the disk or in memory, have one sequence
\* number, after failed writes and lost logs too: which is newer is never in doubt.
SequencesDistinct ==
  LET ents == AllEntries(FilesOf(manifest.version)) \cup AllEntries(Replay.files)
                \cup UNION {memtables[m] : m \in DOMAIN memtables \cap {mem, imm}}
  IN  Cardinality(ents) = Cardinality({e.seq : e \in ents})


\* Every write is answered, for the queue is empty in the end: the writer in
\* front is let through or told of an error, and room is made for it, for the
\* memtable is flushed and level 0 shrinks as long as there is too much.
WritesAreAnswered == writers # <<>> ~> writers = <<>>

-----------------------------------------------------------------------------
(* The promise.                                                            *)

\* What the store answers: from what is in memory when it is open, else from
\* what it would recover.
DiskEntries == AllEntries(FilesOf(manifest.version)) \cup AllEntries(Replay.files)

DiskAnswer(ents, key) ==
  LET e == Seek(ents, key, Max({0} \cup {d.seq : d \in ents}))
  IN  IF e = {} THEN Deleted ELSE (CHOOSE x \in e : TRUE).val

Now ==
  IF phase = "open"
    THEN [k \in Keys |-> Answer(mem, imm, current, lastSequence, k)]
    ELSE CHOOSE map \in {[k \in Keys |-> DiskAnswer(ents, k)] : ents \in {DiskEntries}} : TRUE

\* What a snapshot or a reader that is under way is answered.
HeldView(h) ==
  IF h \in DOMAIN snaps THEN [k \in Keys |-> Answer(mem, imm, current, snaps[h], k)]
  ELSE IF h \in DOMAIN readers
    THEN LET r == readers[h] IN [k \in Keys |-> Answer(r.mem, r.imm, r.version, r.seq, k)]
  ELSE <<>>

Promise == INSTANCE Store WITH
  Holders <- Snapshots \cup Readers,
  up   <- phase = "open",
  now  <- Now,
  held <- [h \in Snapshots \cup Readers |-> HeldView(h)]

\* The store keeps what Store promises: reads see whole batches and the last
\* of them, a snapshot and a reader see one map for as long as they last,
\* whatever is flushed, merged, moved or deleted meanwhile, and a crash loses
\* nothing that was promised and leaves no batch in part.
KeepsPromise == Promise!Spec
=============================================================================
