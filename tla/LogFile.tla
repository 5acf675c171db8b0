------------------------------ MODULE LogFile -------------------------------
(***************************************************************************)
(* The write-ahead log of the LevelDB store: log::Writer and log::Reader   *)
(* (db/log_writer.cc, db/log_reader.cc).                                   *)
(*                                                                         *)
(* A log is a sequence of units, each standing for some bytes: a header is *)
(* HeaderSize of them, an entry of a record one.  A record is cut into     *)
(* chunks, so that none crosses the end of a block as the writer counts    *)
(* blocks.  A unit knows the chunk it belongs to and its place in it: the  *)
(* checksum of a chunk is right when all its units follow each other in    *)
(* order.  An append that fails may leave a part of the fragment that      *)
(* failed behind, but the writer counts all of it: after it the writer's   *)
(* blocks are not those of the reader, who counts what is there.           *)
(***************************************************************************)
EXTENDS DBFormat

CONSTANTS
  HeaderSize,  \* kHeaderSize, in units
  BlockSize    \* kBlockSize, in units

ASSUME LogAssumption ==
  /\ HeaderSize \in Nat \ {0} /\ BlockSize \in Nat
  /\ HeaderSize < BlockSize

NewLog == [data |-> <<>>, synced |-> 0, offset |-> 0, damaged |-> FALSE]

Unit(chunk, i) == [chunk |-> chunk, i |-> i]

\* The filler before the end of a block.
Trailer == Unit([type |-> "zero", rec |-> <<>>, from |-> 0, len |-> 0], 0)

-----------------------------------------------------------------------------
(* Writing.                                                                *)

\* One turn of AddRecord's loop: the rest of the block is filled when a
\* header does not fit it, then as much of the record as the block takes.
Fragment(rec, st) ==
  LET leftover == BlockSize - st.offset
      fill     == IF leftover < HeaderSize THEN leftover ELSE 0
      start    == IF leftover < HeaderSize THEN 0 ELSE st.offset
      avail    == BlockSize - start - HeaderSize
      len      == IF Len(rec) - st.from < avail THEN Len(rec) - st.from ELSE avail
      end      == st.from + len = Len(rec)
      type     == IF st.begin THEN IF end THEN "full" ELSE "first"
                              ELSE IF end THEN "last" ELSE "middle"
      chunk    == [type |-> type, rec |-> rec, from |-> st.from, len |-> len]
  IN  [units  |-> st.units \o [i \in 1 .. fill |-> Trailer]
                           \o [i \in 1 .. HeaderSize + len |-> Unit(chunk, i)],
       offset |-> start + HeaderSize + len,
       from   |-> st.from + len,
       begin  |-> FALSE,
       done   |-> end]

\* The first k turns of the loop: the units they append and block_offset_ after them.
Tried(rec, offset, k) ==
  LET Turn(st, i) == IF st.done THEN st ELSE Fragment(rec, st)
  IN  FoldSteps(Turn,
               [units |-> <<>>, offset |-> offset, from |-> 0, begin |-> TRUE, done |-> FALSE],
               [i \in 1 .. k |-> i])

\* A fragment may be empty when only a header fits the block, so the loop takes
\* at most two turns for each entry.
MaxTurns(rec) == 2 * Len(rec)

AddRecord(rec, offset) == Tried(rec, offset, MaxTurns(rec))

Appended(log, rec) ==
  LET added == AddRecord(rec, log.offset)
  IN  [log EXCEPT !.data = @ \o added.units, !.offset = added.offset]

\* The logs an append that fails may leave.  The loop stops at the fragment
\* that failed, of which any part was written and all is counted.
Torn(log, rec) ==
  UNION {LET before == Tried(rec, log.offset, k - 1)
             tried  == Tried(rec, log.offset, k)
         IN  {[log EXCEPT !.data = @ \o SubSeq(tried.units, 1, n), !.offset = tried.offset,
                          !.damaged = TRUE] : n \in Len(before.units) .. Len(tried.units)} :
           k \in 1 .. MaxTurns(rec)}

Synced(log) == [log EXCEPT !.synced = Len(log.data)]

-----------------------------------------------------------------------------
(* Reading.                                                                *)

BadRecord == [type |-> "bad", rec |-> <<>>, from |-> 0, len |-> 0]

ChecksumMatches(data, p, c) == \A i \in 1 .. HeaderSize + c.len : data[p + i] = Unit(c, i)


\* ReadPhysicalRecord, from every place of the log: a chunk when it is
\* whole within its block.  Anything else drops the rest of the block, and
\* at the end of the file that is the end of the log.
PhysicalRecords(data) ==
  LET n == Len(data)
      BlockEnd(p) == IF (p \div BlockSize + 1) * BlockSize < n
                       THEN (p \div BlockSize + 1) * BlockSize ELSE n
      Whole(p) == LET c == data[p + 1].chunk
                  IN  p + HeaderSize + c.len <= BlockEnd(p) /\ ChecksumMatches(data, p, c)
      read[p \in 0 .. n] ==
        IF p = n THEN <<>>
        ELSE IF BlockEnd(p) - p < HeaderSize THEN read[BlockEnd(p)]
        ELSE IF Whole(p) THEN <<data[p + 1].chunk>>
                              \o read[p + HeaderSize + data[p + 1].chunk.len]
        ELSE <<BadRecord>> \o read[BlockEnd(p)]
  IN  read[0]

\* ReadRecord: the chunks of a record put together.  scratch is the pieces
\* of a record whose first chunk has been read.
ReadChunk(st, c) ==
  CASE c.type = "full"   -> [st EXCEPT !.recs = Append(@, <<c>>), !.scratch = <<>>]
    [] c.type = "first"  -> [st EXCEPT !.scratch = <<c>>]
    [] c.type = "middle" -> IF st.scratch = <<>> THEN st
                            ELSE [st EXCEPT !.scratch = Append(@, c)]
    [] c.type = "last"   -> IF st.scratch = <<>> THEN st
                            ELSE [recs |-> Append(st.recs, Append(st.scratch, c)),
                                  scratch |-> <<>>]
    [] OTHER             -> [st EXCEPT !.scratch = <<>>]

LogRecords(log) ==
  FoldSteps(ReadChunk, [recs |-> <<>>, scratch |-> <<>>], PhysicalRecords(log.data)).recs

\* The entries the pieces of a record hold.
Contents(pieces) ==
  FlattenSeq([i \in DOMAIN pieces |-> LET c == pieces[i]
                                      IN  SubSeq(c.rec, c.from + 1, c.from + c.len)])

\* The records a recovery replays, in order.
Replayed(log) ==
  CHOOSE r \in {[i \in DOMAIN recs |-> Contents(recs[i])] : recs \in {LogRecords(log)}} : TRUE
=============================================================================
