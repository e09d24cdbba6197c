------------------------------- MODULE Logbook -------------------------------
(***************************************************************************)
(* The logbook of one agent: every event of its bus as a numbered record,  *)
(* the newest in memory and each of them, one appended line, in            *)
(* activity.jsonl.                                                         *)
(*                                                                         *)
(* The appends wait on one chain of promises.  The job of an append that   *)
(* finds the file too long rewrites it, from memory; so does teardown, at  *)
(* once and past the chain, which goes on.  A process counts the lines     *)
(* from those it has kept of the file it loads.                            *)
(*                                                                         *)
(* A record stands for its sequence number plus one.                       *)
(***************************************************************************)
EXTENDS Files

CONSTANTS
  RingSize,        \* cfg.ringSize
  FileEntries,     \* cfg.maxFileEntries
  MaxRecords,      \* bound: the largest record
  MaxQueued,       \* bound: appends that wait
  MaxBStarts       \* bound: starts of the process

ASSUME LogbookSizes == RingSize \in Nat \ {0} /\ FileEntries \in Nat \ {0}
ASSUME LogbookBounds == MaxRecords \in Nat /\ MaxQueued \in Nat /\ MaxBStarts \in Nat \ {0}

VARIABLES
  records,     \* the ring, oldest first
  nextRecord,  \* one past the last record
  fileLines,   \* the process' count of the lines
  queued,      \* the appends that wait
  job,         \* the write under way
  log,         \* activity.jsonl
  tornDown,    \* the teardown has run
  missing,     \* a line was lost on its way to the disk (history)
  bstarts

bvars == <<records, nextRecord, fileLines, queued, job, log, tornDown, missing, bstarts>>

KTypeOK ==
  /\ records \in Seq(1..MaxRecords) /\ Len(records) <= RingSize
  /\ nextRecord \in 1..(MaxRecords + 1)
  /\ fileLines \in Nat
  /\ queued \in Seq(1..MaxRecords) /\ Len(queued) <= MaxQueued
  /\ job.how \in {"none", "append", "rewrite", "truncated"}
  /\ log.lines \in Seq(0..MaxRecords) /\ log.torn \in BOOLEAN
  /\ tornDown \in BOOLEAN /\ missing \in BOOLEAN
  /\ bstarts \in 1..MaxBStarts

----------------------------------------------------------------------------

(* load: the newest lines that can be read. *)
LoadLogbook(f) ==
  LET seed == Newer(Readable(f), FileEntries) IN
  /\ records' = Newer(seed, RingSize)
  /\ nextRecord' = 1 + Max(ToSet(seed) \cup {0})
  /\ fileLines' = Len(seed)

BInit ==
  /\ records = <<>> /\ nextRecord = 1 /\ fileLines = 0
  /\ queued = <<>> /\ job = NoWrite
  /\ log = Whole(<<>>)
  /\ tornDown = FALSE /\ missing = FALSE
  /\ bstarts = 1

(* A kill, at any moment, or the end after a teardown; and a new start. *)
LogbookRestarts ==
  /\ bstarts < MaxBStarts
  /\ bstarts' = bstarts + 1
  /\ log' \in Leftovers(log, job)
  /\ LoadLogbook(log')
  /\ queued' = <<>> /\ job' = NoWrite
  /\ tornDown' = FALSE /\ missing' = FALSE

(* append: an event is recorded, and its line chained. *)
AppendRecord ==
  /\ ~tornDown
  /\ nextRecord <= MaxRecords /\ Len(queued) < MaxQueued
  /\ nextRecord' = nextRecord + 1
  /\ records' = Newer(Append(records, nextRecord), RingSize)
  /\ queued' = Append(queued, nextRecord)
  /\ UNCHANGED <<fileLines, job, log, tornDown, missing, bstarts>>

(* Mutant of Kept: the file has them already, it keeps what memory drops. *)
KeptOldest(ring) == SubSeq(ring, 1, Len(Newer(ring, FileEntries)))

(* What a rewrite keeps: the newest in memory, never more than it holds. *)
Kept(ring) == Newer(ring, FileEntries)

(* compactSync *)
TearDownLogbook ==
  /\ ~tornDown
  /\ tornDown' = TRUE
  /\ log' = Whole(Kept(records))
  /\ fileLines' = Len(Kept(records))
  /\ UNCHANGED <<records, nextRecord, queued, job, missing, bstarts>>

----------------------------------------------------------------------------
(* The chain.                                                              *)

BeginAppend ==
  /\ job = NoWrite /\ queued # <<>>
  /\ job' = Appending(Head(queued))
  /\ queued' = Tail(queued)
  /\ UNCHANGED <<records, nextRecord, fileLines, log, tornDown, missing, bstarts>>

(* The line has landed and counts.  compactAsync, when there are too many: *)
(* what it writes is what memory holds now.                                *)
AppendLands ==
  /\ job.how = "append"
  /\ log' = Written(log, job)
  /\ missing' = (missing \/ log.torn)
  /\ fileLines' = fileLines + 1
  /\ job' = IF fileLines' > 2 * FileEntries THEN Rewriting(Kept(records)) ELSE NoWrite
  /\ UNCHANGED <<records, nextRecord, queued, tornDown, bstarts>>

LogTruncated ==
  /\ job.how = "rewrite"
  /\ job' = [job EXCEPT !.how = "truncated"]
  /\ log' = Whole(<<>>)
  /\ UNCHANGED <<records, nextRecord, fileLines, queued, tornDown, missing, bstarts>>

RewriteLands ==
  /\ job.how = "truncated"
  /\ log' = Written(log, job)
  /\ fileLines' = Len(job.lines)
  /\ job' = NoWrite
  /\ UNCHANGED <<records, nextRecord, queued, tornDown, missing, bstarts>>

(* An error of the disk is swallowed, and the chain goes on. *)
JobFails ==
  /\ job # NoWrite
  /\ ~missing
  /\ missing' = TRUE
  /\ job' = NoWrite
  /\ UNCHANGED <<records, nextRecord, fileLines, queued, log, tornDown, bstarts>>

BNext ==
  \/ AppendRecord \/ TearDownLogbook
  \/ BeginAppend \/ AppendLands \/ LogTruncated \/ RewriteLands \/ JobFails
  \/ LogbookRestarts

BSpec == BInit /\ [][BNext]_bvars

----------------------------------------------------------------------------
(* Properties.                                                             *)

(* The lines to be appended yet; what the file has, or will have by the    *)
(* rewrite under way, before them; and the count of that.                  *)
Pending == (IF job.how = "append" THEN job.lines ELSE <<>>) \o queued
Rewrites == job.how \in {"rewrite", "truncated"}
Begun == IF Rewrites THEN job.lines ELSE log.lines
BegunCount == IF Rewrites THEN Len(job.lines) ELSE fileLines

(* What is in the file once the chain has been worked off: one of the       *)
(* appends finds it too long and rewrites it, or they are all added.       *)
TooMany == Pending # <<>> /\ BegunCount + Len(Pending) > 2 * FileEntries
AfterQueue == IF TooMany THEN Kept(records) ELSE Begun \o Pending

(* Whatever rewrites and appends do to each other, once all is written the *)
(* file has every record a rewrite would keep, so a restart forgets none   *)
(* of them; unless a line was lost.                                        *)
LogbookKeeps ==
  ~missing /\ ~log.torn => ToSet(Kept(records)) \subseteq ToSet(AfterQueue)
=============================================================================
