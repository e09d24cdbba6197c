------------------------------- MODULE Journal -------------------------------
(***************************************************************************)
(* What the inspector keeps of one agent: a circular buffer of records for *)
(* the dashboard, and events.jsonl from which a restart restores it.        *)
(*                                                                         *)
(* Appends, compactions and clears wait on one chain of promises; the count *)
(* of lines that triggers a compaction is taken at once, and set anew by    *)
(* the compaction when it lands.  Teardown compacts synchronously, past    *)
(* the chain, which goes on.                                               *)
(*                                                                         *)
(* A record is its sequence number.  Clients are left out.                 *)
(***************************************************************************)
EXTENDS Files

CONSTANTS
  BufferSize,     \* cfg.bufferSize
  Persisted,      \* cfg.maxPersistedEntries
  MaxSeq,         \* bound: the largest sequence number
  MaxWaiting,     \* bound: operations that wait on the chain
  MaxJStarts,     \* bound: starts of the process
  MaxClears       \* bound: clears by an operator

ASSUME JournalSizes == BufferSize \in Nat \ {0} /\ Persisted \in Nat \ {0}
ASSUME JournalBounds == MaxSeq \in Nat /\ MaxWaiting \in Nat /\ MaxJStarts \in Nat \ {0} /\ MaxClears \in Nat

VARIABLES
  slots, oldest, held,  \* the circular buffer
  seqNext,              \* the next record's number
  counted,              \* lineCount
  chain,                \* operations that wait: a record to append, or what to do
  write,                \* the operation under way
  disk,                 \* events.jsonl
  gone,                 \* the agent is torn down
  forgotten,            \* lines the last compaction did not count: they waited (history)
  short,                \* a line was lost on its way to the disk (history)
  jstarts, clears

buffer == <<slots, oldest, held>>
jvars == <<buffer, seqNext, counted, chain, write, disk, gone, forgotten, short, jstarts, clears>>

(* snapshotRing *)
Snapshot == [i \in 1..held |-> slots[((oldest + i - 1) % Len(slots)) + 1]]

JTypeOK ==
  /\ slots \in Seq(1..MaxSeq) /\ Len(slots) <= BufferSize
  /\ oldest \in 0..(BufferSize - 1) /\ held \in 0..BufferSize /\ held <= Len(slots)
  /\ seqNext \in 1..(MaxSeq + 1) /\ counted \in Nat
  /\ \A i \in DOMAIN chain : chain[i] \in 1..MaxSeq \cup {-1, -2}
  /\ write.how \in {"none", "append", "clear", "read", "rewrite", "truncated"}
  /\ disk.lines \in Seq(0..MaxSeq) /\ disk.torn \in BOOLEAN
  /\ gone \in BOOLEAN /\ short \in BOOLEAN /\ forgotten \in Nat
  /\ jstarts \in 1..MaxJStarts /\ clears \in 0..MaxClears

Clear == -1
Compact == -2

----------------------------------------------------------------------------
(* The process starts.                                                     *)

(* Mutant of SeedSeq: the numbers go on from what retention left. *)
SeedSeqByWindow(lines, window) == Len(window) + 1

(* One past the highest number on disk, whatever retention drops. *)
SeedSeq(lines, window) == 1 + Max(ToSet(lines) \cup {0})

(* readWindow, window, seedRing: the newest lines, without the `expired'   *)
(* oldest of them, go into the buffer.                                     *)
LoadFrom(f, expired) ==
  LET lines == Readable(f)
      recent == Newer(lines, Persisted)
      window == SubSeq(recent, expired + 1, Len(recent))
  IN /\ expired \in 0..Len(recent)
     /\ slots' = Newer(window, BufferSize) /\ oldest' = 0 /\ held' = Len(slots')
     /\ seqNext' = SeedSeq(lines, window)
     /\ counted' = Len(lines)

JInit ==
  /\ slots = <<>> /\ oldest = 0 /\ held = 0
  /\ seqNext = 1 /\ counted = 0
  /\ chain = <<>> /\ write = NoWrite
  /\ disk = Whole(<<>>)
  /\ gone = FALSE /\ forgotten = 0 /\ short = FALSE
  /\ jstarts = 1 /\ clears = 0

(* A kill, at any moment, or the end after a teardown; and a new start. *)
JRestart ==
  /\ jstarts < MaxJStarts
  /\ jstarts' = jstarts + 1
  /\ disk' \in Leftovers(disk, write)
  /\ \E expired \in 0..Persisted : LoadFrom(disk', expired)
  /\ chain' = <<>> /\ write' = NoWrite
  /\ gone' = FALSE /\ forgotten' = 0 /\ short' = FALSE
  /\ UNCHANGED clears

----------------------------------------------------------------------------
(* Records, the operator's clear, teardown.                                *)

(* Mutant of PushRecord: the slot after the newest is taken for free. *)
PushRecordUnmoved(r) ==
  IF Len(slots) < BufferSize
  THEN slots' = Append(slots, r) /\ held' = held + 1 /\ UNCHANGED oldest
  ELSE /\ slots' = [slots EXCEPT ![((oldest + held) % Len(slots)) + 1] = r]
       /\ held' = IF held >= BufferSize THEN held ELSE held + 1
       /\ UNCHANGED oldest

(* pushRecord: the oldest makes room, a full buffer's slots are reused. *)
PushRecord(r) ==
  LET full == held >= BufferSize
      first == IF full THEN (oldest + 1) % Len(slots) ELSE oldest
      left == IF full THEN held - 1 ELSE held
  IN /\ oldest' = first
     /\ held' = left + 1
     /\ slots' = IF Len(slots) < BufferSize THEN Append(slots, r)
                 ELSE [slots EXCEPT ![((first + left) % Len(slots)) + 1] = r]

(* Mutant of Counts: the lines are counted as they land. *)
CountsLanded == counted

(* The count this append is weighed by: its own line included. *)
Counts == counted + 1

(* An event is captured: into the buffer, and chained to the file, with a  *)
(* compaction when the file has got twice as long as it may.               *)
Record ==
  /\ ~gone
  /\ seqNext <= MaxSeq /\ Len(chain) + 2 <= MaxWaiting
  /\ seqNext' = seqNext + 1
  /\ PushRecord(seqNext)
  /\ counted' = Counts
  /\ chain' = chain \o (IF counted' > 2 * Persisted THEN <<seqNext, Compact>> ELSE <<seqNext>>)
  /\ UNCHANGED <<write, disk, gone, forgotten, short, jstarts, clears>>

(* POST .../clear: memory at once, the file in its turn. *)
ClearAgent ==
  /\ ~gone
  /\ clears < MaxClears /\ Len(chain) < MaxWaiting
  /\ clears' = clears + 1
  /\ slots' = <<>> /\ oldest' = 0 /\ held' = 0
  /\ counted' = 0
  /\ chain' = Append(chain, Clear)
  /\ UNCHANGED <<seqNext, write, disk, gone, forgotten, short, jstarts>>

(* The lines that wait to be appended, one under way included. *)
Waiting ==
  Cardinality(ToSet(chain) \ {Clear, Compact}) + (IF write.how = "append" THEN 1 ELSE 0)

(* hubDeregister: the file is cut at once if it is too long now. *)
TearDownJournal ==
  /\ ~gone
  /\ gone' = TRUE
  /\ IF Len(disk.lines) > Persisted
     THEN disk' = Whole(Newer(disk.lines, Persisted)) /\ counted' = Persisted /\ forgotten' = Waiting
     ELSE UNCHANGED <<disk, counted, forgotten>>
  /\ UNCHANGED <<buffer, seqNext, chain, write, short, jstarts, clears>>

----------------------------------------------------------------------------
(* The chain and the disk.                                                 *)

BeginOperation ==
  /\ write = NoWrite
  /\ chain # <<>>
  /\ chain' = Tail(chain)
  /\ write' = CASE Head(chain) = Clear -> [how |-> "clear", lines |-> <<>>]
                [] Head(chain) = Compact -> [how |-> "read", lines |-> <<>>]
                [] OTHER -> Appending(Head(chain))
  /\ UNCHANGED <<buffer, seqNext, counted, disk, gone, forgotten, short, jstarts, clears>>

(* compact has read the file: unreadable lines are lines like others. *)
CompactionReads ==
  /\ write.how = "read"
  /\ write' = Rewriting(Newer(disk.lines, Persisted))
  /\ UNCHANGED <<buffer, seqNext, counted, chain, disk, gone, forgotten, short, jstarts, clears>>

FileTruncated ==
  /\ write.how = "rewrite"
  /\ write' = [write EXCEPT !.how = "truncated"]
  /\ disk' = Whole(<<>>)
  /\ UNCHANGED <<buffer, seqNext, counted, chain, gone, forgotten, short, jstarts, clears>>

(* A write lands; a compaction sets the count to what it has written. *)
WriteLands ==
  /\ write.how \in {"append", "clear", "truncated"}
  /\ disk' = Written(disk, write)
  /\ IF write.how = "truncated"
     THEN counted' = Len(write.lines) /\ forgotten' = Waiting
     ELSE UNCHANGED <<counted, forgotten>>
  /\ short' = (short \/ (write.how = "append" /\ disk.torn))
  /\ write' = NoWrite
  /\ UNCHANGED <<buffer, seqNext, chain, gone, jstarts, clears>>

(* An error of the disk is swallowed. *)
WriteIsRefused ==
  /\ write.how \in {"append", "clear", "rewrite"}
  /\ ~short
  /\ short' = TRUE
  /\ write' = NoWrite
  /\ UNCHANGED <<buffer, seqNext, counted, chain, disk, gone, forgotten, jstarts, clears>>

JNext ==
  \/ Record \/ ClearAgent \/ TearDownJournal
  \/ BeginOperation \/ CompactionReads \/ FileTruncated \/ WriteLands \/ WriteIsRefused
  \/ JRestart

JSpec == JInit /\ [][JNext]_jvars

----------------------------------------------------------------------------
(* Properties.                                                             *)

(* Where the last clear that waits is in the chain, and the last            *)
(* compaction; 0 if there is none.                                         *)
LastOf(o) == Max({0} \cup {i \in DOMAIN chain : chain[i] = o})

(* The lines that no clear removes: of the file, unless a clear waits, and  *)
(* those that wait.  A compaction leaves the newest of them, and what is    *)
(* chained behind it is added to these.                                    *)
OfFile ==
  IF LastOf(Clear) > 0 THEN <<>>
  ELSE IF write.how = "read" THEN Newer(disk.lines, Persisted) ELSE Written(disk, write).lines
Awaited == Picked(chain, {i \in (LastOf(Clear) + 1)..Len(chain) : chain[i] # Compact})
AfterChain ==
  IF LastOf(Compact) > LastOf(Clear)
  THEN Newer(OfFile \o Awaited, Persisted + Len(chain) - LastOf(Compact))
  ELSE OfFile \o Awaited

(* However appends, compactions, clears and the teardown's own compaction  *)
(* overtake each other: once all is written, the file ends as the buffer   *)
(* does, so a restart shows what the dashboard showed; unless a line was   *)
(* lost, or an unreadable one counts among those that are kept.            *)
JournalReplays ==
  ~short /\ 0 \notin ToSet(disk.lines \o AfterChain) =>
    LET kept == Newer(AfterChain, BufferSize)
        n == Min({Len(kept), held}) IN
    /\ Newer(kept, n) = Newer(Snapshot, n)
    /\ held >= Persisted => Len(kept) >= Min({Persisted, BufferSize})

(* "keep seq monotonic across a restart": the lines on disk ascend, so no   *)
(* number stands for two records.                                          *)
JournalAscends ==
  LET lines == Readable(disk) IN \A i \in 2..Len(lines) : lines[i - 1] < lines[i]

(* A compaction counts the lines it writes and not those that wait behind   *)
(* it.  What it forgets does not add up from one to the next: in a process  *)
(* that found no file and had no write refused, the file at rest is at most *)
(* twice as long as it may be, but for the lines that waited at the last.   *)
JournalStaysSmall ==
  chain = <<>> /\ write = NoWrite /\ ~short /\ jstarts = 1 =>
    Len(disk.lines) <= 2 * Persisted + forgotten
=============================================================================
