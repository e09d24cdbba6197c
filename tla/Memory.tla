------------------------------- MODULE Memory --------------------------------
(***************************************************************************)
(* What an agent remembers: the notebook it keeps itself (memory-note) and *)
(* the trail of its tool results (history), which summarises what it drops *)
(* as a note.                                                              *)
(*                                                                         *)
(* Each of the two rewrites one JSON file, in a microtask of its own       *)
(* chain, with a text made when the write was asked for; teardown writes   *)
(* at once.  A kill within a write leaves what cannot be parsed, and such a *)
(* file is an empty one for the next start.                                *)
(*                                                                         *)
(* A note's time of writing is the order of the ids: the wall clock does   *)
(* not go back.                                                            *)
(***************************************************************************)
EXTENDS Files

CONSTANTS
  NotebookCaps,     \* values of maxNotes, as the operator may set it
  HistoryMax,       \* cfg.maxEntries
  KeepRecent,       \* cfg.keepRecent
  NoteImportance,   \* cfg.noteImportance
  Importances,
  NoteKinds,
  NoteSizes,        \* what an agent writes: lengths of lines
  Budgets,          \* values of maxNotesTotalChars and of maxLogChars
  MaxNoteId, MaxEntryId, MaxMStarts   \* bounds

ASSUME MemoryAssumption ==
  /\ NotebookCaps \subseteq Nat \ {0} /\ NotebookCaps # {}
  /\ HistoryMax \in Nat \ {0} /\ KeepRecent \in Nat \ {0}
  /\ NoteImportance \in Importances /\ Importances \subseteq 1..5
  /\ NoteKinds \subseteq {"goal", "keep-in-mind", "thought", "finding"}
  /\ NoteSizes \subseteq Nat \ {0} /\ Budgets \subseteq Nat \ {0}
  /\ MaxNoteId \in Nat /\ MaxEntryId \in Nat /\ MaxMStarts \in Nat \ {0}

(* SECTIONS, in their order, and the lengths of the lines around the notes.*)
Kinds == <<"goal", "keep-in-mind", "thought", "finding">>
HeaderSize == 3
HeadingSize == 2
FooterSize == 1
FooterReserve == 2

Note == [n : 1..MaxNoteId, kind : ToSet(Kinds), importance : Importances, size : NoteSizes \cup {1}]
TrailEntry == [id : 1..MaxEntryId, size : NoteSizes \cup {1}]

VARIABLES
  cap,                  \* cfg.maxNotes
  notes, counter,       \* the notebook
  notesWaiting,         \* texts that microtasks will write
  notesFile,
  memoryUp,             \* memory-note is set up
  entries, entryCount,  \* the trail
  trailWaiting, trailFile,
  historyUp,
  batchLost,            \* a summary found no notebook (history)
  unwritten,            \* a write was refused, and none has landed since (history)
  mstarts

notebook == <<cap, notes, counter, notesWaiting, notesFile, memoryUp>>
trail == <<entries, entryCount, trailWaiting, trailFile, historyUp>>
mvars == <<notebook, trail, batchLost, unwritten, mstarts>>

MTypeOK ==
  /\ cap \in NotebookCaps /\ counter \in 0..MaxNoteId
  /\ notes \in Seq(Note) /\ notesFile \in Seq(Note)
  /\ \A i \in DOMAIN notesWaiting : notesWaiting[i] \in Seq(Note)
  /\ entryCount \in 0..MaxEntryId
  /\ entries \in Seq(TrailEntry) /\ trailFile \in Seq(TrailEntry)
  /\ \A i \in DOMAIN trailWaiting : trailWaiting[i] \in Seq(TrailEntry)
  /\ {memoryUp, historyUp, batchLost} \subseteq BOOLEAN
  /\ unwritten \subseteq {"notes", "trail"}
  /\ mstarts \in 1..MaxMStarts

----------------------------------------------------------------------------
(* The notebook.                                                           *)

(* isWorse: the first to go is the least important, then the oldest. *)
Worse(a, b) == a.importance < b.importance \/ (a.importance = b.importance /\ a.n < b.n)

(* Mutant of EnforceCapacity: the oldest go. *)
EnforceByAge(ns, c) == IF Len(ns) > c THEN SubSeq(ns, Len(ns) - c + 1, Len(ns)) ELSE ns

(* enforceCapacity: the worst go until the others fit. *)
EnforceCapacity(ns, c) ==
  Picked(ns, {k \in DOMAIN ns : Cardinality({i \in DOMAIN ns : Worse(ns[k], ns[i])}) < c})

(* Mutant of LoadNotes: what does not fit goes without a new file. *)
LoadTrimmed(f) ==
  /\ notes' = EnforceCapacity(f, cap')
  /\ counter' = Max({f[i].n : i \in DOMAIN f} \cup {0})
  /\ notesWaiting' = <<>>

(* load: a cap that has been lowered is enforced now, and saved. *)
LoadNotes(f) ==
  /\ notes' = EnforceCapacity(f, cap')
  /\ counter' = Max({f[i].n : i \in DOMAIN f} \cup {0})
  /\ notesWaiting' = IF notes' # f THEN <<notes'>> ELSE <<>>

(* remember: the new note may be the one that goes. *)
Remember(kind, importance, size) ==
  LET note == [n |-> counter + 1, kind |-> kind, importance |-> importance, size |-> size] IN
  /\ counter' = counter + 1
  /\ notes' = EnforceCapacity(Append(notes, note), cap)
  /\ notesWaiting' = Append(notesWaiting, notes')
  /\ UNCHANGED <<cap, notesFile, memoryUp>>

(* memory-note.remember, called by the agent. *)
AgentRemembers ==
  /\ memoryUp
  /\ counter < MaxNoteId
  /\ \E kind \in NoteKinds, importance \in Importances, size \in NoteSizes :
       Remember(kind, importance, size)
  /\ UNCHANGED <<trail, batchLost, unwritten, mstarts>>

Without(n) == Picked(notes, {i \in DOMAIN notes : notes[i].n # n})

(* Mutant of Forget: the file keeps it until something else is written. *)
ForgetInMemory ==
  /\ memoryUp
  /\ \E i \in DOMAIN notes : notes' = Without(notes[i].n)
  /\ UNCHANGED <<cap, counter, notesWaiting, notesFile, memoryUp, trail, batchLost, unwritten, mstarts>>

(* memory-note.forget; an id that is not there changes nothing. *)
Forget ==
  /\ memoryUp
  /\ \E i \in DOMAIN notes : notes' = Without(notes[i].n)
  /\ notesWaiting' = Append(notesWaiting, notes')
  /\ UNCHANGED <<cap, counter, notesFile, memoryUp, trail, batchLost, unwritten, mstarts>>

----------------------------------------------------------------------------
(* The trail.                                                              *)

(* A tool result is recorded.  Over the maximum all but the recent ones    *)
(* are dropped, and summarised in a note; a notebook that is not there is  *)
(* an error that nobody sees.                                              *)
RecordResult ==
  /\ historyUp
  /\ entryCount < MaxEntryId /\ counter < MaxNoteId
  /\ entryCount' = entryCount + 1
  /\ \E size \in NoteSizes :
       LET all == Append(entries, [id |-> entryCount + 1, size |-> size])
           removed == IF Len(all) > HistoryMax THEN Max({0, Len(all) - KeepRecent}) ELSE 0
       IN /\ entries' = SubSeq(all, removed + 1, Len(all))
          /\ IF removed > 0 /\ memoryUp
             THEN Remember("finding", NoteImportance, 1)
             ELSE UNCHANGED notebook
          /\ batchLost' = (batchLost \/ (removed > 0 /\ ~memoryUp))
  /\ trailWaiting' = Append(trailWaiting, entries')
  /\ UNCHANGED <<trailFile, historyUp, unwritten, mstarts>>

----------------------------------------------------------------------------
(* The files.                                                              *)

NotesWritten ==
  /\ notesWaiting # <<>>
  /\ notesFile' = Head(notesWaiting)
  /\ notesWaiting' = Tail(notesWaiting)
  /\ unwritten' = unwritten \ {"notes"}
  /\ UNCHANGED <<cap, notes, counter, memoryUp, trail, batchLost, mstarts>>

TrailWritten ==
  /\ trailWaiting # <<>>
  /\ trailFile' = Head(trailWaiting)
  /\ trailWaiting' = Tail(trailWaiting)
  /\ unwritten' = unwritten \ {"trail"}
  /\ UNCHANGED <<notebook, entries, entryCount, historyUp, batchLost, mstarts>>

(* writeRaw swallows the error of a disk that refuses. *)
WriteRefused ==
  /\ \/ /\ notesWaiting # <<>>
        /\ notesWaiting' = Tail(notesWaiting)
        /\ unwritten' = unwritten \cup {"notes"}
        /\ UNCHANGED trailWaiting
     \/ /\ trailWaiting # <<>>
        /\ trailWaiting' = Tail(trailWaiting)
        /\ unwritten' = unwritten \cup {"trail"}
        /\ UNCHANGED notesWaiting
  /\ UNCHANGED <<cap, notes, counter, notesFile, memoryUp, entries, entryCount, trailFile,
                 historyUp, batchLost, mstarts>>

----------------------------------------------------------------------------
(* Start, teardown, kill.                                                  *)

MInit ==
  /\ cap \in NotebookCaps
  /\ notes = <<>> /\ counter = 0 /\ notesWaiting = <<>> /\ notesFile = <<>>
  /\ memoryUp = TRUE
  /\ entries = <<>> /\ entryCount = 0 /\ trailWaiting = <<>> /\ trailFile = <<>>
  /\ historyUp = FALSE
  /\ batchLost = FALSE /\ unwritten = {}
  /\ mstarts = 1

(* history loads after memory-note, whose action it requires. *)
HistoryLoads ==
  /\ memoryUp /\ ~historyUp
  /\ entryCount = 0 /\ entries = <<>> /\ trailWaiting = <<>>
  /\ historyUp' = TRUE
  /\ entries' = trailFile
  /\ entryCount' = Max({trailFile[i].id : i \in DOMAIN trailFile} \cup {0})
  /\ UNCHANGED <<notebook, trailWaiting, trailFile, batchLost, unwritten, mstarts>>

(* Teardown of history: it takes no more, and writes the file at once. *)
HistoryTearsDown ==
  /\ historyUp
  /\ historyUp' = FALSE
  /\ trailFile' = entries
  /\ unwritten' = unwritten \ {"trail"}
  /\ UNCHANGED <<notebook, entries, entryCount, trailWaiting, batchLost, mstarts>>

(* Mutant of MayStop: plugins are torn down in the order they were loaded. *)
MayStopAnyTime == TRUE

(* Plugins are torn down in reverse order: who requires another, before it. *)
MayStop == ~historyUp

MemoryTearsDown ==
  /\ memoryUp /\ MayStop
  /\ memoryUp' = FALSE
  /\ notesFile' = notes
  /\ unwritten' = unwritten \ {"notes"}
  /\ UNCHANGED <<cap, notes, counter, notesWaiting, trail, batchLost, mstarts>>

(* What a kill leaves of a file: what was last written, or an unreadable   *)
(* text if it came within a write.                                         *)
Left(f, waiting) == {f} \cup (IF waiting # <<>> THEN {<<>>} ELSE {})

MemoryRestarts ==
  /\ mstarts < MaxMStarts
  /\ mstarts' = mstarts + 1
  /\ cap' \in NotebookCaps
  /\ notesFile' \in Left(notesFile, notesWaiting)
  /\ trailFile' \in Left(trailFile, trailWaiting)
  /\ LoadNotes(notesFile')
  /\ memoryUp' = TRUE /\ historyUp' = FALSE
  /\ entries' = <<>> /\ entryCount' = 0 /\ trailWaiting' = <<>>
  /\ unwritten' = {}
  /\ UNCHANGED batchLost

MNext ==
  \/ AgentRemembers \/ Forget \/ RecordResult
  \/ NotesWritten \/ TrailWritten \/ WriteRefused
  \/ HistoryLoads \/ HistoryTearsDown \/ MemoryTearsDown \/ MemoryRestarts

MSpec == MInit /\ [][MNext]_mvars

----------------------------------------------------------------------------
(* What the agent is shown of them.                                        *)

(* Mutant of Cost: the heading of a section is not charged. *)
CostOfNote(note, headed) == note.size + 1

(* What a note adds: its line, and the heading of a section it opens. *)
Cost(note, headed) == note.size + 1 + (IF note.kind \in headed THEN 0 ELSE HeadingSize + 1)

(* renderNotes: in the order of the sections, the important and the new    *)
(* first, whatever still fits with room for the footer; the first always.  *)
ShowNotes(ordered, budget) ==
  FoldLeft(LAMBDA so, note :
             IF so.shown # {} /\ so.used + Cost(note, so.headed) > budget - FooterReserve THEN so
             ELSE [used |-> so.used + note.size + 1 + (IF note.kind \in so.headed THEN 0 ELSE HeadingSize + 1),
                   headed |-> so.headed \cup {note.kind}, shown |-> so.shown \cup {note}],
           [used |-> HeaderSize, headed |-> {}, shown |-> {}], ordered).shown

Rank(note) == CHOOSE k \in DOMAIN Kinds : Kinds[k] = note.kind
Before(a, b) == Rank(a) < Rank(b) \/ (Rank(a) = Rank(b) /\ Worse(b, a))
RenderNotes(ns, budget) == ShowNotes(SetToSortSeq(ToSet(ns), Before), budget)

(* renderLog: how many of the newest fit; the newest always. *)
RenderLog(es, budget) ==
  FoldRight(LAMBDA entry, so :
              IF so.full \/ (so.selected > 0 /\ so.length + entry.size + 1 > budget) THEN [so EXCEPT !.full = TRUE]
              ELSE [so EXCEPT !.length = @ + entry.size + 1, !.selected = @ + 1],
            es, [length |-> HeaderSize, selected |-> 0, full |-> FALSE]).selected

----------------------------------------------------------------------------
(* Properties.                                                             *)

(* Once the microtasks have run, each file holds what memory holds: after  *)
(* a note that was forgotten, a cap that was lowered, and a teardown that  *)
(* writes past texts still waiting; unless the disk refused the last text. *)
FilesHoldMemory ==
  /\ "notes" \notin unwritten =>
       IF notesWaiting = <<>> THEN notesFile = notes ELSE Last(notesWaiting) = notes
  /\ "trail" \notin unwritten /\ (historyUp \/ entryCount > 0) =>
       IF trailWaiting = <<>> THEN trailFile = entries ELSE Last(trailWaiting) = entries

(* history "DISTILLS a checkpoint note into memory-note when it compacts"  *)
(* (history/index.ts) and swallows an error of it: through every start,    *)
(* teardown and restart it finds the notebook there.                       *)
NoBatchIsLost == ~batchLost

(* "importance honestly": neither a note of the agent, nor a checkpoint    *)
(* that history writes behind its back, nor a lowered cap costs it a note  *)
(* while a less important one stays.                                       *)
KeepsImportant ==
  [][LET before == IF mstarts' # mstarts THEN notesFile' ELSE notes
     IN  counter' # counter \/ mstarts' # mstarts =>
           \A lost \in ToSet(before) \ ToSet(notes'), kept \in ToSet(notes') :
             lost.importance <= kept.importance]_mvars

(* What is shown fits its budget, headings, newlines and the footer for    *)
(* what is hidden included, unless it is the one that is always shown.     *)
ShownFits ==
  \A budget \in Budgets :
    /\ LET shown == RenderNotes(notes, budget)
           headings == {note.kind : note \in shown}
           size == HeaderSize + MapThenSumSet(LAMBDA note : note.size + 1, shown)
                     + (HeadingSize + 1) * Cardinality(headings)
                     + (IF Cardinality(shown) < Len(notes) THEN FooterSize + 1 ELSE 0)
       IN Cardinality(shown) > 1 => size <= budget
    /\ LET selected == RenderLog(entries, budget)
           lines == SubSeq(entries, Len(entries) - selected + 1, Len(entries))
       IN selected > 1 =>
            HeaderSize + MapThenSumSet(LAMBDA i : lines[i].size + 1, DOMAIN lines) <= budget
=============================================================================
