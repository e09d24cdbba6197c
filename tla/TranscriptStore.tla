--------------------------- MODULE TranscriptStore ---------------------------
(***************************************************************************)
(* The chat transcript of one agent: a bounded ring in memory and the file *)
(* chat.jsonl that is to replay it after a restart.                        *)
(*                                                                         *)
(* A new entry is one appended line, a receipt one rewrite of the window,  *)
(* and both wait their turn on a chain of promises: the line is made when  *)
(* its turn comes, the window when it is asked for.  What is on its way to *)
(* the disk lands whenever it lands; teardown writes at once, from a call  *)
(* that waits for nothing; and the process may be killed at any moment.    *)
(*                                                                         *)
(* An id is that of a user message; what the agent says is one of the      *)
(* same, which no receipt ever reaches.  An entry in memory is an object:  *)
(* of two lines with one id, which the file has once a write that was      *)
(* under way at teardown has landed after it, a load makes two.            *)
(***************************************************************************)
EXTENDS Integers, SequencesExt

CONSTANTS
  Capacity,     \* MAX_TRANSCRIPT
  MaxEntries,   \* bound: the largest id
  MaxStarts,    \* bound: how many times the process starts
  MaxFailures   \* bound: how many writes fail

ASSUME CapacityAssumption == Capacity \in Nat \ {0, 1}
ASSUME BoundsAssumption ==
  MaxEntries \in Nat /\ MaxStarts \in Nat \ {0} /\ MaxFailures \in Nat

Id == 1..MaxEntries
Line == [id : Id, read : BOOLEAN]

(* An entry, and the place of the line it was loaded from: 0 if it is new. *)
Entry == [id : Id, place : 0..Capacity]
Loaded(e, i) == [id |-> e, place |-> i]
Born(e) == Loaded(e, 0)

Rewrite(text) == [kind |-> "rewrite", text |-> text]
AppendOf(o) == [kind |-> "append", entry |-> o]

VARIABLES
  buf, head, count,   \* the ring
  isRead,             \* per entry: what its status says
  msgSeq,             \* the id counter of the process
  writing,            \* the writes chained and not begun
  flying,             \* the write Node works at: none, or [phase, text]
  closed,             \* compactSync has run
  file,               \* the lines on disk, and whether a torn one follows
  behind,             \* a line was lost that no rewrite has restored (history)
  twice,              \* the ids a late append gave a second line, and
  undone,             \* those a late write has unread again (histories)
  starts, failures    \* bounded

ring == <<buf, head, count>>
history == <<twice, undone>>
svars == <<ring, isRead, msgSeq, writing, flying, closed, file, behind, history, starts, failures>>

None == [phase |-> "none", text |-> <<>>]
Phase == {"none", "append", "rewrite", "truncated"}

(* list: the entries in memory, oldest first. *)
Window == SubSeq(buf, head + 1, head + count)

STypeOK ==
  /\ buf \in Seq(Entry) /\ Len(buf) <= 2 * Capacity + 1
  /\ head \in 0..Capacity
  /\ count \in 0..Capacity
  /\ head + count = Len(buf)
  /\ isRead \in [Entry -> BOOLEAN]
  /\ msgSeq \in 0..MaxEntries
  /\ \A i \in DOMAIN writing :
       \/ writing[i].kind = "append" /\ writing[i].entry \in Entry
       \/ writing[i].kind = "rewrite" /\ writing[i].text \in Seq(Line)
  /\ flying.phase \in Phase /\ flying.text \in Seq(Line)
  /\ closed \in BOOLEAN
  /\ file.lines \in Seq(Line) /\ file.torn \in BOOLEAN
  /\ behind \in BOOLEAN
  /\ twice \subseteq Id /\ undone \subseteq Id
  /\ starts \in 1..MaxStarts
  /\ failures \in 0..MaxFailures

----------------------------------------------------------------------------
(* The file.                                                               *)

LineWith(e, read) == [id |-> e, read |-> read]
LineOf(o) == LineWith(o.id, isRead[o])

(* serialize: the window with the statuses of now. *)
Serialize == [i \in 1..count |-> LineOf(Window[i])]

Text(lines) == [lines |-> lines, torn |-> FALSE]

(* A line appended to a torn one makes a single line, which no load reads. *)
WithLine(f, line) == Text(IF f.torn THEN f.lines ELSE Append(f.lines, line))

Newest(lines) ==
  IF Len(lines) > Capacity
  THEN SubSeq(lines, Len(lines) - Capacity + 1, Len(lines)) ELSE lines

IdsOf(lines) == {lines[i].id : i \in DOMAIN lines}

----------------------------------------------------------------------------
(* A process begins by loading the file.                                   *)

(* Mutant of LoadStatus: the load takes role, id and text only. *)
LoadNoStatus(lines) == isRead' = [o \in Entry |-> FALSE]

LoadStatus(lines) ==
  isRead' = [o \in Entry |-> o.place \in DOMAIN lines /\ lines[o.place] = LineWith(o.id, TRUE)]

(* Mutant of SeedMsgSeq: the counter continues the length of the history. *)
SeedByLength(lines) == msgSeq' = Len(lines)

(* seedMsgSeq(maxId()): past every id that was loaded. *)
SeedMsgSeq(lines) ==
  msgSeq' = IF lines = <<>> THEN 0 ELSE Max(IdsOf(lines))

Load(lines) ==
  /\ buf' = [i \in DOMAIN lines |-> Loaded(lines[i].id, i)]
  /\ head' = 0
  /\ count' = Len(lines)
  /\ LoadStatus(lines)
  /\ SeedMsgSeq(lines)

SInit ==
  /\ buf = <<>> /\ head = 0 /\ count = 0
  /\ isRead = [o \in Entry |-> FALSE]
  /\ msgSeq = 0
  /\ writing = <<>> /\ flying = None
  /\ closed = FALSE
  /\ file = Text(<<>>)
  /\ behind = FALSE /\ twice = {} /\ undone = {}
  /\ starts = 1 /\ failures = 0

----------------------------------------------------------------------------
(* What the channel does to the store.                                     *)

(* Mutant of Push: the prefix is sliced off one entry too far. *)
PushOffByOne(o) ==
  IF count < Capacity
  THEN buf' = Append(buf, o) /\ count' = count + 1 /\ UNCHANGED head
  ELSE /\ IF head + 1 >= Capacity
          THEN buf' = SubSeq(Append(buf, o), head + 3, Len(buf) + 1) /\ head' = 0
          ELSE buf' = Append(buf, o) /\ head' = head + 1
       /\ UNCHANGED count

(* The ring takes an entry: its oldest goes when it is full, and the dead   *)
(* prefix with it once it is longer than the capacity.                     *)
Push(o) ==
  LET all == Append(buf, o) IN
  IF count < Capacity
  THEN buf' = all /\ count' = count + 1 /\ UNCHANGED head
  ELSE /\ IF head + 1 > Capacity
          THEN buf' = SubSeq(all, head + 2, Len(all)) /\ head' = 0
          ELSE buf' = all /\ head' = head + 1
       /\ UNCHANGED count

(* A message is posted, or sent by the agent. *)
NewEntry ==
  /\ ~closed
  /\ msgSeq < MaxEntries
  /\ LET e == msgSeq + 1 IN
       /\ msgSeq' = e
       /\ Push(Born(e))
       /\ isRead' = [isRead EXCEPT ![Born(e)] = FALSE]
       /\ writing' = Append(writing, AppendOf(Born(e)))
  /\ UNCHANGED <<flying, closed, file, behind, history, starts, failures>>

(* flip: of the entries in memory the first that has the id. *)
Flipped(ids) ==
  {Window[i] : i \in {k \in 1..count : /\ Window[k].id \in ids
                                     /\ \A j \in 1..(k - 1) : Window[j].id # Window[k].id}}

WindowWith(reads) ==
  [i \in 1..count |-> LineWith(Window[i].id, Window[i] \in reads \/ isRead[Window[i]])]

(* markReadMany: the receipts a returned request claimed. *)
MarkReadMany(ids) ==
  /\ ~closed
  /\ \E o \in Flipped(ids) : ~isRead[o]
  /\ isRead' = [o \in Entry |-> isRead[o] \/ o \in Flipped(ids)]
  /\ writing' = Append(writing, Rewrite(WindowWith(Flipped(ids))))
  /\ UNCHANGED <<ring, msgSeq, flying, closed, file, behind, history, starts, failures>>

(* What is under way when the teardown writes lands after it: an append     *)
(* writes its line a second time, and either may have unread what is read. *)
AppendedTwice == IF flying.phase = "append" THEN IdsOf(flying.text) ELSE {}
ReadAgain ==
  {e \in Id : /\ LineWith(e, FALSE) \in ToSet(flying.text)
              /\ \/ flying.phase = "append"
                 \/ LineWith(e, TRUE) \in ToSet(Serialize)}

(* Teardown: nothing chained will be begun, the file is written at once. *)
CompactSync ==
  /\ ~closed
  /\ closed' = TRUE
  /\ file' = Text(Serialize)
  /\ behind' = FALSE
  /\ twice' = twice \cup AppendedTwice
  /\ undone' = undone \cup ReadAgain
  /\ UNCHANGED <<ring, isRead, msgSeq, writing, flying, starts, failures>>

----------------------------------------------------------------------------
(* The chain, and the disk.                                                *)

(* Mutant of FlightOf: the window is made when its turn comes. *)
FlightOfNow(op) ==
  IF op.kind = "append" THEN [phase |-> "append", text |-> <<LineOf(op.entry)>>]
  ELSE [phase |-> "rewrite", text |-> Serialize]

(* The line of an append is made now, the text of a rewrite was made then. *)
FlightOf(op) ==
  IF op.kind = "append" THEN [phase |-> "append", text |-> <<LineOf(op.entry)>>]
  ELSE [phase |-> "rewrite", text |-> op.text]

(* The next write's turn: it begins, unless the store is closed. *)
BeginWrite ==
  /\ flying = None
  /\ writing # <<>>
  /\ writing' = Tail(writing)
  /\ flying' = IF closed THEN None ELSE FlightOf(Head(writing))
  /\ UNCHANGED <<ring, isRead, msgSeq, closed, file, behind, history, starts, failures>>

(* writeFile opens the file: it is empty until the text is written. *)
Truncate ==
  /\ flying.phase = "rewrite"
  /\ flying' = [flying EXCEPT !.phase = "truncated"]
  /\ file' = Text(<<>>)
  /\ UNCHANGED <<ring, isRead, msgSeq, writing, closed, behind, history, starts, failures>>

Land ==
  /\ flying.phase \in {"append", "truncated"}
  /\ file' = IF flying.phase = "append" THEN WithLine(file, flying.text[1])
             ELSE Text(flying.text)
  /\ behind' = IF flying.phase = "append" THEN behind \/ file.torn ELSE FALSE
  /\ flying' = None
  /\ UNCHANGED <<ring, isRead, msgSeq, writing, closed, history, starts, failures>>

(* A write is refused (a full disk); the error is swallowed. *)
WriteFails ==
  /\ flying # None
  /\ failures < MaxFailures
  /\ failures' = failures + 1
  /\ behind' = TRUE
  /\ flying' = None
  /\ UNCHANGED <<ring, isRead, msgSeq, writing, closed, file, history, starts>>

(* What a kill leaves of the file: what has landed, a part of the line or of *)
(* the text that was being written, or all of it.                          *)
Remains ==
  CASE flying.phase = "append" ->
         {file, [file EXCEPT !.torn = TRUE], WithLine(file, flying.text[1])}
    [] flying.phase = "truncated" ->
         {Text(flying.text)} \cup
           {[lines |-> SubSeq(flying.text, 1, n), torn |-> t] :
              n \in 0..(Len(flying.text) - 1), t \in BOOLEAN}
    [] OTHER -> {file}

(* The process ends, by a kill or after its teardown, and starts again. *)
Restart ==
  /\ starts < MaxStarts
  /\ starts' = starts + 1
  /\ \E f \in Remains :
       /\ file' = f
       /\ Load(Newest(f.lines))
  /\ writing' = <<>> /\ flying' = None
  /\ closed' = FALSE
  /\ behind' = FALSE
  /\ twice' = twice \cap IdsOf(file'.lines) /\ undone' = undone \cap IdsOf(file'.lines)
  /\ UNCHANGED failures

SNext ==
  \/ NewEntry
  \/ \E ids \in SUBSET Id : MarkReadMany(ids)
  \/ CompactSync
  \/ BeginWrite \/ Truncate \/ Land \/ WriteFails
  \/ Restart

SSpec == SInit /\ [][SNext]_svars

----------------------------------------------------------------------------
(* Properties.                                                             *)

(* The file once the write under way is done, and its lines once those that *)
(* wait are, too.                                                          *)
Flown ==
  CASE flying.phase = "append" -> WithLine(file, flying.text[1])
    [] flying.phase \in {"rewrite", "truncated"} -> Text(flying.text)
    [] OTHER -> file
(* The place of the last rewrite that waits, 0 if none does: no write       *)
(* before it will be seen.                                                 *)
LastRewrite == Max({0} \cup {i \in DOMAIN writing : writing[i].kind = "rewrite"})
Replay ==
  (IF LastRewrite = 0 THEN Flown.lines ELSE writing[LastRewrite].text)
    \o [i \in 1..(Len(writing) - LastRewrite) |-> LineOf(writing[LastRewrite + i].entry)]

RewriteComes ==
  \/ flying.phase \in {"rewrite", "truncated"}
  \/ \E i \in DOMAIN writing : writing[i].kind = "rewrite"

(* However appends and receipts overtake each other, the chain drains to a *)
(* file that replays the window, statuses included; a line that was lost   *)
(* to a failed write or a torn tail is back with the next rewrite.         *)
ReplayGivesWindow ==
  ~closed /\ ((~behind /\ ~file.torn) \/ RewriteComes) => Newest(Replay) = Serialize

(* "a new message can never reuse an id that survived a restart"           *)
(* (web-chat/index.ts, seedMsgSeq), whatever was lost, torn or written     *)
(* late; and "no duplicated lines" (persist), so a receipt has one entry   *)
(* to flip: two have one id only when both were loaded, and of an id whose *)
(* append was under way at a teardown.                                     *)
UniqueIds ==
  \A i, k \in 1..count : Window[i].id = Window[k].id =>
    \/ i = k
    \/ Window[i].id \in twice /\ Window[i].place > 0 /\ Window[k].place > 0

(* What is on the disk, or on its way there once the file was emptied.     *)
OnDisk == ToSet(file.lines) \cup (IF flying.phase = "truncated" THEN ToSet(flying.text) ELSE {})

(* A receipt that has reached the disk does not go back to unread: not by a *)
(* crash, a teardown or the load that follows, nor by a later message or    *)
(* its receipt.  A rewrite older than the receipt takes it back only while  *)
(* the one that has it waits, and then not in a store that is closed; a     *)
(* write under way when a teardown wrote takes back what it has unread.     *)
ReceiptsStay ==
  [][\A e \in Id :
       LineWith(e, TRUE) \in OnDisk /\ LineWith(e, FALSE) \in OnDisk' =>
         \/ e \in undone'
         \/ ~closed' /\ \E i \in DOMAIN writing' :
              writing'[i].kind = "rewrite" /\ LineWith(e, TRUE) \in ToSet(writing'[i].text)]_svars

(* "leaving this sync write authoritative ... so it replays exactly after a *)
(* clean restart" (compactSync).                                           *)
ReplaysExactly ==
  closed /\ flying = None /\ failures = 0 => file = Text(Serialize)
=============================================================================
