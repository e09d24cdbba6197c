---------------------------- MODULE Stores_proofs ----------------------------
(***************************************************************************)
(* What an agent keeps on disk, for any capacities, bounds and clocks: the *)
(* chat's transcript (TranscriptStore), the inspector's journal (Journal), *)
(* the notebook and the trail of results (Memory), and at the end all of   *)
(* them beside the page and the logbook that Pages_proofs is about.  Each  *)
(* store has an invariant that says of its chain of writes what the file   *)
(* will hold once the chain has run.                                       *)
(***************************************************************************)
EXTENDS Pages_proofs

(***************************************************************************)
(* The chat transcript.                                                    *)

Op == [kind : {"append"}, entry : Entry] \cup [kind : {"rewrite"}, text : Seq(Line)]
FileOfLines == [lines : Seq(Line), torn : BOOLEAN]

(* Of any beginning of what was ever in the file, the largest id is that of *)
(* the last line or of the one before it; so of the newest lines, if these  *)
(* are two at least, the largest is the largest of all.                    *)
Late(lines) ==
  \A k \in 1..Len(lines) : \A i \in 1..k :
    lines[i].id <= lines[k].id \/ (k > 1 /\ lines[i].id <= lines[k - 1].id)

(* No two lines have one id, unless a late append wrote one of them; and    *)
(* then both have the receipt, unless what was late has not.                *)
Once(lines, e) == \A i, k \in 1..Len(lines) : lines[i].id = e /\ lines[k].id = e => i = k
Alike(lines, e) ==
  \A i, k \in 1..Len(lines) : lines[i].id = e /\ lines[k].id = e => i = k \/ (lines[i].read /\ lines[k].read)
Apart(lines, two, un) ==
  \A e \in Id : (e \notin two => Once(lines, e)) /\ (e \notin un => Alike(lines, e))

UpTo(lines, n) == \A i \in 1..Len(lines) : lines[i].id <= n
Under(lines, e) == \A i \in 1..Len(lines) : lines[i].id < e
GoodText(lines, n) == lines \in Seq(Line) /\ Late(lines) /\ Apart(lines, twice, undone) /\ UpTo(lines, n)

(* An entry of the id has got its receipt. *)
Given(reads, e) == \E o \in Entry : o.id = e /\ reads[o]

ChatTypes ==
  /\ STypeOK
  /\ writing \in Seq(Op) /\ flying \in [phase : Phase, text : Seq(Line)] /\ file \in FileOfLines
  /\ flying.phase = "append" => Len(flying.text) = 1
BufferGood ==
  /\ UpTo(buf, msgSeq) /\ Late(buf)
  /\ \A i, k \in 1..Len(buf) : buf[i].id = buf[k].id =>
       i = k \/ (buf[i].id \in twice /\ buf[i].place > 0 /\ buf[k].place > 0)

(* Of two entries with one id both have the receipt, and so have all when  *)
(* one has, unless a late write took a receipt back.                       *)
StatusGood ==
  /\ \A o \in Entry : isRead[o] => o.id <= msgSeq
  /\ \A i, k \in 1..Len(buf) : buf[i].id = buf[k].id /\ buf[i].id \notin undone => i = k \/ isRead[buf[i]]
  /\ \A i \in 1..Len(buf) : buf[i].id \notin undone /\ Given(isRead, buf[i].id) => isRead[buf[i]]
TextsGood ==
  /\ Late(file.lines) /\ UpTo(file.lines, msgSeq) /\ Apart(file.lines, twice, undone)
  /\ GoodText(flying.text, msgSeq)
  /\ \A i \in 1..Len(writing) :
       /\ writing[i].kind = "append" => writing[i].entry.id <= msgSeq
       /\ writing[i].kind = "rewrite" => GoodText(writing[i].text, msgSeq)

(* What waits to be appended is newer than what will be in the file then;  *)
(* and what was being appended when the teardown wrote has been written by *)
(* it, as the newest or before it.                                         *)
AppendsCome == flying.phase = "append" \/ \E i \in 1..Len(writing) : writing[i].kind = "append"
AppendsAreNew ==
  /\ AppendsCome => count > 0 /\ buf[Len(buf)].id = msgSeq
  /\ closed /\ flying.phase = "append" => Len(file.lines) > 0 /\ file.lines[Len(file.lines)].id = msgSeq
  /\ ~closed =>
       /\ flying.phase = "append" => Under(file.lines, flying.text[1].id)
       /\ \A i \in 1..Len(writing) : writing[i].kind = "append" =>
            /\ Under(file.lines, writing[i].entry.id) /\ Under(flying.text, writing[i].entry.id)
            /\ \A j \in 1..(i - 1) :
                 /\ writing[j].kind = "append" => writing[j].entry.id < writing[i].entry.id
                 /\ writing[j].kind = "rewrite" => Under(writing[j].text, writing[i].entry.id)

Has(lines, line) == \E i \in 1..Len(lines) : lines[i] = line
WillWrite(line) == \E i \in 1..Len(writing) : writing[i].kind = "rewrite" /\ Has(writing[i].text, line)
OnFile(line) == Has(file.lines, line) \/ (flying.phase = "truncated" /\ Has(flying.text, line))
InBuffer(e) == \E i \in 1..count : buf[head + i].id = e

(* Whatever has a receipt has one in memory, and a text that has not is    *)
(* followed by one that has.                                               *)
ReadsAreKept ==
  ~closed =>
    /\ flying.phase = "truncated" => file.lines = <<>>
    /\ \A e \in Id \ undone :
         /\ OnFile(LineWith(e, TRUE)) /\ InBuffer(e) => Given(isRead, e)
         /\ OnFile(LineWith(e, TRUE)) /\ Has(flying.text, LineWith(e, FALSE)) /\ flying.phase = "rewrite" => Given(isRead, e)
         /\ OnFile(LineWith(e, TRUE)) /\ WillWrite(LineWith(e, FALSE)) => Given(isRead, e)
         /\ flying.phase \in {"rewrite", "truncated"} /\ Has(flying.text, LineWith(e, FALSE)) /\ Given(isRead, e) =>
              WillWrite(LineWith(e, TRUE))
         /\ \A i \in 1..Len(writing) :
              writing[i].kind = "rewrite" /\ Has(writing[i].text, LineWith(e, FALSE)) /\ Given(isRead, e) =>
                \E j \in (i + 1)..Len(writing) : writing[j].kind = "rewrite" /\ Has(writing[j].text, LineWith(e, TRUE))
         /\ Has(flying.text, LineWith(e, TRUE)) \/ WillWrite(LineWith(e, TRUE)) => Given(isRead, e)

(* What lands after the teardown has written agrees with it, but for what   *)
(* it takes back; an append writes a second line.                          *)
LateWritesAgree ==
  closed =>
    /\ \A e \in Id \ undone :
         /\ ~(Has(file.lines, LineWith(e, TRUE)) /\ Has(flying.text, LineWith(e, FALSE)))
         /\ ~(Has(file.lines, LineWith(e, FALSE)) /\ Has(flying.text, LineWith(e, TRUE)))
         /\ flying.phase = "append" => ~Has(flying.text, LineWith(e, FALSE))
    /\ flying.phase = "append" => flying.text[1].id \in twice

ChatInv ==
  /\ ChatTypes /\ BufferGood /\ StatusGood
  /\ TextsGood /\ AppendsAreNew /\ ReadsAreKept /\ LateWritesAgree

(* The sizes of the transcript are numbers, and the window has room for two. *)
LEMMA EntriesAre ==
  /\ Id \subseteq Nat /\ Capacity \in Nat /\ Capacity >= 2 /\ MaxEntries \in Nat
  /\ \A o \in Entry : o.id \in Id /\ o.id \in Nat /\ o.place \in Nat
  /\ \A e \in Id : Born(e) \in Entry /\ Born(e).id = e /\ Born(e).place = 0
<1>1. Id \subseteq Nat /\ Capacity \in Nat /\ Capacity >= 2 /\ MaxEntries \in Nat
  BY CapacityAssumption, BoundsAssumption DEF Id
<1>2. ASSUME NEW o \in Entry PROVE o.id \in Id /\ o.id \in Nat /\ o.place \in Nat
  <2>1. o.id \in 1..MaxEntries /\ o.place \in 0..Capacity
    BY DEF Entry, Id
  <2>2. o.id \in Nat /\ o.place \in Nat
    BY <1>1, <2>1
  <2> QED
    BY <2>1, <2>2 DEF Id
<1>3. \A e \in Id : Born(e) \in Entry /\ Born(e).id = e /\ Born(e).place = 0
  BY <1>1 DEF Born, Loaded, Entry
<1> QED
  BY <1>1, <1>2, <1>3

(* The window is the live end of the buffer. *)
LEMMA WindowIs ==
  ASSUME STypeOK
  PROVE  /\ Len(Window) = count /\ count \in Nat /\ head \in Nat /\ Window \in Seq(Entry)
         /\ Len(buf) = head + count
         /\ \A i \in 1..count : Window[i] = buf[head + i] /\ head + i \in 1..Len(buf) /\ Window[i] \in Entry
<1>1. /\ count \in Nat /\ head \in Nat /\ Len(buf) = head + count
      /\ buf \in Seq(Entry)
  BY EntriesAre DEF STypeOK
<1>2. /\ (head + count) - (head + 1) + 1 = count
      /\ (IF head + 1 <= head + count THEN (head + count) - (head + 1) + 1 ELSE 0) = count
      /\ \A i \in 1..count : (head + 1) + i - 1 = head + i /\ head + i \in 1..Len(buf)
      /\ \A i \in (head + 1)..(head + count) : i \in 1..Len(buf)
      /\ head + 1 \in Int /\ head + count \in Int
  BY <1>1
<1>3. \A i \in (head + 1)..(head + count) : buf[i] \in Entry
  BY <1>1, <1>2, ElementOfSeq
<1>4. /\ Window \in Seq(Entry)
      /\ Len(Window) = IF head + 1 <= head + count THEN (head + count) - (head + 1) + 1 ELSE 0
      /\ \A i \in 1..((head + count) - (head + 1) + 1) : Window[i] = buf[(head + 1) + i - 1]
  BY <1>2, <1>3, SubSeqProperties DEF Window
<1>5. \A i \in 1..count : Window[i] = buf[head + i] /\ head + i \in 1..Len(buf)
  BY <1>2, <1>4
<1>6. \A i \in 1..count : Window[i] \in Entry
  <2>1. \A i \in 1..Len(buf) : buf[i] \in Entry
    BY <1>1, ElementOfSeq
  <2> QED
    BY <1>5, <2>1
<1> QED
  BY <1>1, <1>2, <1>4, <1>5, <1>6

(* A text that lists the window, with its receipts at least, is a good one. *)
LEMMA TextOfWindow ==
  ASSUME ChatTypes, BufferGood, StatusGood, NEW t, DOMAIN t = 1..count, t = [i \in 1..count |-> t[i]],
         \A i \in 1..count : t[i] \in Line /\ t[i].id = Window[i].id /\ (isRead[Window[i]] => t[i].read)
  PROVE  /\ GoodText(t, msgSeq) /\ Len(t) = count
         /\ \A i \in 1..count : t[i].id = buf[head + i].id
<1>1. /\ count \in Nat /\ head \in Nat /\ Len(buf) = head + count
      /\ \A i \in 1..count : Window[i] = buf[head + i] /\ head + i \in 1..Len(buf) /\ Window[i] \in Entry
  BY WindowIs DEF ChatTypes
<1>2. t \in Seq(Line)
  <2>1. t \in [1..count -> Line]
    OBVIOUS
  <2> QED
    BY <1>1, <2>1, SeqDef
<1>3. Len(t) = count
  BY <1>1, <1>2, LenProperties
<1>4. \A i \in 1..count : t[i].id = buf[head + i].id /\ buf[head + i].id \in Nat
  BY <1>1, EntriesAre
<1>5. Apart(t, twice, undone)
  <2> SUFFICES ASSUME NEW i \in 1..count, NEW k \in 1..count, t[i].id = t[k].id, i # k
               PROVE  t[i].id \in twice /\ (t[i].id \notin undone => t[i].read /\ t[k].read)
    BY <1>3 DEF Apart, Once, Alike
  <2>0. /\ head + i \in 1..Len(buf) /\ head + k \in 1..Len(buf) /\ head + i # head + k
        /\ buf[head + i] = Window[i] /\ buf[head + k] = Window[k]
    BY <1>1
  <2>1. buf[head + i].id = buf[head + k].id /\ t[i].id = buf[head + i].id
    BY <1>4
  <2>2. t[i].id \in twice
    BY <2>0, <2>1 DEF BufferGood
  <2>3. t[i].id \notin undone => isRead[Window[i]] /\ isRead[Window[k]]
    BY <2>0, <2>1 DEF StatusGood
  <2> QED
    BY <2>2, <2>3
<1>6. UpTo(t, msgSeq)
  BY <1>1, <1>3, <1>4 DEF UpTo, BufferGood
<1>7. Late(t)
  <2> SUFFICES ASSUME NEW k \in 1..count, NEW i \in 1..k
               PROVE  t[i].id <= t[k].id \/ (k > 1 /\ t[i].id <= t[k - 1].id)
    BY <1>3 DEF Late
  <2>1. i \in 1..count /\ head + k \in 1..Len(buf) /\ head + i \in 1..(head + k)
    BY <1>1
  <2>2. buf[head + i].id <= buf[head + k].id \/ (head + k > 1 /\ buf[head + i].id <= buf[(head + k) - 1].id)
    BY <2>1 DEF BufferGood, Late
  <2>3. CASE i = k
    BY <1>4, <2>1, <2>3
  <2>4. CASE i # k
    <3>1. k > 1 /\ k - 1 \in 1..count /\ head + (k - 1) = (head + k) - 1
      BY <1>1, <2>1, <2>4
    <3> QED
      BY <1>4, <2>1, <2>2, <3>1
  <2> QED
    BY <2>3, <2>4
<1> QED
  BY <1>2, <1>3, <1>4, <1>5, <1>6, <1>7 DEF GoodText

(* A rewrite of the window lists it, with the receipts of now. *)
LEMMA SerializeIs ==
  ASSUME ChatTypes, BufferGood, StatusGood
  PROVE  /\ GoodText(Serialize, msgSeq) /\ Len(Serialize) = count
         /\ \A i \in 1..count : Serialize[i] = LineWith(buf[head + i].id, isRead[buf[head + i]])
<1>1. /\ count \in Nat /\ \A i \in 1..count : Window[i] = buf[head + i] /\ Window[i] \in Entry
  BY WindowIs DEF ChatTypes
<1>2. /\ DOMAIN Serialize = 1..count /\ Serialize = [i \in 1..count |-> Serialize[i]]
      /\ \A i \in 1..count : Serialize[i] = LineWith(Window[i].id, isRead[Window[i]])
  BY DEF Serialize, LineOf
<1>3. \A i \in 1..count : /\ Serialize[i] \in Line /\ Serialize[i].id = Window[i].id
                          /\ isRead[Window[i]] => Serialize[i].read
  <2> TAKE i \in 1..count
  <2>1. isRead[Window[i]] \in BOOLEAN /\ Window[i].id \in Id
    BY <1>1, EntriesAre DEF ChatTypes, STypeOK
  <2> QED
    BY <1>2, <2>1 DEF LineWith, Line
<1>4. GoodText(Serialize, msgSeq) /\ Len(Serialize) = count
  <2> DEFINE t == Serialize
  <2>1. DOMAIN t = 1..count /\ t = [i \in 1..count |-> t[i]]
    BY <1>2
  <2>2. \A i \in 1..count : t[i] \in Line /\ t[i].id = Window[i].id /\ (isRead[Window[i]] => t[i].read)
    BY <1>3
  <2> HIDE DEF t
  <2>3. GoodText(t, msgSeq) /\ Len(t) = count
    BY <2>1, <2>2, TextOfWindow
  <2> QED
    BY <2>3 DEF t
<1> QED
  BY <1>1, <1>2, <1>4

(* So does the rewrite that a receipt asks for, with that receipt. *)
LEMMA WindowWithIs ==
  ASSUME ChatTypes, BufferGood, StatusGood, NEW reads \in SUBSET Entry
  PROVE  /\ GoodText(WindowWith(reads), msgSeq) /\ Len(WindowWith(reads)) = count
         /\ \A i \in 1..count :
              WindowWith(reads)[i] = LineWith(buf[head + i].id, buf[head + i] \in reads \/ isRead[buf[head + i]])
<1>1. /\ count \in Nat /\ \A i \in 1..count : Window[i] = buf[head + i] /\ Window[i] \in Entry
  BY WindowIs DEF ChatTypes
<1> DEFINE t == WindowWith(reads)
<1>2. /\ DOMAIN t = 1..count /\ t = [i \in 1..count |-> t[i]]
      /\ \A i \in 1..count : t[i] = LineWith(Window[i].id, Window[i] \in reads \/ isRead[Window[i]])
  BY DEF WindowWith
<1>3. \A i \in 1..count : t[i] \in Line /\ t[i].id = Window[i].id /\ (isRead[Window[i]] => t[i].read)
  <2> TAKE i \in 1..count
  <2> DEFINE r == Window[i] \in reads \/ isRead[Window[i]]
  <2>1. r \in BOOLEAN /\ t[i] = LineWith(Window[i].id, r) /\ (isRead[Window[i]] => r) /\ Window[i].id \in Id
    BY <1>1, <1>2, EntriesAre
  <2> HIDE DEF t, r
  <2> QED
    BY <2>1 DEF LineWith, Line
<1> HIDE DEF t
<1>4. GoodText(t, msgSeq) /\ Len(t) = count
  BY <1>2, <1>3, TextOfWindow
<1>5. \A i \in 1..count : t[i] = LineWith(buf[head + i].id, buf[head + i] \in reads \/ isRead[buf[head + i]])
  BY <1>1, <1>2
<1> QED
  BY <1>4, <1>5 DEF t

(* A line that is appended is the last, unless the file was torn. *)
LEMMA WithLineIs ==
  ASSUME NEW f \in FileOfLines, NEW line \in Line
  PROVE  /\ WithLine(f, line) \in FileOfLines
         /\ f.torn => WithLine(f, line).lines = f.lines
         /\ ~f.torn => /\ WithLine(f, line).lines = Append(f.lines, line)
                       /\ Len(WithLine(f, line).lines) = Len(f.lines) + 1
                       /\ \A i \in 1..Len(f.lines) : WithLine(f, line).lines[i] = f.lines[i]
                       /\ WithLine(f, line).lines[Len(f.lines) + 1] = line
         /\ Len(f.lines) \in Nat
<1>1. f.lines \in Seq(Line)
  BY DEF FileOfLines
<1>2. Append(f.lines, line) \in Seq(Line) /\ Len(Append(f.lines, line)) = Len(f.lines) + 1
      /\ (\A i \in 1..Len(f.lines) : Append(f.lines, line)[i] = f.lines[i])
      /\ Append(f.lines, line)[Len(f.lines) + 1] = line /\ Len(f.lines) \in Nat
  BY <1>1, AppendProperties, LenProperties
<1> QED
  BY <1>1, <1>2 DEF WithLine, Text, FileOfLines

(* Of what a line consists. *)
LEMMA LineHasId ==
  ASSUME NEW e, NEW r PROVE LineWith(e, r).id = e /\ LineWith(e, r).read = r
BY DEF LineWith

(* An empty transcript is as it should be. *)
LEMMA ChatStarts == SInit => ChatInv
<1> SUFFICES ASSUME SInit PROVE ChatInv
  OBVIOUS
<1> USE DEF SInit
<1>1. <<>> \in Seq(Line) /\ <<>> \in Seq(Op) /\ <<>> \in Seq(Entry) /\ Len(<<>>) = 0
  BY EmptySeq
<1>2. ChatTypes
  <2>1. STypeOK
    <3>1. /\ buf \in Seq(Entry) /\ Len(buf) = 0 /\ head + count = Len(buf)
          /\ 0 <= 2 * Capacity + 1 /\ head \in 0..Capacity /\ count \in 0..Capacity
          /\ msgSeq \in 0..MaxEntries /\ starts \in 1..MaxStarts /\ failures \in 0..MaxFailures
      BY <1>1, EntriesAre, BoundsAssumption
    <3>2. isRead \in [Entry -> BOOLEAN] /\ closed \in BOOLEAN /\ behind \in BOOLEAN
      OBVIOUS
    <3>3. flying.phase \in Phase /\ flying.text \in Seq(Line) /\ file.lines \in Seq(Line) /\ file.torn \in BOOLEAN
      BY <1>1 DEF None, Text, Phase
    <3>4. ~(\E i : i \in DOMAIN writing)
      BY <1>1, LenProperties
    <3> QED
      BY <3>1, <3>2, <3>3, <3>4 DEF STypeOK
  <2> QED
    BY <1>1, <2>1 DEF ChatTypes, Text, None, FileOfLines, Phase
<1>3. \A x : ~(x \in 1..Len(<<>>))
  BY <1>1
<1>4. BufferGood /\ StatusGood
  BY <1>3, EntriesAre DEF BufferGood, StatusGood, Late, UpTo
<1>5. TextsGood
  BY <1>1, <1>3 DEF TextsGood, GoodText, Late, Apart, Once, Alike, UpTo, None, Text
<1>6. AppendsAreNew
  BY <1>3 DEF AppendsAreNew, AppendsCome, None, Under, Text
<1>7. ReadsAreKept /\ LateWritesAgree
  BY <1>3 DEF ReadsAreKept, LateWritesAgree, Has, OnFile, WillWrite, None, Text
<1> QED
  BY <1>2, <1>4, <1>5, <1>6, <1>7 DEF ChatInv

----------------------------------------------------------------------------
(* The writes that wait.                                                   *)

(* A write that is asked for waits behind the others. *)
LEMMA QueueGrows ==
  ASSUME writing \in Seq(Op), NEW op \in Op, writing' = Append(writing, op)
  PROVE  /\ writing' \in Seq(Op) /\ Len(writing) \in Nat /\ Len(writing') = Len(writing) + 1
         /\ \A i \in 1..Len(writing) : writing'[i] = writing[i]
         /\ writing'[Len(writing) + 1] = op
         /\ \A line : WillWrite(line)' <=> WillWrite(line) \/ (op.kind = "rewrite" /\ Has(op.text, line))
<1>1. /\ writing' \in Seq(Op) /\ Len(writing) \in Nat /\ Len(writing') = Len(writing) + 1
      /\ \A i \in 1..Len(writing) : writing'[i] = writing[i]
      /\ writing'[Len(writing) + 1] = op
  BY AppendProperties, LenProperties
<1>2. ASSUME NEW line PROVE WillWrite(line)' <=> WillWrite(line) \/ (op.kind = "rewrite" /\ Has(op.text, line))
  <2>1. ASSUME NEW i \in 1..Len(writing'), writing'[i].kind = "rewrite", Has(writing'[i].text, line)
        PROVE  WillWrite(line) \/ (op.kind = "rewrite" /\ Has(op.text, line))
    <3>1. CASE i \in 1..Len(writing)
      BY <1>1, <2>1, <3>1 DEF WillWrite
    <3>2. CASE i = Len(writing) + 1
      BY <1>1, <2>1, <3>2
    <3> QED
      BY <1>1, <3>1, <3>2
  <2>2. ASSUME WillWrite(line) PROVE WillWrite(line)'
    <3>1. PICK i \in 1..Len(writing) : writing[i].kind = "rewrite" /\ Has(writing[i].text, line)
      BY <2>2 DEF WillWrite
    <3>2. i \in 1..Len(writing') /\ writing'[i] = writing[i]
      BY <1>1
    <3> QED
      BY <3>1, <3>2 DEF WillWrite
  <2>3. ASSUME op.kind = "rewrite" /\ Has(op.text, line) PROVE WillWrite(line)'
    <3>1. Len(writing) + 1 \in 1..Len(writing')
      BY <1>1
    <3> QED
      BY <1>1, <2>3, <3>1 DEF WillWrite
  <2> QED
    BY <2>1, <2>2, <2>3 DEF WillWrite, Has
<1> QED
  BY <1>1, <1>2

(* The first write leaves the others as they were. *)
LEMMA QueueShrinks ==
  ASSUME writing \in Seq(Op), writing # <<>>, writing' = Tail(writing)
  PROVE  /\ writing' \in Seq(Op) /\ Len(writing) \in Nat /\ Len(writing') \in Nat /\ Len(writing) = Len(writing') + 1
         /\ \A i \in 1..Len(writing') : writing'[i] = writing[i + 1]
         /\ Head(writing) = writing[1] /\ Head(writing) \in Op
         /\ \A line : WillWrite(line)' => WillWrite(line)
         /\ \A line : (\E j \in 2..Len(writing) : writing[j].kind = "rewrite" /\ Has(writing[j].text, line)) => WillWrite(line)'
<1>1. /\ writing' \in Seq(Op) /\ Len(writing) \in Nat /\ Len(writing') \in Nat /\ Len(writing) = Len(writing') + 1
      /\ \A i \in 1..Len(writing') : writing'[i] = writing[i + 1]
      /\ Head(writing) = writing[1] /\ Head(writing) \in Op
  BY HeadTailProperties, LenProperties, EmptySeq
<1>2. ASSUME NEW line, WillWrite(line)' PROVE WillWrite(line)
  <2>1. PICK i \in 1..Len(writing') : writing'[i].kind = "rewrite" /\ Has(writing'[i].text, line)
    BY <1>2 DEF WillWrite, Has
  <2>2. i + 1 \in 1..Len(writing) /\ writing'[i] = writing[i + 1]
    BY <1>1
  <2> QED
    BY <2>1, <2>2 DEF WillWrite
<1>3. ASSUME NEW line, NEW j \in 2..Len(writing), writing[j].kind = "rewrite" /\ Has(writing[j].text, line)
      PROVE  WillWrite(line)'
  <2>1. j - 1 \in 1..Len(writing') /\ (j - 1) + 1 = j
    BY <1>1
  <2>2. writing'[j - 1] = writing[j]
    BY <1>1, <2>1
  <2> QED
    BY <1>3, <2>1, <2>2 DEF WillWrite, Has
<1> QED
  BY <1>1, <1>2, <1>3

(* What will be written depends on the chain only. *)
LEMMA WillWriteSame ==
  ASSUME writing' = writing, NEW line
  PROVE  WillWrite(line)' <=> WillWrite(line)
BY DEF WillWrite, Has

(* A write is an append of an entry or a rewrite of lines. *)
LEMMA OpKinds ==
  ASSUME NEW op \in Op
  PROVE  /\ op.kind \in {"append", "rewrite"}
         /\ op.kind = "append" => op.entry \in Entry /\ op.entry.id \in Id /\ op.entry.id \in Nat
         /\ op.kind = "rewrite" => op.text \in Seq(Line)
BY EntriesAre DEF Op

(* Both kinds of write can be made. *)
LEMMA MakeOp ==
  /\ \A o \in Entry : AppendOf(o) \in Op /\ AppendOf(o).kind = "append" /\ AppendOf(o).entry = o
  /\ \A t \in Seq(Line) : Rewrite(t) \in Op /\ Rewrite(t).kind = "rewrite" /\ Rewrite(t).text = t
BY DEF Op, AppendOf, Rewrite

(* A good text stays good when ids are handed out. *)
LEMMA StaysGood ==
  ASSUME NEW t, NEW n \in Nat, NEW m \in Nat, n <= m, GoodText(t, n)
  PROVE  GoodText(t, m)
<1>1. t \in Seq(Line) /\ \A i \in 1..Len(t) : t[i].id <= n /\ t[i].id \in Nat
  <2>1. t \in Seq(Line)
    BY DEF GoodText
  <2>2. \A i \in 1..Len(t) : t[i] \in Line
    BY <2>1, ElementOfSeq
  <2> QED
    BY <2>1, <2>2, EntriesAre DEF GoodText, UpTo, Line
<1>2. UpTo(t, m)
  BY <1>1 DEF UpTo
<1> QED
  BY <1>2 DEF GoodText

(* Of what a text consists. *)
LEMMA IdsAre ==
  ASSUME NEW t \in Seq(Line)
  PROVE  Len(t) \in Nat /\ \A i \in 1..Len(t) : t[i] \in Line /\ t[i].id \in Id /\ t[i].id \in Nat /\ t[i].read \in BOOLEAN
                                                /\ t[i] = LineWith(t[i].id, t[i].read)
<1>1. Len(t) \in Nat /\ \A i \in 1..Len(t) : t[i] \in Line
  BY LenProperties, ElementOfSeq
<1>2. \A l \in Line : l.id \in Id /\ l.read \in BOOLEAN /\ l = LineWith(l.id, l.read)
  BY DEF Line, LineWith
<1> QED
  BY <1>1, <1>2, EntriesAre

ReceiptStep ==
  \A e \in Id \ undone' :
    OnFile(LineWith(e, TRUE)) /\ (OnFile(LineWith(e, FALSE)))' => ~closed' /\ (WillWrite(LineWith(e, TRUE)))'

ReceiptsAtStep ==
  \A e \in Id :
    LineWith(e, TRUE) \in OnDisk /\ LineWith(e, FALSE) \in OnDisk' =>
      \/ e \in undone'
      \/ ~closed' /\ \E i \in DOMAIN writing' :
           writing'[i].kind = "rewrite" /\ LineWith(e, TRUE) \in ToSet(writing'[i].text)

(* To be an element of a text is to be at a place of it. *)
LEMMA HasIs ==
  ASSUME NEW T, NEW s \in Seq(T), NEW x
  PROVE  x \in ToSet(s) <=> Has(s, x)
BY LenProperties DEF ToSet, Has

(* What is on the disk, by its places. *)
LEMMA OnDiskIs ==
  ASSUME ChatTypes, NEW x
  PROVE  x \in OnDisk <=> OnFile(x)
<1>1. file.lines \in Seq(Line) /\ flying.text \in Seq(Line)
  BY DEF ChatTypes, STypeOK
<1> QED
  BY <1>1, HasIs DEF OnDisk, OnFile

(* What a step may do to a receipt, in the form that the property has. *)
LEMMA ReceiptShape ==
  ASSUME ChatTypes, ChatTypes', ReceiptStep
  PROVE  ReceiptsAtStep
<1> SUFFICES ASSUME NEW e \in Id \ undone', LineWith(e, TRUE) \in OnDisk, LineWith(e, FALSE) \in OnDisk'
             PROVE  ~closed' /\ \E i \in DOMAIN writing' :
                      writing'[i].kind = "rewrite" /\ LineWith(e, TRUE) \in ToSet(writing'[i].text)
  BY DEF ReceiptsAtStep
<1>1. OnFile(LineWith(e, TRUE))
  BY OnDiskIs
<1>2. (OnFile(LineWith(e, FALSE)))'
  <2>1. file'.lines \in Seq(Line) /\ flying'.text \in Seq(Line)
    BY DEF ChatTypes, STypeOK
  <2> DEFINE x == LineWith(e, FALSE)
  <2>2. x \in OnDisk'
    OBVIOUS
  <2> HIDE DEF x
  <2>3. (x \in ToSet(file'.lines) <=> Has(file'.lines, x)) /\ (x \in ToSet(flying'.text) <=> Has(flying'.text, x))
    BY <2>1, HasIs
  <2>4. (OnFile(x))'
    BY <2>2, <2>3 DEF OnDisk, OnFile, Has
  <2> QED
    BY <2>4 DEF x, LineWith
<1>3. ~closed' /\ (WillWrite(LineWith(e, TRUE)))'
  BY <1>1, <1>2 DEF ReceiptStep
<1>4. PICK i \in 1..Len(writing') : writing'[i].kind = "rewrite" /\ Has(writing'[i].text, LineWith(e, TRUE))
  BY <1>3 DEF WillWrite, Has, LineWith
<1>5. DOMAIN writing' = 1..Len(writing') /\ writing'[i] \in Op
  BY LenProperties, ElementOfSeq DEF ChatTypes
<1>6. writing'[i].text \in Seq(Line)
  BY <1>4, <1>5, OpKinds
<1>7. LineWith(e, TRUE) \in ToSet(writing'[i].text)
  BY <1>4, <1>6, HasIs
<1> QED
  BY <1>3, <1>4, <1>5, <1>7

----------------------------------------------------------------------------
(* A new entry, and a receipt.                                             *)

(* A push adds the entry at the end and drops only a dead prefix. *)
LEMMA PushIs ==
  ASSUME ChatTypes, NEW e \in Entry, Push(e)
  PROVE  /\ buf' \in Seq(Entry) /\ Len(buf') <= 2 * Capacity + 1
         /\ head' \in 0..Capacity /\ count' \in 1..Capacity /\ head' + count' = Len(buf')
         /\ Len(buf') \in Nat /\ buf'[Len(buf')] = e
         /\ \E d \in Nat : /\ Len(buf') = (Len(buf) + 1) - d /\ head' + d >= head
                           /\ \A i \in 1..(Len(buf') - 1) : buf'[i] = buf[i + d] /\ i + d \in 1..Len(buf)
<1> DEFINE all == Append(buf, e)
<1>1. /\ buf \in Seq(Entry) /\ head \in 0..Capacity /\ count \in 0..Capacity /\ head + count = Len(buf)
      /\ Len(buf) <= 2 * Capacity + 1 /\ Capacity \in Nat /\ Capacity >= 2
  BY EntriesAre DEF ChatTypes, STypeOK
<1>2. /\ all \in Seq(Entry) /\ Len(all) = Len(buf) + 1 /\ Len(buf) \in Nat
      /\ \A i \in 1..Len(buf) : all[i] = buf[i]
      /\ all[Len(buf) + 1] = e
  BY <1>1, AppendProperties, LenProperties
<1>3. CASE count < Capacity
  <2>1. buf' = all /\ count' = count + 1 /\ head' = head
    BY <1>3 DEF Push
  <2> HIDE DEF all
  <2>2. /\ Len(buf') = (Len(buf) + 1) - 0 /\ head' + 0 >= head
        /\ \A i \in 1..(Len(buf') - 1) : buf'[i] = buf[i + 0] /\ i + 0 \in 1..Len(buf)
    BY <1>1, <1>2, <2>1
  <2>3. \E d \in Nat : /\ Len(buf') = (Len(buf) + 1) - d /\ head' + d >= head
                       /\ \A i \in 1..(Len(buf') - 1) : buf'[i] = buf[i + d] /\ i + d \in 1..Len(buf)
    BY <2>2
  <2>4. Len(buf') = Len(buf) + 1 /\ buf' \in Seq(Entry) /\ buf'[Len(buf')] = e
    BY <1>2, <2>1
  <2>5. /\ Len(buf') <= 2 * Capacity + 1 /\ head' \in 0..Capacity /\ count' \in 1..Capacity
        /\ head' + count' = Len(buf') /\ Len(buf') \in Nat
    BY <1>1, <1>2, <1>3, <2>1, <2>4
  <2> QED
    BY <2>3, <2>4, <2>5
<1>4. CASE ~(count < Capacity) /\ ~(head + 1 > Capacity)
  <2>1. buf' = all /\ count' = count /\ head' = head + 1
    BY <1>4 DEF Push
  <2> HIDE DEF all
  <2>2. /\ Len(buf') = (Len(buf) + 1) - 0 /\ head' + 0 >= head
        /\ \A i \in 1..(Len(buf') - 1) : buf'[i] = buf[i + 0] /\ i + 0 \in 1..Len(buf)
    BY <1>1, <1>2, <2>1
  <2>3. \E d \in Nat : /\ Len(buf') = (Len(buf) + 1) - d /\ head' + d >= head
                      /\ \A i \in 1..(Len(buf') - 1) : buf'[i] = buf[i + d] /\ i + d \in 1..Len(buf)
    BY <2>2
  <2>4. buf' \in Seq(Entry) /\ Len(buf') = Len(buf) + 1 /\ buf'[Len(buf')] = e
    BY <1>2, <2>1
  <2>5. /\ Len(buf') <= 2 * Capacity + 1 /\ head' \in 0..Capacity /\ count' \in 1..Capacity
        /\ head' + count' = Len(buf') /\ Len(buf') \in Nat
    BY <1>1, <1>2, <1>4, <2>1, <2>4
  <2> QED
    BY <2>3, <2>4, <2>5
<1>5. CASE ~(count < Capacity) /\ head + 1 > Capacity
  <2>1. buf' = SubSeq(all, head + 2, Len(all)) /\ count' = count /\ head' = 0
    BY <1>5 DEF Push
  <2> HIDE DEF all
  <2>2. /\ head + 2 \in Int /\ Len(all) \in Int /\ Len(all) - (head + 2) + 1 = count
        /\ (IF head + 2 <= Len(all) THEN Len(all) - (head + 2) + 1 ELSE 0) = count
        /\ \A i \in (head + 2)..Len(all) : i \in 1..Len(all)
        /\ \A i \in 1..count : (head + 2) + i - 1 = i + (head + 1)
        /\ count = Capacity
    BY <1>1, <1>2, <1>5
  <2>3. \A i \in (head + 2)..Len(all) : all[i] \in Entry
    BY <1>2, <2>2, ElementOfSeq
  <2>4. /\ buf' \in Seq(Entry)
        /\ Len(buf') = IF head + 2 <= Len(all) THEN Len(all) - (head + 2) + 1 ELSE 0
        /\ \A i \in 1..(Len(all) - (head + 2) + 1) : buf'[i] = all[(head + 2) + i - 1]
    BY <2>1, <2>2, <2>3, SubSeqProperties
  <2>5. Len(buf') = count /\ \A i \in 1..count : buf'[i] = all[i + (head + 1)]
    BY <2>2, <2>4
  <2>6. /\ Len(buf') = (Len(buf) + 1) - (head + 1) /\ head' + (head + 1) >= head
        /\ \A i \in 1..(Len(buf') - 1) : buf'[i] = buf[i + (head + 1)] /\ i + (head + 1) \in 1..Len(buf)
    BY <1>1, <1>2, <2>1, <2>2, <2>5
  <2>7. buf'[Len(buf')] = e
    BY <1>1, <1>2, <2>2, <2>5
  <2>8. \E d \in Nat : /\ Len(buf') = (Len(buf) + 1) - d /\ head' + d >= head
                      /\ \A i \in 1..(Len(buf') - 1) : buf'[i] = buf[i + d] /\ i + d \in 1..Len(buf)
    <3>1. head + 1 \in Nat
      BY <1>1
    <3> QED
      BY <2>6, <3>1
  <2>9. /\ Len(buf') <= 2 * Capacity + 1 /\ head' \in 0..Capacity /\ count' \in 1..Capacity
        /\ head' + count' = Len(buf') /\ Len(buf') \in Nat
    <3>1. count' = Capacity /\ head' = 0 /\ Len(buf') = Capacity
      BY <2>1, <2>2, <2>5
    <3> QED
      BY <1>1, <3>1
  <2> QED
    BY <2>4, <2>7, <2>8, <2>9
<1> QED
  BY <1>3, <1>4, <1>5

(* A step of arithmetic. *)
LEMMA InsideSum ==
  ASSUME NEW m \in Nat, NEW i \in Int, NEW c \in Nat, NEW n \in Nat, 1 <= i, i <= c, m + c = n, m + i # n
  PROVE  m + i \in 1..(n - 1)
OBVIOUS

(* The buffer stays good as it grows by the next id. *)
LEMMA BufferGrows ==
  ASSUME ChatTypes, BufferGood, NEW e \in Id, e = msgSeq + 1, msgSeq' = e, Push(Born(e)), twice' = twice
  PROVE  /\ BufferGood'
         /\ \A x : (InBuffer(x))' => x = e \/ InBuffer(x)
         /\ \A i \in 1..Len(buf') : \/ i = Len(buf') /\ buf'[i] = Born(e)
                                    \/ buf'[i].id # e /\ \E p \in 1..Len(buf) : buf'[i] = buf[p]
         /\ \A i, k \in 1..Len(buf') : buf'[i].id = buf'[k].id =>
              i = k \/ \E p, q \in 1..Len(buf) : p # q /\ buf'[i] = buf[p] /\ buf'[k] = buf[q]
<1> DEFINE n == Len(buf')
<1>0. /\ Len(buf) \in Nat /\ head \in Nat /\ count \in Nat /\ Len(buf) = head + count /\ msgSeq \in Nat /\ e \in Nat
      /\ Born(e) \in Entry /\ Born(e).id = e
  BY WindowIs, EntriesAre DEF ChatTypes, STypeOK
<1>1. /\ n \in Nat /\ buf'[n] = Born(e) /\ head' \in Nat /\ count' \in Nat /\ count' > 0 /\ head' + count' = n
  <2>1. /\ head' \in 0..Capacity /\ count' \in 1..Capacity /\ head' + count' = Len(buf')
        /\ Len(buf') \in Nat /\ buf'[Len(buf')] = Born(e)
    BY <1>0, PushIs
  <2>2. Capacity \in Nat
    BY EntriesAre
  <2>3. head' \in Nat /\ count' \in Nat /\ count' > 0
    BY <2>1, <2>2
  <2> QED
    BY <2>1, <2>3
<1>2. PICK d \in Nat : /\ n = (Len(buf) + 1) - d /\ head' + d >= head
                       /\ \A i \in 1..(n - 1) : buf'[i] = buf[i + d] /\ i + d \in 1..Len(buf)
  BY <1>0, PushIs
<1>3. \A i \in 1..Len(buf) : buf[i].id \in Nat /\ buf[i].id <= msgSeq
  <2>1. \A i \in 1..Len(buf) : buf[i] \in Entry
    BY ElementOfSeq DEF ChatTypes, STypeOK
  <2> QED
    BY <2>1, EntriesAre DEF BufferGood, UpTo
<1> HIDE DEF n
<1>4. \A i \in 1..(n - 1) : buf'[i].id \in Nat /\ buf'[i].id <= msgSeq /\ buf'[i].id < e
  BY <1>0, <1>2, <1>3
<1>5. \A i, k \in 1..n : buf'[i].id = buf'[k].id =>
        i = k \/ \E p, q \in 1..Len(buf) : p # q /\ buf'[i] = buf[p] /\ buf'[k] = buf[q]
  <2> TAKE i, k \in 1..n
  <2>1. CASE i \in 1..(n - 1) /\ k \in 1..(n - 1)
    <3>1. /\ i + d \in 1..Len(buf) /\ k + d \in 1..Len(buf)
          /\ buf'[i] = buf[i + d] /\ buf'[k] = buf[k + d] /\ (i + d = k + d => i = k)
      BY <1>2, <2>1
    <3> QED
      BY <3>1
  <2>2. CASE i = n /\ k \in 1..(n - 1)
    BY <1>0, <1>1, <1>4, <2>2
  <2>3. CASE k = n /\ i \in 1..(n - 1)
    BY <1>0, <1>1, <1>4, <2>3
  <2>4. i \in 1..(n - 1) \/ i = n
    BY <1>1
  <2>5. k \in 1..(n - 1) \/ k = n
    BY <1>1
  <2> QED
    BY <2>1, <2>2, <2>3, <2>4, <2>5
<1>6. \A i \in 1..n : buf'[i].id <= e
  BY <1>0, <1>1, <1>4
<1>7. Late(buf')
  <2> SUFFICES ASSUME NEW k \in 1..n, NEW i \in 1..k
               PROVE  buf'[i].id <= buf'[k].id \/ (k > 1 /\ buf'[i].id <= buf'[k - 1].id)
    BY DEF Late, n
  <2>1. CASE k = n
    <3>1. i \in 1..n
      BY <1>1, <2>1
    <3> QED
      BY <1>0, <1>1, <1>6, <2>1, <3>1
  <2>2. CASE k # n /\ i = k
    BY <1>1, <1>4, <2>2
  <2>3. CASE k # n /\ i # k
    <3>1. /\ i \in 1..(n - 1) /\ k \in 1..(n - 1) /\ k - 1 \in 1..(n - 1) /\ k > 1
          /\ k + d \in 1..Len(buf) /\ i + d \in 1..(k + d) /\ (k - 1) + d = (k + d) - 1
      <4>1. /\ i \in 1..(n - 1) /\ k \in 1..(n - 1) /\ k - 1 \in 1..(n - 1) /\ k > 1
        BY <1>1, <2>3
      <4>2. k + d \in 1..Len(buf)
        BY <1>2, <4>1
      <4> QED
        BY <4>1, <4>2
    <3>2. buf[i + d].id <= buf[k + d].id \/ (k + d > 1 /\ buf[i + d].id <= buf[(k + d) - 1].id)
      BY <3>1 DEF BufferGood, Late
    <3>3. buf'[i] = buf[i + d] /\ buf'[k] = buf[k + d] /\ buf'[k - 1] = buf[(k + d) - 1]
      BY <1>2, <3>1
    <3> QED
      BY <3>1, <3>2, <3>3
  <2> QED
    BY <2>1, <2>2, <2>3
<1>8. ASSUME NEW x, (InBuffer(x))' PROVE x = e \/ InBuffer(x)
  <2>1. PICK i \in 1..count' : buf'[head' + i].id = x
    BY <1>8 DEF InBuffer
  <2>2. CASE head' + i = n
    BY <1>0, <1>1, <2>1, <2>2
  <2>3. CASE head' + i # n
    <3>1. head' + i \in 1..(n - 1)
      <4>1. i \in Int /\ 1 <= i /\ i <= count' /\ count' \in Nat
        BY <1>1
      <4>2. head' \in Nat /\ n \in Nat /\ head' + count' = n
        BY <1>1
      <4> QED
        BY <2>3, <4>1, <4>2, InsideSum
    <3>2. x = buf[(head' + i) + d].id /\ (head' + i) + d \in 1..Len(buf)
      BY <1>2, <2>1, <3>1
    <3> DEFINE j == ((head' + i) + d) - head
    <3>3. j \in 1..count /\ head + j = (head' + i) + d
      <4>0. i \in Int /\ 1 <= i /\ head' \in Nat /\ d \in Nat
        BY <1>1
      <4>1. head' + d >= head /\ (head' + i) + d \in 1..(head + count)
        BY <1>0, <1>2, <3>2
      <4>2. \A p, q \in Nat : p + d >= head /\ (p + q) + d \in 1..(head + count) /\ 1 <= q =>
              ((p + q) + d) - head \in 1..count /\ head + (((p + q) + d) - head) = (p + q) + d
        BY <1>0, <4>0
      <4>3. head' \in Nat /\ i \in Nat
        BY <4>0
      <4>4. ((head' + i) + d) - head \in 1..count /\ head + (((head' + i) + d) - head) = (head' + i) + d
        <5> HIDE DEF j
        <5> QED
          BY <4>0, <4>1, <4>2, <4>3
      <4> QED
        BY <4>4
    <3> HIDE DEF j
    <3> QED
      BY <3>2, <3>3 DEF InBuffer
  <2> QED
    BY <2>2, <2>3
<1>9. \A i \in 1..n : \/ i = n /\ buf'[i] = Born(e)
                      \/ buf'[i].id # e /\ \E p \in 1..Len(buf) : buf'[i] = buf[p]
  <2> TAKE i \in 1..n
  <2>1. i \in 1..(n - 1) \/ i = n
    BY <1>1
  <2> QED
    BY <1>0, <1>1, <1>2, <1>4, <2>1
<1>10. \A i, k \in 1..n : buf'[i].id = buf'[k].id =>
         i = k \/ (buf'[i].id \in twice /\ buf'[i].place > 0 /\ buf'[k].place > 0)
  <2> SUFFICES ASSUME NEW i \in 1..n, NEW k \in 1..n, buf'[i].id = buf'[k].id, i # k
               PROVE  buf'[i].id \in twice /\ buf'[i].place > 0 /\ buf'[k].place > 0
    OBVIOUS
  <2>1. PICK p, q \in 1..Len(buf) : p # q /\ buf'[i] = buf[p] /\ buf'[k] = buf[q]
    BY <1>5
  <2> QED
    BY <2>1 DEF BufferGood
<1>11. BufferGood'
  BY <1>6, <1>7, <1>10 DEF BufferGood, UpTo, n
<1> QED
  BY <1>5, <1>8, <1>9, <1>11 DEF n

(* Of an id that no late write unread, no receipt and its lack are both on *)
(* the disk.                                                               *)
LEMMA NotBoth ==
  ASSUME ChatInv, NEW e \in Id \ undone, OnFile(LineWith(e, TRUE)), OnFile(LineWith(e, FALSE))
  PROVE  FALSE
<1>1. ASSUME NEW t, Apart(t, twice, undone), Has(t, LineWith(e, TRUE)), Has(t, LineWith(e, FALSE)) PROVE FALSE
  <2>1. PICK i \in 1..Len(t) : t[i] = LineWith(e, TRUE)
    BY <1>1 DEF Has
  <2>2. PICK k \in 1..Len(t) : t[k] = LineWith(e, FALSE)
    BY <1>1 DEF Has
  <2>0. /\ LineWith(e, TRUE).id = e /\ LineWith(e, FALSE).id = e
        /\ LineWith(e, TRUE).read = TRUE /\ LineWith(e, FALSE).read = FALSE
    BY DEF LineWith
  <2>3. t[i].id = e /\ t[k].id = e /\ t[i].read = TRUE /\ t[k].read = FALSE
    BY <2>0, <2>1, <2>2
  <2>4. i = k \/ (t[i].read /\ t[k].read)
    BY <1>1, <2>3 DEF Apart, Alike
  <2> QED
    BY <2>3, <2>4
<1>2. Apart(file.lines, twice, undone) /\ Apart(flying.text, twice, undone)
  BY DEF ChatInv, TextsGood, GoodText
<1>3. CASE flying.phase # "truncated"
  BY <1>1, <1>2, <1>3 DEF OnFile
<1>4. CASE flying.phase = "truncated" /\ ~closed
  <2>0. file.lines = <<>>
    BY <1>4 DEF ChatInv, ReadsAreKept
  <2>1. \A x : ~Has(file.lines, x)
    <3>1. Len(file.lines) = 0
      BY <2>0, EmptySeq
    <3> QED
      BY <3>1 DEF Has
  <2> QED
    BY <1>1, <1>2, <2>1 DEF OnFile
<1>5. CASE closed
  <2>1. /\ ~(Has(file.lines, LineWith(e, TRUE)) /\ Has(flying.text, LineWith(e, FALSE)))
        /\ ~(Has(file.lines, LineWith(e, FALSE)) /\ Has(flying.text, LineWith(e, TRUE)))
    BY <1>5 DEF ChatInv, LateWritesAgree
  <2> QED
    BY <1>1, <1>2, <2>1 DEF OnFile
<1>6. closed \in BOOLEAN
  BY DEF ChatInv, ChatTypes, STypeOK
<1> QED
  BY <1>3, <1>4, <1>5, <1>6

(* A new entry. *)
LEMMA NewEntryChat == ASSUME ChatInv, NewEntry PROVE ChatInv' /\ ReceiptsAtStep
<1> DEFINE e == msgSeq + 1
           o == Born(e)
           op == AppendOf(o)
<1>0. ChatTypes /\ BufferGood /\ StatusGood /\ TextsGood /\ AppendsAreNew /\ ReadsAreKept
  BY DEF ChatInv
<1>1. /\ ~closed /\ msgSeq < MaxEntries /\ msgSeq' = e /\ Push(o)
      /\ isRead' = [isRead EXCEPT ![o] = FALSE]
      /\ writing' = Append(writing, op)
      /\ flying' = flying /\ closed' = closed /\ file' = file /\ behind' = behind /\ twice' = twice /\ undone' = undone
      /\ starts' = starts /\ failures' = failures
  BY DEF NewEntry, history
<1>2. msgSeq \in Nat /\ e \in Id /\ e \in Nat /\ e \in 0..MaxEntries /\ o \in Entry /\ o.id = e /\ o.place = 0
  <2>1. msgSeq \in Nat /\ e \in Id /\ e \in Nat /\ e \in 0..MaxEntries
    BY <1>0, <1>1, EntriesAre DEF ChatTypes, STypeOK, Id
  <2> QED
    BY <2>1, EntriesAre
<1>3. op \in Op /\ op.kind = "append" /\ op.entry = o
  BY <1>2, MakeOp
<1> HIDE DEF e, o, op
<1>4. /\ writing' \in Seq(Op) /\ Len(writing) \in Nat /\ Len(writing') = Len(writing) + 1
      /\ \A i \in 1..Len(writing) : writing'[i] = writing[i]
      /\ writing'[Len(writing) + 1] = op
      /\ \A line : WillWrite(line)' <=> WillWrite(line)
  BY <1>0, <1>1, <1>3, QueueGrows DEF ChatTypes
<1>5. /\ buf' \in Seq(Entry) /\ Len(buf') <= 2 * Capacity + 1
      /\ head' \in 0..Capacity /\ count' \in 1..Capacity /\ head' + count' = Len(buf')
      /\ Len(buf') \in Nat /\ buf'[Len(buf')] = o
  BY <1>0, <1>1, <1>2, PushIs
<1>6. /\ BufferGood' /\ \A x : (InBuffer(x))' => x = e \/ InBuffer(x)
      /\ \A i \in 1..Len(buf') : \/ i = Len(buf') /\ buf'[i] = o
                                 \/ buf'[i].id # e /\ \E p \in 1..Len(buf) : buf'[i] = buf[p]
      /\ \A i, k \in 1..Len(buf') : buf'[i].id = buf'[k].id =>
           i = k \/ \E p, q \in 1..Len(buf) : p # q /\ buf'[i] = buf[p] /\ buf'[k] = buf[q]
  <2>1. e = msgSeq + 1 /\ Push(Born(e))
    BY <1>1 DEF e, o
  <2> QED
    BY <1>0, <1>1, <1>2, <2>1, BufferGrows DEF o
<1>7. ChatTypes'
  <2>1. STypeOK'
    <3>1. count' \in 0..Capacity
      BY <1>5, EntriesAre
    <3>2. isRead' \in [Entry -> BOOLEAN]
      BY <1>0, <1>1, <1>2 DEF ChatTypes, STypeOK
    <3>3. \A i \in DOMAIN writing' :
            \/ writing'[i].kind = "append" /\ writing'[i].entry \in Entry
            \/ writing'[i].kind = "rewrite" /\ writing'[i].text \in Seq(Line)
      BY <1>4, LenProperties, ElementOfSeq, OpKinds
    <3> QED
      BY <1>0, <1>1, <1>2, <1>5, <3>1, <3>2, <3>3 DEF ChatTypes, STypeOK
  <2> QED
    BY <1>0, <1>1, <1>4, <2>1 DEF ChatTypes
<1>8. /\ file.lines \in Seq(Line) /\ flying.text \in Seq(Line)
      /\ \A i \in 1..Len(writing) : writing[i] \in Op
  BY <1>0, ElementOfSeq DEF ChatTypes, STypeOK
<1>9. TextsGood'
  <2>1. UpTo(file.lines, e)
    BY <1>0, <1>2, <1>8, IdsAre DEF TextsGood, UpTo, e
  <2>2. GoodText(flying.text, e)
    BY <1>0, <1>2, StaysGood DEF TextsGood, e
  <2>3. ASSUME NEW i \in 1..Len(writing')
        PROVE  /\ writing'[i].kind = "append" => writing'[i].entry.id <= e
               /\ writing'[i].kind = "rewrite" => GoodText(writing'[i].text, e)
    <3>1. CASE i = Len(writing) + 1
      BY <1>2, <1>3, <1>4, <3>1
    <3>2. CASE i \in 1..Len(writing)
      <4>1. writing'[i] = writing[i] /\ (writing[i].kind = "append" => writing[i].entry.id \in Nat)
        BY <1>4, <1>8, <3>2, OpKinds, EntriesAre
      <4>2. writing[i].kind = "append" => writing[i].entry.id <= e
        BY <1>0, <1>2, <3>2, <4>1 DEF TextsGood, e
      <4>3. writing[i].kind = "rewrite" => GoodText(writing[i].text, e)
        BY <1>0, <1>2, <3>2, StaysGood DEF TextsGood, e
      <4> QED
        BY <4>1, <4>2, <4>3
    <3> QED
      BY <1>4, <3>1, <3>2
  <2>4. Late(file.lines) /\ Apart(file.lines, twice, undone)
    BY <1>0 DEF TextsGood
  <2> QED
    BY <1>1, <2>1, <2>2, <2>3, <2>4 DEF TextsGood, GoodText
<1>10. AppendsAreNew'
  <2>1. count' > 0
    BY <1>5, EntriesAre
  <2>2. ASSUME NEW t \in Seq(Line), UpTo(t, msgSeq) PROVE Under(t, e)
    BY <1>2, <2>2, IdsAre DEF UpTo, Under, e
  <2>3. Under(file.lines, e) /\ Under(flying.text, e)
    BY <1>0, <1>8, <2>2 DEF TextsGood, GoodText
  <2>4. ASSUME NEW j \in 1..Len(writing)
        PROVE  /\ writing[j].kind = "append" => writing[j].entry.id < e
               /\ writing[j].kind = "rewrite" => Under(writing[j].text, e)
    <3>1. writing[j].kind = "append" => writing[j].entry.id \in Nat
      BY <1>8, OpKinds, EntriesAre
    <3> QED
      BY <1>0, <1>2, <2>2, <3>1 DEF TextsGood, GoodText, e
  <2>5. ASSUME NEW i \in 1..Len(writing'), writing'[i].kind = "append"
        PROVE  /\ Under(file.lines, writing'[i].entry.id) /\ Under(flying.text, writing'[i].entry.id)
               /\ \A j \in 1..(i - 1) :
                    /\ writing'[j].kind = "append" => writing'[j].entry.id < writing'[i].entry.id
                    /\ writing'[j].kind = "rewrite" => Under(writing'[j].text, writing'[i].entry.id)
    <3>0. \A j \in 1..(i - 1) : j \in 1..Len(writing) /\ writing'[j] = writing[j]
      BY <1>4
    <3>1. CASE i = Len(writing) + 1
      <4>1. writing'[i].entry.id = e
        BY <1>2, <1>3, <1>4, <3>1
      <4> QED
        BY <2>3, <2>4, <3>0, <4>1
    <3>2. CASE i \in 1..Len(writing)
      <4>1. writing'[i] = writing[i]
        BY <1>4, <3>2
      <4> QED
        BY <1>0, <1>1, <2>5, <3>0, <3>2, <4>1 DEF AppendsAreNew
    <3> QED
      BY <1>4, <3>1, <3>2
  <2> QED
    BY <1>0, <1>1, <1>2, <1>5, <2>1, <2>5 DEF AppendsAreNew
<1>11. \A r \in BOOLEAN : /\ ~OnFile(LineWith(e, r)) /\ ~WillWrite(LineWith(e, r)) /\ ~Has(flying.text, LineWith(e, r))
                          /\ \A i \in 1..Len(writing) : writing[i].kind = "rewrite" => ~Has(writing[i].text, LineWith(e, r))
  <2> TAKE r \in BOOLEAN
  <2>1. ASSUME NEW t \in Seq(Line), UpTo(t, msgSeq) PROVE ~Has(t, LineWith(e, r))
    <3>1. \A i \in 1..Len(t) : t[i].id # e
      BY <1>2, <2>1, IdsAre DEF UpTo, e
    <3> QED
      BY <3>1, LineHasId DEF Has
  <2>2. ~Has(file.lines, LineWith(e, r)) /\ ~Has(flying.text, LineWith(e, r))
    BY <1>0, <1>8, <2>1 DEF TextsGood, GoodText
  <2>3. \A i \in 1..Len(writing) : writing[i].kind = "rewrite" => ~Has(writing[i].text, LineWith(e, r))
    BY <1>0, <2>1 DEF TextsGood, GoodText
  <2> QED
    BY <2>2, <2>3 DEF OnFile, WillWrite
<1>12. /\ \A p \in Entry : isRead'[p] = isRead[p]
       /\ \A x : Given(isRead', x) = Given(isRead, x)
       /\ ~Given(isRead, e)
  <2>1. \A p \in Entry : p.id \in Nat /\ (isRead[p] => p.id <= msgSeq)
    BY <1>0, EntriesAre DEF StatusGood
  <2>2. ASSUME NEW p \in Entry, isRead[p] PROVE p.id # e
    <3>1. p.id \in Nat /\ p.id <= msgSeq
      BY <2>1, <2>2
    <3> QED
      BY <1>2, <3>1 DEF e
  <2>3. isRead[o] = FALSE
    BY <1>0, <1>2, <2>2 DEF ChatTypes, STypeOK
  <2>4. \A p \in Entry : isRead'[p] = isRead[p]
    BY <1>0, <1>1, <1>2, <2>3 DEF ChatTypes, STypeOK
  <2> QED
    BY <2>2, <2>4 DEF Given
<1>13. \A line : (OnFile(line))' <=> OnFile(line)
  BY <1>1 DEF OnFile, Has
<1>14. ReadsAreKept'
  <2>1. flying.phase = "truncated" => file.lines = <<>>
    BY <1>0, <1>1 DEF ReadsAreKept
  <2>2. ASSUME NEW x \in Id \ undone
        PROVE  /\ (OnFile(LineWith(x, TRUE)))' /\ (InBuffer(x))' => Given(isRead', x)
               /\ (OnFile(LineWith(x, TRUE)))' /\ Has(flying'.text, LineWith(x, FALSE)) /\ flying'.phase = "rewrite" => Given(isRead', x)
               /\ (OnFile(LineWith(x, TRUE)))' /\ (WillWrite(LineWith(x, FALSE)))' => Given(isRead', x)
               /\ flying'.phase \in {"rewrite", "truncated"} /\ Has(flying'.text, LineWith(x, FALSE)) /\ Given(isRead', x) =>
                    (WillWrite(LineWith(x, TRUE)))'
               /\ Has(flying'.text, LineWith(x, TRUE)) \/ (WillWrite(LineWith(x, TRUE)))' => Given(isRead', x)
    <3>1. CASE x = e
      BY <1>1, <1>4, <1>11, <1>13, <3>1
    <3>2. CASE x # e
      BY <1>0, <1>1, <1>4, <1>6, <1>12, <1>13, <3>2 DEF ReadsAreKept
    <3> QED
      BY <3>1, <3>2
  <2>3. ASSUME NEW x \in Id \ undone, NEW i \in 1..Len(writing'),
               writing'[i].kind = "rewrite", Has(writing'[i].text, LineWith(x, FALSE)), Given(isRead', x)
        PROVE  \E j \in (i + 1)..Len(writing') : writing'[j].kind = "rewrite" /\ Has(writing'[j].text, LineWith(x, TRUE))
    <3>1. i \in 1..Len(writing) /\ writing'[i] = writing[i]
      BY <1>3, <1>4, <2>3
    <3>2. x # e
      BY <1>11, <2>3, <3>1
    <3>3. PICK j \in (i + 1)..Len(writing) : writing[j].kind = "rewrite" /\ Has(writing[j].text, LineWith(x, TRUE))
      BY <1>0, <1>1, <1>12, <2>3, <3>1, <3>2 DEF ReadsAreKept
    <3>4. j \in (i + 1)..Len(writing') /\ writing'[j] = writing[j]
      BY <1>4
    <3> QED
      BY <3>3, <3>4
  <2> QED
    BY <1>1, <2>1, <2>2, <2>3 DEF ReadsAreKept, Has, LineWith
<1>15. ReceiptStep
  <2> SUFFICES ASSUME NEW x \in Id \ undone, OnFile(LineWith(x, TRUE)), OnFile(LineWith(x, FALSE)) PROVE FALSE
    BY <1>1, <1>13 DEF ReceiptStep
  <2> QED
    BY NotBoth
<1>16. StatusGood'
  <2>1. ASSUME NEW p \in Entry, isRead'[p] PROVE p.id <= e
    <3>1. p.id \in Nat /\ p.id <= msgSeq
      BY <1>0, <1>12, <2>1, EntriesAre DEF StatusGood
    <3> QED
      BY <1>2, <3>1 DEF e
  <2>0. \A i \in 1..Len(buf') : buf'[i] \in Entry
    BY <1>5, ElementOfSeq
  <2>2. ASSUME NEW i \in 1..Len(buf'), NEW k \in 1..Len(buf'), buf'[i].id = buf'[k].id, buf'[i].id \notin undone, i # k
        PROVE  isRead'[buf'[i]]
    <3>1. PICK p, q \in 1..Len(buf) : p # q /\ buf'[i] = buf[p] /\ buf'[k] = buf[q]
      BY <1>6, <2>2
    <3>2. isRead[buf[p]]
      BY <1>0, <2>2, <3>1 DEF StatusGood
    <3> QED
      BY <1>12, <2>0, <3>1, <3>2
  <2>3. ASSUME NEW i \in 1..Len(buf'), buf'[i].id \notin undone, Given(isRead', buf'[i].id)
        PROVE  isRead'[buf'[i]]
    <3>0. Given(isRead, buf'[i].id)
      BY <1>12, <2>3
    <3>1. buf'[i].id # e
      BY <1>12, <3>0
    <3>2. PICK p \in 1..Len(buf) : buf'[i] = buf[p]
      BY <1>2, <1>6, <3>1
    <3>3. isRead[buf[p]]
      BY <1>0, <2>3, <3>0, <3>2 DEF StatusGood
    <3> QED
      BY <1>12, <2>0, <3>2, <3>3
  <2> QED
    BY <1>1, <2>1, <2>2, <2>3 DEF StatusGood, Given
<1>17. LateWritesAgree'
  BY <1>1 DEF LateWritesAgree
<1> QED
  BY <1>0, <1>6, <1>7, <1>9, <1>10, <1>14, <1>15, <1>16, <1>17, ReceiptShape DEF ChatInv

(* Where the window is the same, so is what the buffer holds. *)
LEMMA SameBuffer ==
  ASSUME ring' = ring, msgSeq' = msgSeq, twice \subseteq twice', BufferGood
  PROVE  BufferGood' /\ \A e : (InBuffer(e))' <=> InBuffer(e)
BY DEF ring, BufferGood, Late, UpTo, InBuffer

(* And if the receipts are, what they say of it. *)
LEMMA SameStatus ==
  ASSUME ring' = ring, msgSeq' = msgSeq, isRead' = isRead, undone \subseteq undone', StatusGood
  PROVE  StatusGood' /\ \A e : Given(isRead', e) <=> Given(isRead, e)
BY DEF ring, StatusGood, Given

(* A text that is good stays good when the histories grow. *)
LEMMA HistoriesGrow ==
  ASSUME twice \subseteq twice', undone \subseteq undone', NEW t
  PROVE  /\ Apart(t, twice, undone) => Apart(t, twice', undone')
         /\ \A n : GoodText(t, n) => t \in Seq(Line) /\ Late(t) /\ Apart(t, twice', undone') /\ UpTo(t, n)
BY DEF Apart, GoodText

(* What a receipt flips is in the window, and has an id it names; where no *)
(* other entry has the id, the one that has is flipped.                    *)
LEMMA FlippedIs ==
  ASSUME ChatTypes, NEW ids
  PROVE  /\ Flipped(ids) \in SUBSET Entry
         /\ \A p \in Flipped(ids) : p.id \in ids /\ \E k \in 1..count : p = buf[head + k] /\ head + k \in 1..Len(buf)
         /\ \A k \in 1..count :
              buf[head + k].id \in ids /\ (\A j \in 1..count : buf[head + j].id = buf[head + k].id => j = k) =>
                buf[head + k] \in Flipped(ids)
<1>1. /\ count \in Nat
      /\ \A i \in 1..count : Window[i] = buf[head + i] /\ head + i \in 1..Len(buf) /\ Window[i] \in Entry
  BY WindowIs DEF ChatTypes
<1>2. ASSUME NEW p \in Flipped(ids)
      PROVE  p \in Entry /\ p.id \in ids /\ \E k \in 1..count : p = buf[head + k] /\ head + k \in 1..Len(buf)
  <2>1. PICK k \in 1..count : p = Window[k] /\ Window[k].id \in ids
    BY DEF Flipped
  <2> QED
    BY <1>1, <2>1
<1>3. ASSUME NEW k \in 1..count, buf[head + k].id \in ids,
             \A j \in 1..count : buf[head + j].id = buf[head + k].id => j = k
      PROVE  buf[head + k] \in Flipped(ids)
  <2>1. \A j \in 1..(k - 1) : j \in 1..count /\ j # k
    BY <1>1
  <2>2. \A j \in 1..(k - 1) : Window[j].id # Window[k].id
    BY <1>1, <1>3, <2>1
  <2>3. Window[k] = buf[head + k] /\ Window[k].id \in ids
    BY <1>1, <1>3
  <2> QED
    BY <2>2, <2>3 DEF Flipped
<1> QED
  BY <1>2, <1>3

(* Receipts. *)
LEMMA MarkReadManyChat == ASSUME ChatInv, NEW ids \in SUBSET Id, MarkReadMany(ids) PROVE ChatInv' /\ ReceiptsAtStep
<1> DEFINE fl == Flipped(ids)
           t == WindowWith(fl)
           op == Rewrite(t)
<1>0. ChatTypes /\ BufferGood /\ StatusGood /\ TextsGood /\ AppendsAreNew /\ ReadsAreKept
  BY DEF ChatInv
<1>1. /\ ~closed
      /\ isRead' = [p \in Entry |-> isRead[p] \/ p \in fl]
      /\ writing' = Append(writing, op)
      /\ ring' = ring /\ msgSeq' = msgSeq
      /\ flying' = flying /\ closed' = closed /\ file' = file /\ behind' = behind /\ twice' = twice /\ undone' = undone
      /\ starts' = starts /\ failures' = failures
  BY DEF MarkReadMany, history
<1>2a. /\ fl \in SUBSET Entry
       /\ \A p \in fl : p.id \in ids /\ \E k \in 1..count : p = buf[head + k] /\ head + k \in 1..Len(buf)
       /\ \A k \in 1..count :
            buf[head + k].id \in ids /\ (\A j \in 1..count : buf[head + j].id = buf[head + k].id => j = k) =>
              buf[head + k] \in fl
  BY <1>0, FlippedIs
<1> HIDE DEF fl
<1>2. /\ GoodText(t, msgSeq) /\ Len(t) = count
      /\ \A i \in 1..count : t[i] = LineWith(buf[head + i].id, buf[head + i] \in fl \/ isRead[buf[head + i]])
  BY <1>0, <1>2a, WindowWithIs
<1> HIDE DEF t
<1>3. t \in Seq(Line) /\ op \in Op /\ op.kind = "rewrite" /\ op.text = t
  BY <1>2, MakeOp DEF GoodText
<1> HIDE DEF op
<1>4. /\ writing' \in Seq(Op) /\ Len(writing) \in Nat /\ Len(writing') = Len(writing) + 1
      /\ \A i \in 1..Len(writing) : writing'[i] = writing[i]
      /\ writing'[Len(writing) + 1] = op
      /\ \A line : WillWrite(line)' <=> WillWrite(line) \/ Has(t, line)
  BY <1>0, <1>1, <1>3, QueueGrows DEF ChatTypes
<1>5. BufferGood' /\ \A e : (InBuffer(e))' <=> InBuffer(e)
  BY <1>0, <1>1, SameBuffer
<1>6. /\ count \in Nat /\ head \in Nat
      /\ \A i \in 1..count : buf[head + i] \in Entry /\ head + i \in 1..Len(buf)
  BY <1>0, WindowIs DEF ChatTypes
<1>7. /\ \A p \in Entry : isRead'[p] <=> isRead[p] \/ p \in fl
      /\ isRead' \in [Entry -> BOOLEAN]
      /\ \A e : Given(isRead, e) => Given(isRead', e)
  <2>1. \A p \in Entry : isRead[p] \in BOOLEAN
    BY <1>0 DEF ChatTypes, STypeOK
  <2>2. \A p \in Entry : isRead'[p] <=> isRead[p] \/ p \in fl
    BY <1>1, <2>1
  <2> QED
    BY <1>1, <2>1, <2>2 DEF Given
<1>8. ASSUME NEW e \in Id \ undone
      PROVE  /\ Has(t, LineWith(e, TRUE)) => Given(isRead', e)
             /\ Has(t, LineWith(e, FALSE)) => InBuffer(e) /\ ~Given(isRead', e) /\ ~Given(isRead, e)
             /\ Given(isRead', e) /\ ~Given(isRead, e) => Has(t, LineWith(e, TRUE))
  <2>0. ASSUME NEW i \in 1..count, NEW r \in BOOLEAN, t[i] = LineWith(e, r)
        PROVE  buf[head + i].id = e /\ (r <=> buf[head + i] \in fl \/ isRead[buf[head + i]])
    <3> DEFINE b == buf[head + i] \in fl \/ isRead[buf[head + i]]
    <3>1. LineWith(buf[head + i].id, b).id = buf[head + i].id /\ LineWith(buf[head + i].id, b).read = b
      BY LineHasId
    <3>2. LineWith(e, r).id = e /\ LineWith(e, r).read = r
      BY LineHasId
    <3>3. t[i] = LineWith(buf[head + i].id, b)
      BY <1>2
    <3>4. buf[head + i].id = e /\ b = r
      <4> HIDE DEF b
      <4> QED
        BY <2>0, <3>1, <3>2, <3>3
    <3> QED
      BY <3>4
  <2>1. ASSUME Has(t, LineWith(e, TRUE)) PROVE Given(isRead', e)
    <3>1. PICK i \in 1..count : t[i] = LineWith(e, TRUE)
      BY <1>2, <2>1 DEF Has
    <3>2. buf[head + i].id = e /\ (buf[head + i] \in fl \/ isRead[buf[head + i]])
      BY <2>0, <3>1
    <3> QED
      BY <1>6, <1>7, <3>2 DEF Given
  <2>2. ASSUME Has(t, LineWith(e, FALSE)) PROVE InBuffer(e) /\ ~Given(isRead', e) /\ ~Given(isRead, e)
    <3>1. PICK i \in 1..count : t[i] = LineWith(e, FALSE)
      BY <1>2, <2>2 DEF Has
    <3>2. buf[head + i].id = e /\ buf[head + i] \notin fl /\ ~isRead[buf[head + i]]
      BY <2>0, <3>1
    <3>3. ~Given(isRead, e)
      BY <1>0, <1>6, <3>2 DEF StatusGood
    <3>4. \A k \in 1..Len(buf) : buf[k].id = e => k = head + i
      BY <1>0, <1>6, <3>2 DEF StatusGood
    <3>5. ASSUME NEW p \in Entry, p.id = e, isRead'[p] PROVE FALSE
      <4>1. p \in fl
        BY <1>7, <3>3, <3>5 DEF Given
      <4>2. PICK k \in 1..count : p = buf[head + k] /\ head + k \in 1..Len(buf)
        BY <1>2a, <4>1
      <4>3. head + k = head + i
        BY <3>4, <3>5, <4>2
      <4> QED
        BY <3>2, <4>1, <4>2, <4>3
    <3> QED
      BY <3>2, <3>3, <3>5 DEF InBuffer, Given
  <2>3. ASSUME Given(isRead', e), ~Given(isRead, e) PROVE Has(t, LineWith(e, TRUE))
    <3>1. PICK p \in Entry : p.id = e /\ isRead'[p]
      BY <2>3 DEF Given
    <3>2. p \in fl
      BY <1>7, <2>3, <3>1 DEF Given
    <3>3. PICK k \in 1..count : p = buf[head + k]
      BY <1>2a, <3>2
    <3>4. (buf[head + k] \in fl \/ isRead[buf[head + k]]) = TRUE
      BY <3>2, <3>3
    <3>5. t[k] = LineWith(e, TRUE)
      BY <1>2, <3>1, <3>3, <3>4
    <3> QED
      BY <1>2, <3>5 DEF Has
  <2> QED
    BY <2>1, <2>2, <2>3
<1>9. ChatTypes'
  <2>1. STypeOK'
    <3>1. \A i \in DOMAIN writing' :
            \/ writing'[i].kind = "append" /\ writing'[i].entry \in Entry
            \/ writing'[i].kind = "rewrite" /\ writing'[i].text \in Seq(Line)
      BY <1>4, LenProperties, ElementOfSeq, OpKinds
    <3> QED
      BY <1>0, <1>1, <1>7, <3>1 DEF ChatTypes, STypeOK, ring
  <2> QED
    BY <1>0, <1>1, <1>4, <2>1 DEF ChatTypes
<1>10. TextsGood'
  <2>1. ASSUME NEW i \in 1..Len(writing')
        PROVE  /\ writing'[i].kind = "append" => writing'[i].entry.id <= msgSeq
               /\ writing'[i].kind = "rewrite" => GoodText(writing'[i].text, msgSeq)
    <3>1. CASE i = Len(writing) + 1
      BY <1>2, <1>3, <1>4, <3>1
    <3>2. CASE i \in 1..Len(writing)
      BY <1>0, <1>4, <3>2 DEF TextsGood
    <3> QED
      BY <1>4, <3>1, <3>2
  <2> QED
    BY <1>0, <1>1, <2>1 DEF TextsGood, GoodText
<1>11. AppendsAreNew'
  <2>1. ASSUME NEW i \in 1..Len(writing'), writing'[i].kind = "append"
        PROVE  i \in 1..Len(writing) /\ writing'[i] = writing[i]
               /\ \A j \in 1..(i - 1) : j \in 1..Len(writing) /\ writing'[j] = writing[j]
    <3>1. i # Len(writing) + 1
      BY <1>3, <1>4, <2>1
    <3> QED
      BY <1>4, <3>1
  <2>2. AppendsCome' => AppendsCome
    BY <1>1, <2>1 DEF AppendsCome
  <2>3. ASSUME NEW i \in 1..Len(writing'), writing'[i].kind = "append"
        PROVE  /\ Under(file.lines, writing'[i].entry.id) /\ Under(flying.text, writing'[i].entry.id)
               /\ \A j \in 1..(i - 1) :
                    /\ writing'[j].kind = "append" => writing'[j].entry.id < writing'[i].entry.id
                    /\ writing'[j].kind = "rewrite" => Under(writing'[j].text, writing'[i].entry.id)
    BY <1>0, <1>1, <2>1, <2>3 DEF AppendsAreNew
  <2> QED
    BY <1>0, <1>1, <2>2, <2>3 DEF AppendsAreNew, ring
<1>12. \A line : (OnFile(line))' <=> OnFile(line)
  BY <1>1 DEF OnFile, Has
<1>13. ReadsAreKept'
  <2>1. flying.phase = "truncated" => file.lines = <<>>
    BY <1>0, <1>1 DEF ReadsAreKept
  <2>2. ASSUME NEW x \in Id \ undone
        PROVE  /\ (OnFile(LineWith(x, TRUE)))' /\ (InBuffer(x))' => Given(isRead', x)
               /\ (OnFile(LineWith(x, TRUE)))' /\ Has(flying'.text, LineWith(x, FALSE)) /\ flying'.phase = "rewrite" => Given(isRead', x)
               /\ (OnFile(LineWith(x, TRUE)))' /\ (WillWrite(LineWith(x, FALSE)))' => Given(isRead', x)
               /\ flying'.phase \in {"rewrite", "truncated"} /\ Has(flying'.text, LineWith(x, FALSE)) /\ Given(isRead', x) =>
                    (WillWrite(LineWith(x, TRUE)))'
               /\ Has(flying'.text, LineWith(x, TRUE)) \/ (WillWrite(LineWith(x, TRUE)))' => Given(isRead', x)
    <3>1. Given(isRead, x) => Given(isRead', x)
      BY <1>7
    <3>2. /\ OnFile(LineWith(x, TRUE)) /\ InBuffer(x) => Given(isRead, x)
          /\ OnFile(LineWith(x, TRUE)) /\ Has(flying.text, LineWith(x, FALSE)) /\ flying.phase = "rewrite" => Given(isRead, x)
          /\ OnFile(LineWith(x, TRUE)) /\ WillWrite(LineWith(x, FALSE)) => Given(isRead, x)
          /\ flying.phase \in {"rewrite", "truncated"} /\ Has(flying.text, LineWith(x, FALSE)) /\ Given(isRead, x) =>
               WillWrite(LineWith(x, TRUE))
          /\ Has(flying.text, LineWith(x, TRUE)) \/ WillWrite(LineWith(x, TRUE)) => Given(isRead, x)
      BY <1>0, <1>1 DEF ReadsAreKept
    <3>3. /\ (WillWrite(LineWith(x, TRUE)))' <=> WillWrite(LineWith(x, TRUE)) \/ Has(t, LineWith(x, TRUE))
          /\ (WillWrite(LineWith(x, FALSE)))' <=> WillWrite(LineWith(x, FALSE)) \/ Has(t, LineWith(x, FALSE))
          /\ (OnFile(LineWith(x, TRUE)))' <=> OnFile(LineWith(x, TRUE))
          /\ (InBuffer(x))' <=> InBuffer(x)
      BY <1>4, <1>5, <1>12 DEF LineWith
    <3> QED
      BY <1>1, <1>8, <3>1, <3>2, <3>3
  <2>3. ASSUME NEW x \in Id \ undone, NEW i \in 1..Len(writing'),
               writing'[i].kind = "rewrite", Has(writing'[i].text, LineWith(x, FALSE)), Given(isRead', x)
        PROVE  \E j \in (i + 1)..Len(writing') : writing'[j].kind = "rewrite" /\ Has(writing'[j].text, LineWith(x, TRUE))
    <3>1. i \in 1..Len(writing) /\ writing'[i] = writing[i]
      <4>1. i # Len(writing) + 1
        BY <1>3, <1>4, <1>8, <2>3
      <4> QED
        BY <1>4, <4>1
    <3>2. CASE Given(isRead, x)
      <4>1. PICK j \in (i + 1)..Len(writing) : writing[j].kind = "rewrite" /\ Has(writing[j].text, LineWith(x, TRUE))
        BY <1>0, <1>1, <2>3, <3>1, <3>2 DEF ReadsAreKept
      <4>2. j \in (i + 1)..Len(writing') /\ writing'[j] = writing[j]
        BY <1>4
      <4> QED
        BY <4>1, <4>2
    <3>3. CASE ~Given(isRead, x)
      <4>1. Has(t, LineWith(x, TRUE))
        BY <1>8, <2>3, <3>3
      <4>2. Len(writing) + 1 \in (i + 1)..Len(writing')
        BY <1>4, <3>1
      <4> QED
        BY <1>3, <1>4, <4>1, <4>2
    <3> QED
      BY <3>2, <3>3
  <2> QED
    BY <1>1, <2>1, <2>2, <2>3 DEF ReadsAreKept, Has, LineWith
<1>14. ReceiptStep
  <2> SUFFICES ASSUME NEW x \in Id \ undone, OnFile(LineWith(x, TRUE)), OnFile(LineWith(x, FALSE)) PROVE FALSE
    BY <1>1, <1>12 DEF ReceiptStep
  <2> QED
    BY NotBoth
<1>15. StatusGood'
  <2>1. ASSUME NEW p \in Entry, isRead'[p] PROVE p.id <= msgSeq
    <3>1. CASE isRead[p]
      BY <1>0, <3>1 DEF StatusGood
    <3>2. CASE p \in fl
      BY <1>0, <1>2a, <3>2 DEF BufferGood, UpTo
    <3> QED
      BY <1>7, <2>1, <3>1, <3>2
  <2>0. \A i \in 1..Len(buf) : buf[i] \in Entry
    BY <1>0, ElementOfSeq DEF ChatTypes, STypeOK
  <2>2. ASSUME NEW i \in 1..Len(buf), NEW k \in 1..Len(buf), buf[i].id = buf[k].id, buf[i].id \notin undone, i # k
        PROVE  isRead'[buf[i]]
    BY <1>0, <1>7, <2>0, <2>2 DEF StatusGood
  <2>3. ASSUME NEW i \in 1..Len(buf), buf[i].id \notin undone, Given(isRead', buf[i].id)
        PROVE  isRead'[buf[i]]
    <3>1. CASE Given(isRead, buf[i].id)
      BY <1>0, <1>7, <2>0, <2>3, <3>1 DEF StatusGood
    <3>2. CASE ~Given(isRead, buf[i].id)
      <4>1. PICK p \in Entry : p.id = buf[i].id /\ isRead'[p]
        BY <2>3 DEF Given
      <4>2. p \in fl
        BY <1>7, <3>2, <4>1 DEF Given
      <4>3. PICK k \in 1..count : p = buf[head + k] /\ head + k \in 1..Len(buf)
        BY <1>2a, <4>2
      <4> QED
        BY <2>2, <2>3, <4>1, <4>3
    <3> QED
      BY <3>1, <3>2
  <2> QED
    BY <1>1, <2>1, <2>2, <2>3 DEF StatusGood, Given, ring
<1>16. LateWritesAgree'
  BY <1>1 DEF LateWritesAgree
<1> QED
  BY <1>0, <1>5, <1>9, <1>10, <1>11, <1>13, <1>14, <1>15, <1>16, ReceiptShape DEF ChatInv

(* When the teardown has written there is nothing to be kept but the file. *)
LEMMA CompactSyncChat == ASSUME ChatInv, CompactSync PROVE ChatInv' /\ ReceiptsAtStep
<1>0. ChatTypes /\ BufferGood /\ StatusGood /\ TextsGood /\ AppendsAreNew /\ ReadsAreKept
  BY DEF ChatInv
<1>1. /\ ~closed /\ closed' /\ closed' = TRUE /\ file' = Text(Serialize) /\ behind' = FALSE
      /\ ring' = ring /\ isRead' = isRead /\ msgSeq' = msgSeq /\ writing' = writing
      /\ flying' = flying /\ starts' = starts /\ failures' = failures
      /\ twice' = twice \cup AppendedTwice /\ undone' = undone \cup ReadAgain
      /\ twice \subseteq twice' /\ undone \subseteq undone'
  BY DEF CompactSync
<1>2. /\ GoodText(Serialize, msgSeq) /\ Len(Serialize) = count
      /\ \A i \in 1..count : Serialize[i] = LineWith(buf[head + i].id, isRead[buf[head + i]])
  BY <1>0, SerializeIs
<1>3. file'.lines = Serialize /\ file' \in FileOfLines /\ file'.lines \in Seq(Line) /\ file'.torn \in BOOLEAN
  BY <1>1, <1>2 DEF Text, FileOfLines, GoodText
<1>4. ChatTypes'
  <2>1. AppendedTwice \subseteq Id /\ ReadAgain \subseteq Id
    <3>1. flying.text \in Seq(Line)
      BY <1>0 DEF ChatTypes, STypeOK
    <3>2. DOMAIN flying.text = 1..Len(flying.text)
      BY <3>1, LenProperties
    <3>3. \A i \in DOMAIN flying.text : flying.text[i].id \in Id
      BY <3>1, <3>2, IdsAre
    <3> QED
      BY <3>3 DEF AppendedTwice, ReadAgain, IdsOf
  <2>2. STypeOK'
    BY <1>0, <1>1, <1>3, <2>1 DEF ChatTypes, STypeOK, ring
  <2> QED
    BY <1>0, <1>1, <1>3, <2>2 DEF ChatTypes
<1>5. BufferGood' /\ StatusGood'
  BY <1>0, <1>1, SameBuffer, SameStatus
<1>6. TextsGood'
  <2>1. \A x : GoodText(x, msgSeq) => x \in Seq(Line) /\ Late(x) /\ Apart(x, twice', undone') /\ UpTo(x, msgSeq)
    BY <1>1, HistoriesGrow
  <2> QED
    BY <1>0, <1>1, <1>2, <1>3, <2>1 DEF TextsGood, GoodText
<1>7. AppendsAreNew'
  <2>1. ASSUME AppendsCome PROVE count > 0 /\ Serialize[count].id = msgSeq
    <3>1. count \in Nat /\ head \in Nat /\ Len(buf) = head + count /\ count > 0 /\ buf[Len(buf)].id = msgSeq
      BY <1>0, <2>1, WindowIs DEF AppendsAreNew, ChatTypes
    <3>2. count \in 1..count /\ head + count = Len(buf)
      BY <3>1
    <3>3. Serialize[count] = LineWith(msgSeq, isRead[buf[head + count]])
      BY <1>2, <3>1, <3>2
    <3> QED
      BY <3>1, <3>3, LineHasId
  <2>2. AppendsCome' <=> AppendsCome
    BY <1>1 DEF AppendsCome
  <2> QED
    BY <1>0, <1>1, <1>2, <1>3, <2>1, <2>2 DEF AppendsAreNew, AppendsCome, ring
<1>8. ReadsAreKept'
  BY <1>1 DEF ReadsAreKept
<1>9. ASSUME NEW e \in Id \ undone, Has(Serialize, LineWith(e, FALSE)) PROVE InBuffer(e) /\ ~Given(isRead, e)
  <2>1. PICK i \in 1..count : Serialize[i] = LineWith(e, FALSE)
    BY <1>2, <1>9 DEF Has
  <2> DEFINE r == isRead[buf[head + i]]
  <2>2. Serialize[i] = LineWith(buf[head + i].id, r)
    BY <1>2
  <2>3. LineWith(buf[head + i].id, r).id = buf[head + i].id /\ LineWith(buf[head + i].id, r).read = r
    BY LineHasId
  <2>4. LineWith(e, FALSE).id = e /\ LineWith(e, FALSE).read = FALSE
    BY DEF LineWith
  <2>5. buf[head + i].id = e /\ r = FALSE
    <3> HIDE DEF r
    <3> QED
      BY <2>1, <2>2, <2>3, <2>4
  <2>6. head + i \in 1..Len(buf)
    BY <1>0, WindowIs DEF ChatTypes
  <2>7. ~Given(isRead, e)
    BY <1>0, <2>5, <2>6 DEF StatusGood
  <2> QED
    BY <2>5, <2>7 DEF InBuffer
<1>10. ReceiptStep
  <2> SUFFICES ASSUME NEW e \in Id \ undone', OnFile(LineWith(e, TRUE)), (OnFile(LineWith(e, FALSE)))' PROVE FALSE
    BY DEF ReceiptStep
  <2>0. e \in Id \ undone
    BY <1>1
  <2>1. CASE Has(file'.lines, LineWith(e, FALSE))
    BY <1>0, <1>1, <1>3, <1>9, <2>0, <2>1 DEF ReadsAreKept
  <2>2. CASE flying.phase = "truncated" /\ Has(flying.text, LineWith(e, FALSE))
    BY <2>0, <2>2, NotBoth DEF OnFile
  <2> QED
    BY <1>1, <2>1, <2>2 DEF OnFile, Has, LineWith
<1>11. LateWritesAgree'
  <2>0. flying.text \in Seq(Line) /\ Serialize \in Seq(Line) /\ DOMAIN flying.text = 1..Len(flying.text)
    BY <1>0, <1>2, LenProperties DEF ChatTypes, STypeOK, GoodText
  <2>1. ASSUME NEW e \in Id \ undone'
        PROVE  /\ ~(Has(Serialize, LineWith(e, TRUE)) /\ Has(flying.text, LineWith(e, FALSE)))
               /\ ~(Has(Serialize, LineWith(e, FALSE)) /\ Has(flying.text, LineWith(e, TRUE)))
               /\ flying.phase = "append" => ~Has(flying.text, LineWith(e, FALSE))
    <3>1. e \notin ReadAgain /\ e \in Id \ undone
      BY <1>1
    <3>2. /\ Has(flying.text, LineWith(e, FALSE)) <=> LineWith(e, FALSE) \in ToSet(flying.text)
          /\ Has(Serialize, LineWith(e, TRUE)) <=> LineWith(e, TRUE) \in ToSet(Serialize)
      BY <2>0, HasIs
    <3>3. /\ ~(Has(Serialize, LineWith(e, TRUE)) /\ Has(flying.text, LineWith(e, FALSE)))
          /\ flying.phase = "append" => ~Has(flying.text, LineWith(e, FALSE))
      BY <3>1, <3>2 DEF ReadAgain
    <3>4. ~(Has(Serialize, LineWith(e, FALSE)) /\ Has(flying.text, LineWith(e, TRUE)))
      BY <1>0, <1>1, <1>9, <3>1 DEF ReadsAreKept
    <3> QED
      BY <3>3, <3>4
  <2>2. flying.phase = "append" => flying.text[1].id \in twice'
    <3> SUFFICES ASSUME flying.phase = "append" PROVE flying.text[1].id \in AppendedTwice
      BY <1>1
    <3>0. Len(flying.text) = 1
      BY <1>0 DEF ChatTypes
    <3>1. 1 \in DOMAIN flying.text
      BY <2>0, <3>0
    <3> QED
      BY <3>1 DEF AppendedTwice, IdsOf
  <2> QED
    BY <1>1, <1>3, <2>1, <2>2 DEF LateWritesAgree, Has, LineWith
<1> QED
  BY <1>0, <1>4, <1>5, <1>6, <1>7, <1>8, <1>10, <1>11, ReceiptShape DEF ChatInv

----------------------------------------------------------------------------
(* The chain and the disk.                                                 *)

(* A write begins: the append takes the receipt of now. *)
LEMMA BeginWriteChat == ASSUME ChatInv, BeginWrite PROVE ChatInv' /\ ReceiptsAtStep
<1> DEFINE op == Head(writing)
           n == Len(writing')
<1>0. ChatTypes /\ BufferGood /\ StatusGood /\ TextsGood /\ AppendsAreNew /\ ReadsAreKept
  BY DEF ChatInv
<1>1. /\ flying = None /\ writing # <<>> /\ writing' = Tail(writing)
      /\ flying' = (IF closed THEN None ELSE FlightOf(op))
      /\ ring' = ring /\ isRead' = isRead /\ msgSeq' = msgSeq /\ closed' = closed /\ file' = file
      /\ behind' = behind /\ starts' = starts /\ failures' = failures /\ twice' = twice /\ undone' = undone
  BY DEF BeginWrite, history
<1>2. /\ writing' \in Seq(Op) /\ Len(writing) \in Nat /\ n \in Nat /\ Len(writing) = n + 1
      /\ \A i \in 1..n : writing'[i] = writing[i + 1]
      /\ op = writing[1] /\ op \in Op
      /\ \A line : WillWrite(line)' => WillWrite(line)
      /\ \A line : (\E j \in 2..Len(writing) : writing[j].kind = "rewrite" /\ Has(writing[j].text, line)) => WillWrite(line)'
  BY <1>0, <1>1, QueueShrinks DEF ChatTypes
<1> HIDE DEF op, n
<1>3. 1 \in 1..Len(writing) /\ \A i \in 1..n : i + 1 \in 1..Len(writing) /\ i \in 1..((i + 1) - 1) /\ 1 \in 1..((i + 1) - 1)
  BY <1>2
<1>4. flying.phase = "none" /\ flying.text = <<>>
  BY <1>1 DEF None
<1>5. /\ op.kind \in {"append", "rewrite"}
      /\ op.kind = "append" => op.entry \in Entry /\ op.entry.id \in Id /\ isRead[op.entry] \in BOOLEAN /\ LineOf(op.entry) \in Line
      /\ op.kind = "rewrite" => op.text \in Seq(Line)
  <2>1. \A e \in Entry : isRead[e] \in BOOLEAN
    BY <1>0 DEF ChatTypes, STypeOK
  <2>2. ASSUME NEW e \in Id, NEW r \in BOOLEAN PROVE LineWith(e, r) \in Line
    BY DEF LineWith, Line
  <2>3. /\ op.kind \in {"append", "rewrite"}
        /\ op.kind = "append" => op.entry \in Entry /\ op.entry.id \in Id
        /\ op.kind = "rewrite" => op.text \in Seq(Line)
    BY <1>2, OpKinds
  <2> QED
    BY <2>1, <2>2, <2>3 DEF LineOf
<1>6. \/ closed /\ flying' = None
      \/ ~closed /\ op.kind = "append" /\ flying' = [phase |-> "append", text |-> <<LineOf(op.entry)>>]
      \/ ~closed /\ op.kind = "rewrite" /\ flying' = [phase |-> "rewrite", text |-> op.text]
  BY <1>1, <1>5 DEF FlightOf
<1>7. ASSUME op.kind = "append"
      PROVE  /\ <<LineOf(op.entry)>> \in Seq(Line) /\ Len(<<LineOf(op.entry)>>) = 1 /\ <<LineOf(op.entry)>>[1] = LineOf(op.entry)
             /\ LineOf(op.entry).id = op.entry.id
             /\ GoodText(<<LineOf(op.entry)>>, msgSeq)
  <2> DEFINE t == <<LineOf(op.entry)>>
  <2>1. t \in Seq(Line) /\ Len(t) = 1 /\ t[1] = LineOf(op.entry)
    BY <1>5, <1>7
  <2>2. LineOf(op.entry).id = op.entry.id
    BY DEF LineOf, LineWith
  <2>3. op.entry.id <= msgSeq /\ op.entry.id \in Nat
    <3>1. op.entry.id \in Nat
      BY <1>5, <1>7, EntriesAre
    <3> QED
      BY <1>0, <1>2, <1>3, <1>7, <3>1 DEF TextsGood
  <2> HIDE DEF t
  <2>4. \A i \in 1..Len(t) : i = 1
    BY <2>1
  <2>5. GoodText(t, msgSeq)
    BY <2>1, <2>2, <2>3, <2>4 DEF GoodText, Late, Apart, Once, Alike, UpTo
  <2> QED
    BY <2>1, <2>2, <2>5 DEF t
<1>8. /\ flying' \in [phase : Phase, text : Seq(Line)]
      /\ flying'.phase = "append" => Len(flying'.text) = 1
      /\ GoodText(flying'.text, msgSeq)
  <2>1. CASE closed /\ flying' = None
    <3>1. flying' = flying
      BY <1>1, <2>1
    <3> QED
      BY <1>0, <3>1 DEF ChatTypes, TextsGood
  <2>2. CASE ~closed /\ op.kind = "append" /\ flying' = [phase |-> "append", text |-> <<LineOf(op.entry)>>]
    BY <1>7, <2>2 DEF Phase
  <2>3. CASE ~closed /\ op.kind = "rewrite" /\ flying' = [phase |-> "rewrite", text |-> op.text]
    BY <1>0, <1>2, <1>3, <1>5, <2>3 DEF Phase, TextsGood
  <2> QED
    BY <1>6, <2>1, <2>2, <2>3
<1>9. ChatTypes'
  <2>1. STypeOK'
    <3>1. \A i \in DOMAIN writing' :
            \/ writing'[i].kind = "append" /\ writing'[i].entry \in Entry
            \/ writing'[i].kind = "rewrite" /\ writing'[i].text \in Seq(Line)
      BY <1>2, LenProperties, ElementOfSeq, OpKinds
    <3> QED
      BY <1>0, <1>1, <1>8, <3>1 DEF ChatTypes, STypeOK, ring
  <2> QED
    BY <1>0, <1>1, <1>2, <1>8, <2>1 DEF ChatTypes
<1>10. BufferGood' /\ \A e : (InBuffer(e))' <=> InBuffer(e)
  BY <1>0, <1>1, SameBuffer
<1>11. TextsGood'
  BY <1>0, <1>1, <1>2, <1>3, <1>8 DEF TextsGood, GoodText, n
<1>12. AppendsAreNew'
  <2>1. AppendsCome' => AppendsCome
    <3>1. ASSUME NEW i \in 1..n, writing'[i].kind = "append" PROVE AppendsCome
      BY <1>2, <1>3, <3>1 DEF AppendsCome
    <3>2. ASSUME flying'.phase = "append" PROVE AppendsCome
      <4>1. op.kind = "append"
        BY <1>6, <3>2 DEF None
      <4> QED
        BY <1>2, <1>3, <4>1 DEF AppendsCome
    <3> QED
      BY <3>1, <3>2 DEF AppendsCome, n
  <2>2. ASSUME ~closed, flying'.phase = "append" PROVE Under(file.lines, flying'.text[1].id)
    <3>1. op.kind = "append" /\ flying'.text[1].id = op.entry.id
      BY <1>6, <1>7, <2>2
    <3> QED
      BY <1>0, <1>2, <1>3, <2>2, <3>1 DEF AppendsAreNew
  <2>3. ASSUME ~closed, NEW i \in 1..n, writing'[i].kind = "append"
        PROVE  /\ Under(file.lines, writing'[i].entry.id) /\ Under(flying'.text, writing'[i].entry.id)
               /\ \A j \in 1..(i - 1) :
                    /\ writing'[j].kind = "append" => writing'[j].entry.id < writing'[i].entry.id
                    /\ writing'[j].kind = "rewrite" => Under(writing'[j].text, writing'[i].entry.id)
    <3>1. /\ writing'[i] = writing[i + 1] /\ i + 1 \in 1..Len(writing)
          /\ Under(file.lines, writing[i + 1].entry.id)
          /\ \A j \in 1..((i + 1) - 1) :
               /\ writing[j].kind = "append" => writing[j].entry.id < writing[i + 1].entry.id
               /\ writing[j].kind = "rewrite" => Under(writing[j].text, writing[i + 1].entry.id)
      BY <1>0, <1>2, <1>3, <2>3 DEF AppendsAreNew
    <3>2. \A j \in 1..(i - 1) : j \in 1..n /\ j + 1 \in 1..((i + 1) - 1)
      BY <1>2
    <3>3. CASE op.kind = "append"
      <4>1. op.entry.id < writing'[i].entry.id
        BY <1>2, <1>3, <3>1, <3>3
      <4>2. flying'.text = <<LineOf(op.entry)>>
        BY <1>6, <2>3, <3>3
      <4>3. Under(flying'.text, writing'[i].entry.id)
        <5>1. \A k \in 1..Len(flying'.text) : k = 1
          BY <1>7, <3>3, <4>2
        <5> QED
          BY <1>7, <3>3, <4>1, <4>2, <5>1 DEF Under
      <4> QED
        BY <1>2, <3>1, <3>2, <4>3
    <3>4. CASE op.kind = "rewrite"
      <4>1. flying'.text = op.text
        BY <1>6, <2>3, <3>4
      <4>2. Under(flying'.text, writing'[i].entry.id)
        BY <1>2, <1>3, <3>1, <3>4, <4>1
      <4> QED
        BY <1>2, <3>1, <3>2, <4>2
    <3> QED
      BY <1>5, <3>3, <3>4
  <2>4. ~(closed /\ flying'.phase = "append")
    BY <1>6 DEF None
  <2> QED
    BY <1>0, <1>1, <2>1, <2>2, <2>3, <2>4 DEF AppendsAreNew, ring, n
<1>13. \A line : (OnFile(line))' <=> OnFile(line)
  <2>1. flying'.phase # "truncated" /\ flying.phase # "truncated"
    BY <1>4, <1>6 DEF None
  <2> QED
    BY <1>1, <2>1 DEF OnFile, Has
<1>14. ReadsAreKept'
  <2> SUFFICES ASSUME ~closed PROVE ReadsAreKept'
    BY <1>1 DEF ReadsAreKept
  <2>1. flying'.phase # "truncated"
    BY <1>0, <1>6 DEF ReadsAreKept
  <2>2. ASSUME NEW x \in Id \ undone
        PROVE  /\ (OnFile(LineWith(x, TRUE)))' /\ (InBuffer(x))' => Given(isRead, x)
               /\ (OnFile(LineWith(x, TRUE)))' /\ Has(flying'.text, LineWith(x, FALSE)) /\ flying'.phase = "rewrite" => Given(isRead, x)
               /\ (OnFile(LineWith(x, TRUE)))' /\ (WillWrite(LineWith(x, FALSE)))' => Given(isRead, x)
               /\ flying'.phase \in {"rewrite", "truncated"} /\ Has(flying'.text, LineWith(x, FALSE)) /\ Given(isRead, x) =>
                    (WillWrite(LineWith(x, TRUE)))'
               /\ Has(flying'.text, LineWith(x, TRUE)) \/ (WillWrite(LineWith(x, TRUE)))' => Given(isRead, x)
    <3>1. /\ OnFile(LineWith(x, TRUE)) /\ InBuffer(x) => Given(isRead, x)
          /\ OnFile(LineWith(x, TRUE)) /\ WillWrite(LineWith(x, FALSE)) => Given(isRead, x)
          /\ WillWrite(LineWith(x, TRUE)) => Given(isRead, x)
          /\ op.kind = "rewrite" /\ Has(op.text, LineWith(x, FALSE)) /\ Given(isRead, x) =>
               \E j \in 2..Len(writing) : writing[j].kind = "rewrite" /\ Has(writing[j].text, LineWith(x, TRUE))
      <4>1. 1 + 1 = 2
        OBVIOUS
      <4> QED
        BY <1>0, <1>2, <1>3, <4>1 DEF ReadsAreKept
    <3>2. /\ (WillWrite(LineWith(x, TRUE)))' => WillWrite(LineWith(x, TRUE))
          /\ (WillWrite(LineWith(x, FALSE)))' => WillWrite(LineWith(x, FALSE))
          /\ (OnFile(LineWith(x, TRUE)))' <=> OnFile(LineWith(x, TRUE))
          /\ (InBuffer(x))' <=> InBuffer(x)
          /\ (\E j \in 2..Len(writing) : writing[j].kind = "rewrite" /\ Has(writing[j].text, LineWith(x, TRUE)))
               => (WillWrite(LineWith(x, TRUE)))'
      BY <1>2, <1>10, <1>13 DEF LineWith
    <3>3. CASE op.kind = "rewrite"
      <4>1. flying'.text = op.text
        BY <1>6, <3>3
      <4>2. /\ Has(op.text, LineWith(x, TRUE)) => WillWrite(LineWith(x, TRUE))
            /\ Has(op.text, LineWith(x, FALSE)) => WillWrite(LineWith(x, FALSE))
        BY <1>2, <1>3, <3>3 DEF WillWrite
      <4> QED
        BY <3>1, <3>2, <3>3, <4>1, <4>2
    <3>4. CASE op.kind = "append"
      <4>1. flying'.text = <<LineOf(op.entry)>> /\ flying'.phase = "append"
        BY <1>6, <3>4
      <4>2. Has(flying'.text, LineWith(x, TRUE)) => Given(isRead, x)
        <5> SUFFICES ASSUME Has(flying'.text, LineWith(x, TRUE)) PROVE Given(isRead, x)
          OBVIOUS
        <5>1. LineOf(op.entry) = LineWith(x, TRUE)
          <6>1. PICK k \in 1..Len(flying'.text) : flying'.text[k] = LineWith(x, TRUE)
            BY DEF Has
          <6>2. k = 1
            BY <1>7, <3>4, <4>1, <6>1
          <6> QED
            BY <1>7, <3>4, <4>1, <6>1, <6>2
        <5> DEFINE r == isRead[op.entry]
        <5>2. LineWith(op.entry.id, r).id = op.entry.id /\ LineWith(op.entry.id, r).read = r
          BY LineHasId
        <5>3. LineWith(x, TRUE).id = x /\ LineWith(x, TRUE).read = TRUE
          BY DEF LineWith
        <5>4. op.entry.id = x /\ r = TRUE
          <6>1. LineWith(op.entry.id, r) = LineWith(x, TRUE)
            BY <5>1 DEF LineOf
          <6> HIDE DEF r
          <6> QED
            BY <5>2, <5>3, <6>1
        <5> QED
          BY <1>5, <3>4, <5>4 DEF Given
      <4> QED
        BY <3>1, <3>2, <4>1, <4>2
    <3> QED
      BY <1>5, <3>3, <3>4
  <2>3. ASSUME NEW x \in Id \ undone, NEW i \in 1..n,
               writing'[i].kind = "rewrite", Has(writing'[i].text, LineWith(x, FALSE)), Given(isRead, x)
        PROVE  \E j \in (i + 1)..n : writing'[j].kind = "rewrite" /\ Has(writing'[j].text, LineWith(x, TRUE))
    <3>1. writing'[i] = writing[i + 1] /\ i + 1 \in 1..Len(writing)
      BY <1>2, <1>3
    <3>2. PICK j \in ((i + 1) + 1)..Len(writing) : writing[j].kind = "rewrite" /\ Has(writing[j].text, LineWith(x, TRUE))
      BY <1>0, <2>3, <3>1 DEF ReadsAreKept
    <3>3. j - 1 \in (i + 1)..n /\ j - 1 \in 1..n /\ (j - 1) + 1 = j
      BY <1>2
    <3>4. writing'[j - 1] = writing[j]
      BY <1>2, <3>3
    <3> QED
      BY <3>2, <3>3, <3>4
  <2> QED
    BY <1>1, <2>1, <2>2, <2>3 DEF ReadsAreKept, Has, LineWith, n
<1>15. ReceiptStep
  <2> SUFFICES ASSUME NEW x \in Id \ undone, OnFile(LineWith(x, TRUE)), OnFile(LineWith(x, FALSE)) PROVE FALSE
    BY <1>1, <1>13 DEF ReceiptStep
  <2> QED
    BY NotBoth
<1>16. StatusGood'
  BY <1>0, <1>1, SameStatus
<1>17. LateWritesAgree'
  <2> SUFFICES ASSUME closed PROVE LateWritesAgree'
    BY <1>1 DEF LateWritesAgree
  <2>1. flying'.phase = "none" /\ flying'.text = <<>> /\ Len(flying'.text) = 0
    BY <1>6, EmptySeq DEF None
  <2>2. \A x : ~Has(flying'.text, x)
    BY <2>1 DEF Has
  <2> QED
    BY <2>1, <2>2 DEF LateWritesAgree, Has, LineWith
<1> QED
  BY <1>0, <1>9, <1>10, <1>11, <1>12, <1>14, <1>15, <1>16, <1>17, ReceiptShape DEF ChatInv

(* A rewrite empties the file. *)
LEMMA TruncateChat == ASSUME ChatInv, Truncate PROVE ChatInv' /\ ReceiptsAtStep
<1>0. ChatTypes /\ BufferGood /\ StatusGood /\ TextsGood /\ AppendsAreNew /\ ReadsAreKept
  BY DEF ChatInv
<1>1. /\ flying.phase = "rewrite" /\ flying' = [flying EXCEPT !.phase = "truncated"] /\ file' = Text(<<>>)
      /\ ring' = ring /\ isRead' = isRead /\ msgSeq' = msgSeq /\ writing' = writing /\ closed' = closed
      /\ behind' = behind /\ starts' = starts /\ failures' = failures /\ twice' = twice /\ undone' = undone
  BY DEF Truncate, history
<1>2. flying' \in [phase : Phase, text : Seq(Line)] /\ flying'.phase = "truncated" /\ flying'.text = flying.text
  BY <1>0, <1>1 DEF ChatTypes, Phase
<1>3. /\ file'.lines = <<>> /\ file' \in FileOfLines /\ file'.lines \in Seq(Line) /\ file'.torn \in BOOLEAN
      /\ Len(file'.lines) = 0
  BY <1>1, EmptySeq DEF Text, FileOfLines
<1>4. ChatTypes'
  BY <1>0, <1>1, <1>2, <1>3 DEF ChatTypes, STypeOK, ring
<1>5. BufferGood' /\ \A e : (InBuffer(e))' <=> InBuffer(e)
  BY <1>0, <1>1, SameBuffer
<1>6. Late(file'.lines) /\ UpTo(file'.lines, msgSeq) /\ Apart(file'.lines, twice, undone) /\ \A e : Under(file'.lines, e) /\ ~Has(file'.lines, e)
  BY <1>3 DEF Late, UpTo, Apart, Once, Alike, Under, Has
<1>7. TextsGood'
  BY <1>0, <1>1, <1>2, <1>6 DEF TextsGood, GoodText
<1>8. AppendsAreNew'
  BY <1>0, <1>1, <1>2, <1>6 DEF AppendsAreNew, AppendsCome, ring
<1>9. \A line : (OnFile(line))' <=> Has(flying.text, line)
  BY <1>2, <1>6 DEF OnFile, Has
<1>10. \A line : (WillWrite(line))' <=> WillWrite(line)
  BY <1>1, WillWriteSame
<1>11. ReadsAreKept' /\ (~closed => ReceiptStep)
  <2> SUFFICES ASSUME ~closed PROVE ReadsAreKept' /\ ReceiptStep
    BY <1>1 DEF ReadsAreKept
  <2>1. ASSUME NEW x \in Id \ undone
        PROVE  /\ (OnFile(LineWith(x, TRUE)))' => Given(isRead, x)
               /\ Has(flying'.text, LineWith(x, FALSE)) /\ Given(isRead, x) => (WillWrite(LineWith(x, TRUE)))'
               /\ Has(flying'.text, LineWith(x, TRUE)) \/ (WillWrite(LineWith(x, TRUE)))' => Given(isRead, x)
               /\ OnFile(LineWith(x, TRUE)) /\ (OnFile(LineWith(x, FALSE)))' => Given(isRead, x)
    <3>1. /\ OnFile(LineWith(x, TRUE)) /\ Has(flying.text, LineWith(x, FALSE)) /\ flying.phase = "rewrite" => Given(isRead, x)
          /\ flying.phase \in {"rewrite", "truncated"} /\ Has(flying.text, LineWith(x, FALSE)) /\ Given(isRead, x) =>
               WillWrite(LineWith(x, TRUE))
          /\ Has(flying.text, LineWith(x, TRUE)) \/ WillWrite(LineWith(x, TRUE)) => Given(isRead, x)
      BY <1>0 DEF ReadsAreKept
    <3>2. /\ (OnFile(LineWith(x, TRUE)))' <=> Has(flying.text, LineWith(x, TRUE))
          /\ (OnFile(LineWith(x, FALSE)))' <=> Has(flying.text, LineWith(x, FALSE))
          /\ (WillWrite(LineWith(x, TRUE)))' <=> WillWrite(LineWith(x, TRUE))
      BY <1>9, <1>10 DEF LineWith
    <3> QED
      BY <1>1, <1>2, <3>1, <3>2
  <2>2. \A x \in Id \ undone, i \in 1..Len(writing) :
          writing[i].kind = "rewrite" /\ Has(writing[i].text, LineWith(x, FALSE)) /\ Given(isRead, x) =>
            \E j \in (i + 1)..Len(writing) : writing[j].kind = "rewrite" /\ Has(writing[j].text, LineWith(x, TRUE))
    BY <1>0 DEF ReadsAreKept
  <2>5. ASSUME NEW x \in Id \ undone
        PROVE  /\ (OnFile(LineWith(x, TRUE)))' /\ (InBuffer(x))' => Given(isRead', x)
               /\ (OnFile(LineWith(x, TRUE)))' /\ Has(flying'.text, LineWith(x, FALSE)) /\ flying'.phase = "rewrite" => Given(isRead', x)
               /\ (OnFile(LineWith(x, TRUE)))' /\ (WillWrite(LineWith(x, FALSE)))' => Given(isRead', x)
               /\ flying'.phase \in {"rewrite", "truncated"} /\ Has(flying'.text, LineWith(x, FALSE)) /\ Given(isRead', x) =>
                    (WillWrite(LineWith(x, TRUE)))'
               /\ Has(flying'.text, LineWith(x, TRUE)) \/ (WillWrite(LineWith(x, TRUE)))' => Given(isRead', x)
    BY <1>1, <1>2, <2>1
  <2>6. \A x \in Id \ undone, i \in 1..Len(writing') :
          writing'[i].kind = "rewrite" /\ Has(writing'[i].text, LineWith(x, FALSE)) /\ Given(isRead', x) =>
            \E j \in (i + 1)..Len(writing') : writing'[j].kind = "rewrite" /\ Has(writing'[j].text, LineWith(x, TRUE))
    BY <1>1, <2>2
  <2>3. ReadsAreKept'
    BY <1>1, <1>3, <1>6, <2>5, <2>6 DEF ReadsAreKept, Has, LineWith
  <2>4. ReceiptStep
    <3> SUFFICES ASSUME NEW x \in Id \ undone, OnFile(LineWith(x, TRUE)), (OnFile(LineWith(x, FALSE)))'
                 PROVE  (WillWrite(LineWith(x, TRUE)))'
      BY <1>1 DEF ReceiptStep
    <3>1. Has(flying'.text, LineWith(x, FALSE))
      <4>1. (OnFile(LineWith(x, FALSE)))' <=> Has(flying.text, LineWith(x, FALSE))
        BY <1>9 DEF LineWith
      <4> QED
        BY <1>2, <4>1
    <3> QED
      BY <2>1, <3>1
  <2> QED
    BY <2>3, <2>4
<1>12. StatusGood'
  BY <1>0, <1>1, SameStatus
<1>13. LateWritesAgree'
  BY <1>1, <1>2, <1>6 DEF LateWritesAgree, Has, LineWith
<1>14. closed => ReceiptStep
  <2> SUFFICES ASSUME closed, NEW x \in Id \ undone, OnFile(LineWith(x, TRUE)), (OnFile(LineWith(x, FALSE)))' PROVE FALSE
    BY <1>1 DEF ReceiptStep
  <2>1. Has(file.lines, LineWith(x, TRUE))
    BY <1>1 DEF OnFile
  <2>2. Has(flying.text, LineWith(x, FALSE))
    BY <1>9 DEF LineWith
  <2> QED
    BY <2>1, <2>2 DEF ChatInv, LateWritesAgree
<1> QED
  BY <1>0, <1>4, <1>5, <1>7, <1>8, <1>11, <1>12, <1>13, <1>14, ReceiptShape DEF ChatInv

(* A write fails. *)
LEMMA WriteFailsChat == ASSUME ChatInv, WriteFails PROVE ChatInv' /\ ReceiptsAtStep
<1>0. ChatTypes /\ BufferGood /\ StatusGood /\ TextsGood /\ AppendsAreNew /\ ReadsAreKept
  BY DEF ChatInv
<1>1. /\ failures < MaxFailures /\ failures' = failures + 1 /\ behind' = TRUE /\ flying' = None
      /\ ring' = ring /\ isRead' = isRead /\ msgSeq' = msgSeq /\ writing' = writing /\ closed' = closed
      /\ file' = file /\ starts' = starts /\ twice' = twice /\ undone' = undone
  BY DEF WriteFails, history
<1>2. /\ flying' \in [phase : Phase, text : Seq(Line)] /\ flying'.phase = "none" /\ flying'.text = <<>>
      /\ Len(flying'.text) = 0
  BY <1>1, EmptySeq DEF None, Phase
<1>3. failures' \in 0..MaxFailures
  BY <1>0, <1>1, BoundsAssumption DEF ChatTypes, STypeOK
<1>4. ChatTypes'
  BY <1>0, <1>1, <1>2, <1>3 DEF ChatTypes, STypeOK, ring
<1>5. BufferGood' /\ \A e : (InBuffer(e))' <=> InBuffer(e)
  BY <1>0, <1>1, SameBuffer
<1>6. GoodText(flying'.text, msgSeq) /\ \A e : Under(flying'.text, e) /\ ~Has(flying'.text, e)
  BY <1>2 DEF GoodText, Late, UpTo, Apart, Once, Alike, Under, Has
<1>7. TextsGood'
  BY <1>0, <1>1, <1>6 DEF TextsGood, GoodText
<1>8. AppendsAreNew'
  BY <1>0, <1>1, <1>2, <1>6 DEF AppendsAreNew, AppendsCome, ring
<1>9. \A line : ((OnFile(line))' => OnFile(line)) /\ (~closed /\ (OnFile(line))' => Has(file.lines, line))
  BY <1>1, <1>2 DEF OnFile, Has
<1>10. \A line : (WillWrite(line))' <=> WillWrite(line)
  BY <1>1, WillWriteSame
<1>11. ReadsAreKept'
  <2> SUFFICES ASSUME ~closed PROVE ReadsAreKept'
    BY <1>1 DEF ReadsAreKept
  <2>1. ASSUME NEW x \in Id \ undone
        PROVE  /\ (OnFile(LineWith(x, TRUE)))' /\ (InBuffer(x))' => Given(isRead, x)
               /\ (OnFile(LineWith(x, TRUE)))' /\ (WillWrite(LineWith(x, FALSE)))' => Given(isRead, x)
               /\ Has(flying'.text, LineWith(x, TRUE)) \/ (WillWrite(LineWith(x, TRUE)))' => Given(isRead, x)
    <3>1. /\ OnFile(LineWith(x, TRUE)) /\ InBuffer(x) => Given(isRead, x)
          /\ OnFile(LineWith(x, TRUE)) /\ WillWrite(LineWith(x, FALSE)) => Given(isRead, x)
          /\ WillWrite(LineWith(x, TRUE)) => Given(isRead, x)
      BY <1>0 DEF ReadsAreKept
    <3>2. /\ (OnFile(LineWith(x, TRUE)))' => OnFile(LineWith(x, TRUE))
          /\ (WillWrite(LineWith(x, TRUE)))' <=> WillWrite(LineWith(x, TRUE))
          /\ (WillWrite(LineWith(x, FALSE)))' <=> WillWrite(LineWith(x, FALSE))
          /\ (InBuffer(x))' <=> InBuffer(x)
          /\ ~Has(flying'.text, LineWith(x, TRUE))
      BY <1>5, <1>6, <1>9, <1>10 DEF LineWith
    <3> QED
      BY <3>1, <3>2
  <2>2. \A x \in Id \ undone, i \in 1..Len(writing) :
          writing[i].kind = "rewrite" /\ Has(writing[i].text, LineWith(x, FALSE)) /\ Given(isRead, x) =>
            \E j \in (i + 1)..Len(writing) : writing[j].kind = "rewrite" /\ Has(writing[j].text, LineWith(x, TRUE))
    BY <1>0 DEF ReadsAreKept
  <2>3. ASSUME NEW x \in Id \ undone
        PROVE  /\ (OnFile(LineWith(x, TRUE)))' /\ (InBuffer(x))' => Given(isRead', x)
               /\ (OnFile(LineWith(x, TRUE)))' /\ Has(flying'.text, LineWith(x, FALSE)) /\ flying'.phase = "rewrite" => Given(isRead', x)
               /\ (OnFile(LineWith(x, TRUE)))' /\ (WillWrite(LineWith(x, FALSE)))' => Given(isRead', x)
               /\ flying'.phase \in {"rewrite", "truncated"} /\ Has(flying'.text, LineWith(x, FALSE)) /\ Given(isRead', x) =>
                    (WillWrite(LineWith(x, TRUE)))'
               /\ Has(flying'.text, LineWith(x, TRUE)) \/ (WillWrite(LineWith(x, TRUE)))' => Given(isRead', x)
    BY <1>1, <1>2, <2>1
  <2>4. \A x \in Id \ undone, i \in 1..Len(writing') :
          writing'[i].kind = "rewrite" /\ Has(writing'[i].text, LineWith(x, FALSE)) /\ Given(isRead', x) =>
            \E j \in (i + 1)..Len(writing') : writing'[j].kind = "rewrite" /\ Has(writing'[j].text, LineWith(x, TRUE))
    BY <1>1, <2>2
  <2>5. flying'.phase # "truncated"
    BY <1>1, <1>2, <2>2
  <2> QED
    BY <1>1, <2>3, <2>4, <2>5 DEF ReadsAreKept, Has, LineWith
<1>12. ReceiptStep
  <2> SUFFICES ASSUME NEW x \in Id \ undone, OnFile(LineWith(x, TRUE)), (OnFile(LineWith(x, FALSE)))' PROVE FALSE
    BY <1>1 DEF ReceiptStep
  <2>1. OnFile(LineWith(x, FALSE))
    BY <1>9 DEF LineWith
  <2> QED
    BY <2>1, NotBoth
<1>13. StatusGood'
  BY <1>0, <1>1, SameStatus
<1>14. LateWritesAgree'
  BY <1>1, <1>2, <1>6 DEF LateWritesAgree, Has, LineWith
<1> QED
  BY <1>0, <1>4, <1>5, <1>7, <1>8, <1>11, <1>12, <1>13, <1>14, ReceiptShape DEF ChatInv

(* A line that is appended keeps the file's latest among its last two, and *)
(* is the second of an id only if it is late.                              *)
LEMMA LineLands ==
  ASSUME ChatInv, flying.phase = "append"
  PROVE  /\ WithLine(file, flying.text[1]) \in FileOfLines
         /\ Late(WithLine(file, flying.text[1]).lines) /\ UpTo(WithLine(file, flying.text[1]).lines, msgSeq)
         /\ Apart(WithLine(file, flying.text[1]).lines, twice, undone)
         /\ \A i \in 1..Len(file.lines) :
              /\ i \in 1..Len(WithLine(file, flying.text[1]).lines)
              /\ WithLine(file, flying.text[1]).lines[i] = file.lines[i]
<1> DEFINE line == flying.text[1]
           m == Len(file.lines)
           g == WithLine(file, line)
           l == g.lines
<1>0. ChatTypes /\ TextsGood /\ AppendsAreNew
  BY DEF ChatInv
<1>1. Len(flying.text) = 1 /\ flying.text \in Seq(Line) /\ file \in FileOfLines /\ file.lines \in Seq(Line)
      /\ file.torn \in BOOLEAN /\ msgSeq \in 0..MaxEntries
  BY <1>0 DEF ChatTypes, STypeOK
<1>2. 1 \in 1..Len(flying.text) /\ line \in Line /\ line.id \in Nat /\ m \in Nat /\ \A i \in 1..m : file.lines[i].id \in Nat
  <2>1. 1 \in 1..Len(flying.text)
    BY <1>1
  <2> QED
    BY <1>1, <2>1, IdsAre
<1>3. /\ g \in FileOfLines
      /\ file.torn => l = file.lines
      /\ ~file.torn => /\ Len(l) = m + 1 /\ l[m + 1] = line
                       /\ \A i \in 1..m : l[i] = file.lines[i]
  BY <1>1, <1>2, WithLineIs
<1>4. /\ line.id <= msgSeq
      /\ ~closed => \A i \in 1..m : file.lines[i].id < line.id
      /\ closed => m > 0 /\ \A i \in 1..m : file.lines[i].id <= file.lines[m].id
      /\ \A i \in 1..m : file.lines[i].id <= msgSeq
  <2>1. line.id <= msgSeq
    BY <1>0, <1>2 DEF TextsGood, GoodText, UpTo
  <2>2. \A i \in 1..m : file.lines[i].id <= msgSeq
    BY <1>0 DEF TextsGood, UpTo
  <2>3. ~closed => \A i \in 1..m : file.lines[i].id < line.id
    BY <1>0 DEF AppendsAreNew, Under
  <2>4. closed => m > 0 /\ file.lines[m].id = msgSeq
    BY <1>0 DEF AppendsAreNew
  <2> QED
    BY <2>1, <2>2, <2>3, <2>4
<1>4a. /\ closed => line.id \in twice
       /\ closed /\ line.id \notin undone =>
            line.read /\ \A i \in 1..m : file.lines[i].id = line.id => file.lines[i].read
  <2>1. closed => line.id \in twice
    BY DEF ChatInv, LateWritesAgree, line
  <2>2. Has(flying.text, line) /\ line = LineWith(line.id, line.read) /\ line.read \in BOOLEAN /\ line.id \in Id
    <3>1. 1 \in 1..Len(flying.text)
      BY <1>1
    <3> QED
      BY <1>1, <3>1, IdsAre DEF Has, line
  <2>3. ASSUME closed, line.id \notin undone
        PROVE  line.read /\ \A i \in 1..m : file.lines[i].id = line.id => file.lines[i].read
    <3>1. /\ ~Has(flying.text, LineWith(line.id, FALSE))
          /\ ~(Has(file.lines, LineWith(line.id, FALSE)) /\ Has(flying.text, LineWith(line.id, TRUE)))
      BY <2>2, <2>3 DEF ChatInv, LateWritesAgree
    <3>2. line.read = TRUE
      BY <2>2, <3>1
    <3>3. ~Has(file.lines, LineWith(line.id, FALSE))
      BY <2>2, <3>1, <3>2
    <3>4. ASSUME NEW i \in 1..m, file.lines[i].id = line.id PROVE file.lines[i].read
      <4>1. file.lines[i] = LineWith(line.id, file.lines[i].read) /\ file.lines[i].read \in BOOLEAN
        BY <1>1, <3>4, IdsAre DEF m
      <4> QED
        BY <3>3, <4>1 DEF Has, m
    <3> QED
      BY <3>2, <3>4
  <2> QED
    BY <2>1, <2>3
<1> HIDE DEF line, m, g, l
<1>5. CASE file.torn
  <2>1. Late(l) /\ UpTo(l, msgSeq) /\ Apart(l, twice, undone)
    BY <1>0, <1>3, <1>5 DEF TextsGood
  <2> QED
    BY <1>3, <1>5, <2>1 DEF l, g, line, m
<1>6. CASE ~file.torn
  <2>0. Len(l) = m + 1 /\ l[m + 1] = line /\ \A i \in 1..m : l[i] = file.lines[i]
    BY <1>3, <1>6
  <2>1. UpTo(l, msgSeq)
    <3> SUFFICES ASSUME NEW i \in 1..(m + 1) PROVE l[i].id <= msgSeq
      BY <2>0 DEF UpTo
    <3>1. CASE i = m + 1
      BY <1>4, <2>0, <3>1
    <3>2. CASE i # m + 1
      <4>1. i \in 1..m
        BY <1>2, <3>2
      <4> QED
        BY <1>4, <2>0, <4>1
    <3> QED
      BY <3>1, <3>2
  <2>2. Late(l)
    <3> SUFFICES ASSUME NEW k \in 1..(m + 1), NEW i \in 1..k
                 PROVE  l[i].id <= l[k].id \/ (k > 1 /\ l[i].id <= l[k - 1].id)
      BY <2>0 DEF Late
    <3>1. CASE k # m + 1
      <4>1. k \in 1..m /\ i \in 1..m /\ (k > 1 => k - 1 \in 1..m)
        BY <1>2, <3>1
      <4>2. file.lines[i].id <= file.lines[k].id \/ (k > 1 /\ file.lines[i].id <= file.lines[k - 1].id)
        BY <1>0, <4>1 DEF TextsGood, Late, m
      <4> QED
        BY <2>0, <4>1, <4>2
    <3>2. CASE k = m + 1 /\ i = m + 1
      <4>1. l[i].id = line.id /\ l[k].id = line.id /\ line.id \in Nat
        BY <1>2, <2>0, <3>2
      <4> QED
        BY <4>1
    <3>3. CASE k = m + 1 /\ i # m + 1
      <4>1. i \in 1..m /\ l[i] = file.lines[i] /\ l[k] = line
        BY <1>2, <2>0, <3>3
      <4>2. CASE ~closed
        <5>1. file.lines[i].id < line.id /\ file.lines[i].id \in Nat /\ line.id \in Nat
          BY <1>2, <1>4, <4>1, <4>2
        <5> QED
          BY <4>1, <5>1
      <4>3. CASE closed
        <5>1. m > 0 /\ file.lines[i].id <= file.lines[m].id
          BY <1>4, <4>1, <4>3
        <5>2. k > 1 /\ k - 1 = m /\ m \in 1..m
          BY <1>2, <3>3, <5>1
        <5>3. l[k - 1] = file.lines[m]
          BY <2>0, <5>2
        <5> QED
          BY <4>1, <5>1, <5>2, <5>3
      <4> QED
        BY <4>2, <4>3
    <3> QED
      BY <3>1, <3>2, <3>3
  <2>3. \A i \in 1..m : i \in 1..Len(l)
    BY <1>2, <2>0
  <2>4. Apart(l, twice, undone)
    <3>0. \A i \in 1..(m + 1) : i = m + 1 \/ i \in 1..m
      BY <1>2
    <3>1. Apart(file.lines, twice, undone)
      BY <1>0 DEF TextsGood
    <3>2. ASSUME NEW i \in 1..m, l[i].id = line.id
          PROVE  line.id \in twice /\ (line.id \notin undone => line.read /\ l[i].read)
      <4>1. CASE ~closed
        <5>1. file.lines[i].id < line.id /\ file.lines[i].id = line.id /\ line.id \in Nat
          BY <1>2, <1>4, <2>0, <3>2, <4>1
        <5> QED
          BY <5>1
      <4>2. CASE closed
        BY <1>4a, <2>0, <3>2, <4>2
      <4> QED
        BY <4>1, <4>2
    <3>3. ASSUME NEW i \in 1..(m + 1), NEW k \in 1..(m + 1), l[i].id = l[k].id, i # k
          PROVE  (l[i].id \in twice) /\ (l[i].id \in Id \ undone => l[i].read /\ l[k].read)
      <4>1. CASE i \in 1..m /\ k \in 1..m
        <5>1. l[i] = file.lines[i] /\ l[k] = file.lines[k] /\ l[i].id \in Id
          BY <1>1, <2>0, <4>1, IdsAre DEF m
        <5> QED
          BY <3>1, <3>3, <4>1, <5>1 DEF Apart, Once, Alike, m
      <4>2. CASE i = m + 1 /\ k \in 1..m
        BY <2>0, <3>2, <3>3, <4>2
      <4>3. CASE i \in 1..m /\ k = m + 1
        BY <2>0, <3>2, <3>3, <4>3
      <4> QED
        BY <3>0, <3>3, <4>1, <4>2, <4>3
    <3> QED
      BY <2>0, <3>3 DEF Apart, Once, Alike
  <2> QED
    BY <1>3, <2>0, <2>1, <2>2, <2>3, <2>4 DEF l, g, line, m
<1> QED
  BY <1>5, <1>6

(* A write lands. *)
LEMMA LandChat == ASSUME ChatInv, Land PROVE ChatInv' /\ ReceiptsAtStep
<1> DEFINE line == flying.text[1]
           m == Len(file.lines)
<1>0. ChatTypes /\ BufferGood /\ StatusGood /\ TextsGood /\ AppendsAreNew /\ ReadsAreKept
  BY DEF ChatInv
<1>1. /\ flying.phase \in {"append", "truncated"} /\ flying' = None
      /\ file' = (IF flying.phase = "append" THEN WithLine(file, line) ELSE Text(flying.text))
      /\ behind' = (IF flying.phase = "append" THEN behind \/ file.torn ELSE FALSE)
      /\ ring' = ring /\ isRead' = isRead /\ msgSeq' = msgSeq /\ writing' = writing /\ closed' = closed
      /\ starts' = starts /\ failures' = failures /\ twice' = twice /\ undone' = undone
  BY DEF Land, history
<1>2. /\ flying' \in [phase : Phase, text : Seq(Line)] /\ flying'.phase = "none" /\ flying'.text = <<>>
      /\ Len(flying'.text) = 0
  BY <1>1, EmptySeq DEF None, Phase
<1>3. /\ file \in FileOfLines /\ flying.text \in Seq(Line) /\ file.lines \in Seq(Line) /\ m \in Nat
      /\ behind \in BOOLEAN /\ file.torn \in BOOLEAN /\ msgSeq \in Nat
      /\ \A i \in 1..m : file.lines[i].id \in Nat
      /\ flying.phase = "append" => Len(flying.text) = 1 /\ line \in Line /\ line.id \in Nat
  <2>1. file \in FileOfLines /\ flying.text \in Seq(Line) /\ file.lines \in Seq(Line)
        /\ behind \in BOOLEAN /\ file.torn \in BOOLEAN /\ msgSeq \in 0..MaxEntries
        /\ (flying.phase = "append" => Len(flying.text) = 1)
    BY <1>0 DEF ChatTypes, STypeOK
  <2>2. ASSUME flying.phase = "append" PROVE 1 \in 1..Len(flying.text)
    <3>1. Len(flying.text) = 1
      BY <2>1, <2>2
    <3> QED
      BY <3>1
  <2> QED
    BY <2>1, <2>2, IdsAre, EntriesAre
<1> DEFINE l == file'.lines
<1>4. /\ flying.phase = "append" =>
           /\ file' \in FileOfLines
           /\ file.torn => l = file.lines
           /\ ~file.torn => /\ Len(l) = m + 1 /\ l[m + 1] = line
                            /\ \A i \in 1..m : l[i] = file.lines[i]
      /\ flying.phase = "truncated" => file' \in FileOfLines /\ l = flying.text
  <2>1. CASE flying.phase = "append"
    <3>1. file' = WithLine(file, line)
      BY <1>1, <2>1
    <3> QED
      BY <1>3, <2>1, <3>1, WithLineIs
  <2>2. CASE flying.phase = "truncated"
    BY <1>1, <1>3, <2>2 DEF Text, FileOfLines
  <2> QED
    BY <1>1, <2>1, <2>2
<1> HIDE DEF line, m, l
<1>5. file' \in FileOfLines /\ l \in Seq(Line) /\ file'.torn \in BOOLEAN
  <2>1. file' \in FileOfLines
    BY <1>1, <1>4
  <2> QED
    BY <2>1 DEF FileOfLines, l
<1>6. ChatTypes'
  <2>1. behind' \in BOOLEAN
    BY <1>1, <1>3
  <2> QED
    BY <1>0, <1>1, <1>2, <1>5, <2>1 DEF ChatTypes, STypeOK, ring, l
<1>7. BufferGood' /\ \A e : (InBuffer(e))' <=> InBuffer(e)
  BY <1>0, <1>1, SameBuffer
<1>8. ASSUME flying.phase = "append"
      PROVE  /\ Has(flying.text, line) /\ line.id <= msgSeq
             /\ ~closed => \A i \in 1..m : file.lines[i].id < line.id
             /\ closed => m > 0 /\ \A i \in 1..m : file.lines[i].id <= file.lines[m].id
             /\ \A i \in 1..m : file.lines[i].id <= msgSeq
  <2>1. 1 \in 1..Len(flying.text)
    <3>1. Len(flying.text) = 1
      BY <1>3, <1>8
    <3> QED
      BY <3>1
  <2>2. Has(flying.text, line) /\ line.id <= msgSeq
    BY <1>0, <2>1 DEF TextsGood, GoodText, UpTo, Has, line
  <2>3. \A i \in 1..m : file.lines[i].id <= msgSeq
    BY <1>0 DEF TextsGood, UpTo, m
  <2>4. ~closed => \A i \in 1..m : file.lines[i].id < line.id
    BY <1>0, <1>8 DEF AppendsAreNew, Under, line, m
  <2>5. closed => m > 0 /\ file.lines[m].id = msgSeq
    BY <1>0, <1>8 DEF AppendsAreNew, m
  <2> QED
    BY <2>2, <2>3, <2>4, <2>5
<1>9. Late(l) /\ UpTo(l, msgSeq) /\ Apart(l, twice, undone)
  <2>1. CASE flying.phase = "truncated"
    BY <1>0, <1>4, <2>1 DEF TextsGood, GoodText
  <2>2. CASE flying.phase = "append"
    <3>1. file' = WithLine(file, flying.text[1])
      BY <1>1, <2>2 DEF line
    <3> QED
      BY <2>2, <3>1, LineLands DEF l
  <2> QED
    BY <1>1, <2>1, <2>2
<1>10. GoodText(flying'.text, msgSeq) /\ \A e : Under(flying'.text, e) /\ ~Has(flying'.text, e)
  BY <1>2 DEF GoodText, Late, UpTo, Apart, Once, Alike, Under, Has
<1>11. TextsGood'
  BY <1>0, <1>1, <1>9, <1>10 DEF TextsGood, GoodText, l
<1>12. ASSUME NEW e \in Nat, Under(file.lines, e), Under(flying.text, e) PROVE Under(l, e)
  <2>1. CASE flying.phase = "truncated"
    BY <1>4, <1>12, <2>1
  <2>2. CASE flying.phase = "append" /\ file.torn
    BY <1>4, <1>12, <2>2
  <2>3. CASE flying.phase = "append" /\ ~file.torn
    <3>1. line.id < e
      <4>1. 1 \in 1..Len(flying.text)
        <5>1. Len(flying.text) = 1
          BY <1>3, <2>3
        <5> QED
          BY <5>1
      <4> QED
        BY <1>12, <4>1 DEF Under, line
    <3>2. \A i \in 1..(m + 1) : i = m + 1 \/ i \in 1..m
      BY <1>3
    <3> QED
      BY <1>4, <1>12, <2>3, <3>1, <3>2 DEF Under, m
  <2> QED
    BY <1>1, <2>1, <2>2, <2>3
<1>13. AppendsAreNew'
  <2>1. AppendsCome' => AppendsCome
    BY <1>1, <1>2 DEF AppendsCome
  <2>2. ASSUME ~closed, NEW i \in 1..Len(writing), writing[i].kind = "append"
        PROVE  Under(l, writing[i].entry.id)
    <3>1. writing[i].entry.id \in Nat
      <4>1. writing[i] \in Op
        BY <1>0, ElementOfSeq DEF ChatTypes
      <4> QED
        BY <2>2, <4>1, OpKinds, EntriesAre
    <3> QED
      BY <1>0, <1>12, <2>2, <3>1 DEF AppendsAreNew
  <2> QED
    BY <1>0, <1>1, <1>2, <1>10, <2>1, <2>2 DEF AppendsAreNew, ring, l
<1>14. ASSUME NEW x, (OnFile(x))'
       PROVE  Has(l, x) /\ (OnFile(x) \/ (flying.phase = "append" /\ x = line))
  <2>1. Has(l, x)
    BY <1>2, <1>14 DEF OnFile, Has, l
  <2>2. PICK i \in 1..Len(l) : l[i] = x
    BY <2>1 DEF Has
  <2>3. CASE flying.phase = "truncated"
    BY <1>4, <2>1, <2>3 DEF OnFile
  <2>4. CASE flying.phase = "append" /\ file.torn
    BY <1>4, <2>1, <2>4 DEF OnFile
  <2>5. CASE flying.phase = "append" /\ ~file.torn
    <3>1. i = m + 1 \/ i \in 1..m
      BY <1>3, <1>4, <2>2, <2>5
    <3> QED
      BY <1>4, <2>1, <2>2, <2>5, <3>1 DEF OnFile, Has, m
  <2> QED
    BY <1>1, <2>1, <2>3, <2>4, <2>5
<1>15. \A x : (WillWrite(x))' <=> WillWrite(x)
  BY <1>1, WillWriteSame
<1>16. ReadsAreKept'
  <2> SUFFICES ASSUME ~closed PROVE ReadsAreKept'
    BY <1>1 DEF ReadsAreKept
  <2>1. ASSUME NEW x \in Id \ undone, (OnFile(LineWith(x, TRUE)))' PROVE OnFile(LineWith(x, TRUE)) \/ Given(isRead, x)
    <3>1. OnFile(LineWith(x, TRUE)) \/ (flying.phase = "append" /\ LineWith(x, TRUE) = line)
      BY <1>14, <2>1 DEF LineWith
    <3>2. flying.phase = "append" => Has(flying.text, line)
      BY <1>8
    <3> QED
      BY <1>0, <3>1, <3>2 DEF ReadsAreKept
  <2>2. ASSUME NEW x \in Id \ undone
        PROVE  /\ (OnFile(LineWith(x, TRUE)))' /\ (InBuffer(x))' => Given(isRead', x)
               /\ (OnFile(LineWith(x, TRUE)))' /\ Has(flying'.text, LineWith(x, FALSE)) /\ flying'.phase = "rewrite" => Given(isRead', x)
               /\ (OnFile(LineWith(x, TRUE)))' /\ (WillWrite(LineWith(x, FALSE)))' => Given(isRead', x)
               /\ flying'.phase \in {"rewrite", "truncated"} /\ Has(flying'.text, LineWith(x, FALSE)) /\ Given(isRead', x) =>
                    (WillWrite(LineWith(x, TRUE)))'
               /\ Has(flying'.text, LineWith(x, TRUE)) \/ (WillWrite(LineWith(x, TRUE)))' => Given(isRead', x)
    <3>1. /\ OnFile(LineWith(x, TRUE)) /\ InBuffer(x) => Given(isRead, x)
          /\ OnFile(LineWith(x, TRUE)) /\ WillWrite(LineWith(x, FALSE)) => Given(isRead, x)
          /\ WillWrite(LineWith(x, TRUE)) => Given(isRead, x)
      BY <1>0 DEF ReadsAreKept
    <3>2. /\ (WillWrite(LineWith(x, TRUE)))' <=> WillWrite(LineWith(x, TRUE))
          /\ (WillWrite(LineWith(x, FALSE)))' <=> WillWrite(LineWith(x, FALSE))
          /\ (InBuffer(x))' <=> InBuffer(x)
          /\ ~Has(flying'.text, LineWith(x, TRUE))
      BY <1>7, <1>10, <1>15 DEF LineWith
    <3> QED
      BY <1>1, <1>2, <2>1, <3>1, <3>2
  <2>3. \A x \in Id \ undone, i \in 1..Len(writing') :
          writing'[i].kind = "rewrite" /\ Has(writing'[i].text, LineWith(x, FALSE)) /\ Given(isRead', x) =>
            \E j \in (i + 1)..Len(writing') : writing'[j].kind = "rewrite" /\ Has(writing'[j].text, LineWith(x, TRUE))
    BY <1>0, <1>1 DEF ReadsAreKept
  <2>5. flying'.phase # "truncated"
    BY <1>2
  <2> QED
    BY <1>1, <2>2, <2>3, <2>5 DEF ReadsAreKept, Has, LineWith, l
<1>17. ReceiptStep
  <2> SUFFICES ASSUME NEW x \in Id \ undone, OnFile(LineWith(x, TRUE)), (OnFile(LineWith(x, FALSE)))' PROVE FALSE
    BY <1>1 DEF ReceiptStep
  <2>1. OnFile(LineWith(x, FALSE)) \/ (flying.phase = "append" /\ LineWith(x, FALSE) = line)
    BY <1>14 DEF LineWith
  <2>2. CASE flying.phase = "append" /\ LineWith(x, FALSE) = line /\ ~closed
    <3>1. line.id = x
      BY <2>2 DEF LineWith
    <3>2. Has(file.lines, LineWith(x, TRUE))
      BY <2>2 DEF OnFile
    <3>3. PICK i \in 1..m : file.lines[i] = LineWith(x, TRUE)
      BY <3>2 DEF Has, m
    <3>4. file.lines[i].id = x
      BY <3>3 DEF LineWith
    <3>5. x < x /\ x \in Nat
      BY <1>3, <1>8, <2>2, <3>1, <3>4
    <3> QED
      BY <3>5
  <2>3. CASE flying.phase = "append" /\ LineWith(x, FALSE) = line /\ closed
    <3>1. Has(flying.text, LineWith(x, FALSE))
      BY <1>8, <2>3
    <3> QED
      BY <2>3, <3>1 DEF ChatInv, LateWritesAgree
  <2>4. closed \in BOOLEAN
    BY <1>0 DEF ChatTypes, STypeOK
  <2> QED
    BY <2>1, <2>2, <2>3, <2>4, NotBoth
<1>18. StatusGood'
  BY <1>0, <1>1, SameStatus
<1>19. LateWritesAgree'
  BY <1>1, <1>2, <1>10 DEF LateWritesAgree, Has, LineWith
<1> QED
  BY <1>0, <1>6, <1>7, <1>11, <1>13, <1>16, <1>17, <1>18, <1>19, ReceiptShape DEF ChatInv

----------------------------------------------------------------------------
(* A restart.                                                              *)

(* A beginning of a text whose latest id is late has it late too. *)
LEMMA BeginningIs ==
  ASSUME NEW t \in Seq(Line), NEW n \in 0..(Len(t) - 1), Late(t)
  PROVE  LET s == SubSeq(t, 1, n)
         IN  /\ s \in Seq(Line) /\ Late(s) /\ \A x : Has(s, x) => Has(t, x)
             /\ Apart(t, twice, undone) => Apart(s, twice, undone)
<1> DEFINE s == SubSeq(t, 1, n)
<1>1. Len(t) \in Nat /\ n \in Nat /\ n < Len(t)
  BY LenProperties
<1>2. /\ (IF 1 <= n THEN n - 1 + 1 ELSE 0) = n /\ \A i \in 1..n : i \in 1..Len(t) /\ i \in 1..(n - 1 + 1) /\ 1 + i - 1 = i
  BY <1>1
<1>3. \A i \in 1..n : t[i] \in Line
  BY <1>2, ElementOfSeq
<1>4. s \in Seq(Line) /\ Len(s) = (IF 1 <= n THEN n - 1 + 1 ELSE 0) /\ \A i \in 1..(n - 1 + 1) : s[i] = t[1 + i - 1]
  BY <1>1, <1>3, SubSeqProperties
<1>5. Len(s) = n /\ \A i \in 1..n : s[i] = t[i]
  BY <1>2, <1>4
<1> HIDE DEF s
<1>6. Late(s)
  <2> SUFFICES ASSUME NEW k \in 1..n, NEW i \in 1..k
               PROVE  s[i].id <= s[k].id \/ (k > 1 /\ s[i].id <= s[k - 1].id)
    BY <1>5 DEF Late
  <2>1. k \in 1..Len(t) /\ i \in 1..n /\ (k > 1 => k - 1 \in 1..n)
    BY <1>1
  <2>2. t[i].id <= t[k].id \/ (k > 1 /\ t[i].id <= t[k - 1].id)
    BY <2>1 DEF Late
  <2> QED
    BY <1>5, <2>1, <2>2
<1>7. \A x : Has(s, x) => Has(t, x)
  BY <1>2, <1>5 DEF Has
<1>8. Apart(t, twice, undone) => Apart(s, twice, undone)
  <2>1. \A i \in 1..n : i \in 1..Len(t) /\ s[i] = t[i]
    BY <1>2, <1>5
  <2> QED
    BY <1>5, <2>1 DEF Apart, Once, Alike
<1> QED
  BY <1>4, <1>6, <1>7, <1>8 DEF s

(* What a kill leaves of the file: a beginning of what would be there. *)
LEMMA RemainsIs ==
  ASSUME ChatInv, NEW f \in Remains
  PROVE  /\ f \in FileOfLines /\ Late(f.lines) /\ Apart(f.lines, twice, undone)
         /\ flying.phase = "append" => \A x : Has(file.lines, x) => Has(f.lines, x)
         /\ flying.phase # "append" => \A x : Has(f.lines, x) => OnFile(x)
<1>0. ChatTypes /\ TextsGood
  BY DEF ChatInv
<1>1. file \in FileOfLines /\ flying.text \in Seq(Line) /\ Late(file.lines) /\ Late(flying.text)
      /\ Apart(file.lines, twice, undone) /\ Apart(flying.text, twice, undone)
  BY <1>0 DEF ChatTypes, TextsGood, GoodText
<1>2. CASE flying.phase = "append"
  <2>1. f \in {file, [file EXCEPT !.torn = TRUE], WithLine(file, flying.text[1])}
    BY <1>2 DEF Remains
  <2>2. CASE f = file
    BY <1>1, <1>2, <2>2
  <2>3. CASE f = [file EXCEPT !.torn = TRUE]
    <3>1. f \in FileOfLines /\ f.lines = file.lines
      BY <1>1, <2>3 DEF FileOfLines
    <3> QED
      BY <1>1, <1>2, <3>1
  <2>4. CASE f = WithLine(file, flying.text[1])
    <3>1. f \in FileOfLines /\ Late(f.lines) /\ Apart(f.lines, twice, undone)
          /\ \A i \in 1..Len(file.lines) : i \in 1..Len(f.lines) /\ f.lines[i] = file.lines[i]
      BY <1>2, <2>4, LineLands
    <3> QED
      BY <1>2, <3>1 DEF Has
  <2> QED
    BY <2>1, <2>2, <2>3, <2>4
<1>3. CASE flying.phase = "truncated"
  <2>1. \/ f = Text(flying.text)
        \/ \E n \in 0..(Len(flying.text) - 1), t \in BOOLEAN : f = [lines |-> SubSeq(flying.text, 1, n), torn |-> t]
    BY <1>3 DEF Remains
  <2>2. CASE f = Text(flying.text)
    BY <1>1, <1>3, <2>2 DEF Text, FileOfLines, OnFile
  <2>3. ASSUME NEW n \in 0..(Len(flying.text) - 1), NEW t \in BOOLEAN, f = [lines |-> SubSeq(flying.text, 1, n), torn |-> t]
        PROVE  f \in FileOfLines /\ Late(f.lines) /\ Apart(f.lines, twice, undone) /\ \A x : Has(f.lines, x) => OnFile(x)
    <3> DEFINE s == SubSeq(flying.text, 1, n)
    <3>1. s \in Seq(Line) /\ Late(s) /\ Apart(s, twice, undone) /\ \A x : Has(s, x) => Has(flying.text, x)
      BY <1>1, BeginningIs
    <3> HIDE DEF s
    <3>2. f = [lines |-> s, torn |-> t]
      BY <2>3 DEF s
    <3>3. f \in FileOfLines /\ f.lines = s
      BY <3>1, <3>2 DEF FileOfLines
    <3> QED
      BY <1>3, <3>1, <3>3 DEF OnFile
  <2> QED
    BY <1>3, <2>1, <2>2, <2>3
<1>4. CASE flying.phase \notin {"append", "truncated"}
  <2>1. f = file
    BY <1>4 DEF Remains
  <2> QED
    BY <1>1, <1>4, <2>1 DEF OnFile
<1> QED
  BY <1>2, <1>3, <1>4

(* The two names of the newest entries. *)
LEMMA NewestIs == \A lines : Newest(lines) = Newer(lines, Capacity)
BY DEF Newest, Newer

(* The process starts again. *)
LEMMA RestartChat == ASSUME ChatInv, Restart PROVE ChatInv' /\ ReceiptsAtStep
<1>0. ChatTypes /\ BufferGood /\ StatusGood /\ TextsGood /\ AppendsAreNew /\ ReadsAreKept
  BY DEF ChatInv
<1>1. PICK f \in Remains : file' = f /\ Load(Newest(f.lines))
  BY DEF Restart
<1> DEFINE all == f.lines
           lines == Newest(f.lines)
           m == Len(all)
           n == Len(lines)
           d == m - n
<1>2. f \in FileOfLines /\ all \in Seq(Line) /\ Late(all) /\ Apart(all, twice, undone) /\ m \in Nat
      /\ \A i \in 1..m : all[i] \in Line /\ all[i].id \in Id /\ all[i].id \in Nat
  <2>1. f \in FileOfLines /\ Late(all) /\ Apart(all, twice, undone)
    BY <1>1, RemainsIs
  <2>2. all \in Seq(Line)
    BY <2>1 DEF FileOfLines
  <2> QED
    BY <1>1, <2>1, <2>2, IdsAre
<1>3. /\ lines \in Seq(Line) /\ n = (IF m > Capacity THEN Capacity ELSE m)
      /\ \A i \in 1..n : i + d \in 1..m /\ lines[i] = all[i + d]
      /\ DOMAIN lines = 1..n
  <2>1. Newest(f.lines) = Newer(f.lines, Capacity)
    BY NewestIs
  <2>2. lines \in Seq(Line)
    BY <1>2, <2>1, NewerIs, EntriesAre
  <2>3. /\ Len(lines) = (IF Len(all) > Capacity THEN Capacity ELSE Len(all))
        /\ \A i \in 1..Len(lines) : i + (Len(all) - Len(lines)) \in 1..Len(all)
                                  /\ lines[i] = all[i + (Len(all) - Len(lines))]
    <3> DEFINE s == f.lines
    <3>1. s \in Seq(Line) /\ Capacity \in Nat
      BY <1>2, EntriesAre
    <3> HIDE DEF s
    <3>2. /\ Len(Newer(s, Capacity)) = (IF Len(s) > Capacity THEN Capacity ELSE Len(s))
          /\ \A i \in 1..Len(Newer(s, Capacity)) :
               /\ i + (Len(s) - Len(Newer(s, Capacity))) \in 1..Len(s)
               /\ Newer(s, Capacity)[i] = s[i + (Len(s) - Len(Newer(s, Capacity)))]
      BY <3>1, NewerIs
    <3> QED
      BY <2>1, <3>2 DEF s
  <2>4. DOMAIN lines = 1..Len(lines)
    BY <2>2, LenProperties
  <2> QED
    BY <2>2, <2>3, <2>4
<1>4. /\ starts < MaxStarts /\ starts' = starts + 1 /\ writing' = <<>> /\ flying' = None /\ closed' = FALSE
      /\ behind' = FALSE /\ failures' = failures /\ file' = f
      /\ buf' = [i \in 1..n |-> Loaded(lines[i].id, i)] /\ head' = 0 /\ count' = n
      /\ isRead' = [o \in Entry |-> o.place \in 1..n /\ lines[o.place] = LineWith(o.id, TRUE)]
      /\ twice' = twice \cap IdsOf(all) /\ undone' = undone \cap IdsOf(all)
      /\ msgSeq' = IF lines = <<>> THEN 0 ELSE Max(IdsOf(lines))
  BY <1>1, <1>3 DEF Restart, Load, LoadStatus, SeedMsgSeq
<1> HIDE DEF all, lines
<1>5. /\ n \in Nat /\ n <= Capacity /\ d \in Nat /\ d + n = m
      /\ (m > 0 => n > 0) /\ (m > 1 => n > 1)
  BY <1>2, <1>3, EntriesAre
<1> HIDE DEF m, n, d
<1>6. \A i \in 1..n : /\ lines[i].id = all[i + d].id /\ lines[i].id \in Id /\ lines[i].id \in Nat
                      /\ lines[i] = LineWith(lines[i].id, lines[i].read) /\ lines[i].read \in BOOLEAN
                      /\ buf'[i] \in Entry /\ buf'[i].id = lines[i].id /\ buf'[i].place = i
  <2> TAKE i \in 1..n
  <2>1. lines[i].id = all[i + d].id /\ lines[i].id \in Id /\ lines[i].id \in Nat
    BY <1>2, <1>3
  <2>2. lines[i] = LineWith(lines[i].id, lines[i].read) /\ lines[i].read \in BOOLEAN
    BY <1>3, IdsAre DEF n
  <2>3. i \in 0..Capacity
    BY <1>5, EntriesAre
  <2>4. buf'[i] \in Entry /\ buf'[i].id = lines[i].id /\ buf'[i].place = i
    BY <1>4, <2>1, <2>3 DEF Loaded, Entry
  <2> QED
    BY <2>1, <2>2, <2>4
<1>6a. /\ \A e \in Id : e \notin twice' => Once(all, e)
       /\ \A e \in Id : e \notin undone' => Alike(all, e)
       /\ Apart(all, twice', undone')
  <2>0. IdsOf(all) = {all[i].id : i \in 1..m}
    <3>1. DOMAIN all = 1..m
      BY <1>2, LenProperties DEF m
    <3> QED
      BY <3>1 DEF IdsOf
  <2>1. ASSUME NEW e \in Id, e \notin twice' PROVE Once(all, e)
    <3>1. CASE e \in IdsOf(all)
      BY <1>2, <1>4, <2>1, <3>1 DEF Apart
    <3>2. CASE e \notin IdsOf(all)
      BY <2>0, <3>2 DEF Once, m
    <3> QED
      BY <3>1, <3>2
  <2>2. ASSUME NEW e \in Id, e \notin undone' PROVE Alike(all, e)
    <3>1. CASE e \in IdsOf(all)
      BY <1>2, <1>4, <2>2, <3>1 DEF Apart
    <3>2. CASE e \notin IdsOf(all)
      BY <2>0, <3>2 DEF Alike, m
    <3> QED
      BY <3>1, <3>2
  <2> QED
    BY <2>1, <2>2 DEF Apart
<1>7. buf' \in Seq(Entry) /\ Len(buf') = n
  <2>1. buf' \in [1..n -> Entry]
    BY <1>4, <1>6
  <2>2. buf' \in Seq(Entry)
    BY <1>5, <2>1, SeqDef
  <2> QED
    BY <1>5, <2>1, <2>2, LenProperties
<1>8. msgSeq' \in 0..MaxEntries /\ \A i \in 1..n : lines[i].id <= msgSeq'
  <2>1. CASE lines = <<>>
    <3>1. n = 0
      BY <2>1, EmptySeq DEF n
    <3> QED
      BY <1>4, <2>1, <3>1, EntriesAre
  <2>2. CASE lines # <<>>
    <3>1. IdsOf(lines) = {lines[i].id : i \in 1..n}
      BY <1>3 DEF IdsOf
    <3>2. n > 0
      BY <1>3, <1>5, <2>2, EmptySeq DEF n
    <3>3. IdsOf(lines) \in SUBSET (0..MaxEntries) /\ IdsOf(lines) # {}
      <4>1. \A i \in 1..n : lines[i].id \in 0..MaxEntries
        BY <1>6 DEF Id
      <4>2. 1 \in 1..n
        BY <1>5, <3>2
      <4> QED
        BY <3>1, <4>1, <4>2
    <3>4. Max(IdsOf(lines)) \in IdsOf(lines) /\ \A y \in IdsOf(lines) : y <= Max(IdsOf(lines))
      BY <3>3, EntriesAre, GreatestOf
    <3> QED
      BY <1>4, <2>2, <3>1, <3>3, <3>4
  <2> QED
    BY <2>1, <2>2
<1>9. UpTo(all, msgSeq')
  <2> SUFFICES ASSUME NEW i \in 1..m PROVE all[i].id <= msgSeq'
    BY DEF UpTo, m
  <2>1. m > 0 /\ m \in 1..m /\ i \in 1..m /\ i \in 1..m
    BY <1>2
  <2>2. all[i].id <= all[m].id \/ (m > 1 /\ all[i].id <= all[m - 1].id)
    BY <1>2, <2>1 DEF Late, m
  <2>3. n \in 1..n /\ n + d = m
    BY <1>5, <2>1
  <2>4. m > 1 => n - 1 \in 1..n /\ (n - 1) + d = m - 1 /\ m - 1 \in 1..m
    BY <1>5, <1>2
  <2>5. all[m].id <= msgSeq' /\ all[m].id \in Nat /\ all[i].id \in Nat
    BY <1>2, <1>6, <1>8, <2>1, <2>3
  <2>6. m > 1 => all[m - 1].id <= msgSeq' /\ all[m - 1].id \in Nat
    BY <1>2, <1>6, <1>8, <2>4
  <2>7. msgSeq' \in Nat
    BY <1>8, EntriesAre
  <2> QED
    BY <2>2, <2>5, <2>6, <2>7
<1>10. /\ flying' \in [phase : Phase, text : Seq(Line)] /\ flying'.phase = "none" /\ flying'.text = <<>> /\ Len(flying'.text) = 0
       /\ writing' \in Seq(Op) /\ Len(writing') = 0
  BY <1>4, EmptySeq DEF None, Phase
<1>11. ChatTypes'
  <2>1. STypeOK'
    <3>1. \A i \in DOMAIN writing' :
            \/ writing'[i].kind = "append" /\ writing'[i].entry \in Entry
            \/ writing'[i].kind = "rewrite" /\ writing'[i].text \in Seq(Line)
      BY <1>10, LenProperties
    <3>2. /\ Len(buf') <= 2 * Capacity + 1 /\ head' \in 0..Capacity /\ count' \in 0..Capacity /\ head' + count' = Len(buf')
      BY <1>4, <1>5, <1>7, EntriesAre
    <3>3. starts' \in 1..MaxStarts
      <4>1. starts \in 1..MaxStarts
        BY <1>0 DEF ChatTypes, STypeOK
      <4> QED
        BY <1>4, <4>1, BoundsAssumption
    <3>4. isRead' \in [Entry -> BOOLEAN]
      BY <1>4
    <3>5. failures' \in 0..MaxFailures /\ closed' \in BOOLEAN /\ behind' \in BOOLEAN
      BY <1>0, <1>4 DEF ChatTypes, STypeOK
    <3>7. twice' \subseteq Id /\ undone' \subseteq Id
      BY <1>0, <1>4 DEF ChatTypes, STypeOK
    <3>6. file'.lines \in Seq(Line) /\ file'.torn \in BOOLEAN
      BY <1>2, <1>4 DEF FileOfLines
    <3> QED
      BY <1>7, <1>8, <1>10, <3>1, <3>2, <3>3, <3>4, <3>5, <3>6, <3>7 DEF STypeOK
  <2> QED
    BY <1>2, <1>4, <1>10, <2>1 DEF ChatTypes
<1>12. BufferGood'
  <2>1. ASSUME NEW i \in 1..n, NEW k \in 1..n, buf'[i].id = buf'[k].id, i # k
        PROVE  buf'[i].id \in twice' /\ buf'[i].place > 0 /\ buf'[k].place > 0
    <3>0. i + d \in 1..m /\ k + d \in 1..m /\ i + d # k + d
      BY <1>5, <2>1
    <3>1. all[i + d].id = lines[i].id /\ all[k + d].id = lines[i].id /\ lines[i].id \in Id
      BY <1>6, <2>1
    <3>2. lines[i].id \in twice'
      BY <1>6a, <3>0, <3>1 DEF Once, m
    <3> QED
      BY <1>6, <3>2
  <2>2. ASSUME NEW k \in 1..n, NEW i \in 1..k
        PROVE  lines[i].id <= lines[k].id \/ (k > 1 /\ lines[i].id <= lines[k - 1].id)
    <3>1. i \in 1..n /\ (k > 1 => k - 1 \in 1..n) /\ i + d \in 1..(k + d) /\ (k + d) - 1 = (k - 1) + d
      BY <1>5
    <3>2. all[i + d].id <= all[k + d].id \/ (k + d > 1 /\ all[i + d].id <= all[(k + d) - 1].id)
      BY <1>2, <1>3, <3>1 DEF Late, m
    <3>3. CASE k > 1
      BY <1>6, <3>1, <3>2, <3>3
    <3>4. CASE ~(k > 1)
      <4>1. i = k
        BY <1>5, <3>4
      <4>2. lines[i].id \in Nat
        BY <1>6, <3>1
      <4> QED
        BY <4>1, <4>2
    <3> QED
      BY <3>3, <3>4
  <2>3. Late(buf')
    <3> SUFFICES ASSUME NEW k \in 1..n, NEW i \in 1..k
                 PROVE  buf'[i].id <= buf'[k].id \/ (k > 1 /\ buf'[i].id <= buf'[k - 1].id)
      BY <1>7 DEF Late
    <3>1. i \in 1..n /\ (k > 1 => k - 1 \in 1..n)
      BY <1>5
    <3> QED
      BY <1>6, <2>2, <3>1
  <2>4. UpTo(buf', msgSeq')
    BY <1>6, <1>7, <1>8 DEF UpTo
  <2> QED
    BY <1>7, <2>1, <2>3, <2>4 DEF BufferGood
<1>13. TextsGood'
  <2>1. Late(file'.lines) /\ UpTo(file'.lines, msgSeq') /\ Apart(file'.lines, twice', undone')
    BY <1>2, <1>4, <1>6a, <1>9 DEF all
  <2>2. \A i : i \notin 1..Len(flying'.text)
    BY <1>10
  <2>3. flying'.text \in Seq(Line) /\ Late(flying'.text) /\ UpTo(flying'.text, msgSeq') /\ Apart(flying'.text, twice', undone')
    BY <1>10, <2>2 DEF Late, UpTo, Apart, Once, Alike
  <2>4. \A i : i \notin 1..Len(writing')
    BY <1>10
  <2> QED
    BY <2>1, <2>3, <2>4 DEF TextsGood, GoodText
<1>14. AppendsAreNew'
  BY <1>4, <1>10 DEF AppendsAreNew, AppendsCome
<1>15. ASSUME NEW x PROVE (OnFile(x))' => Has(all, x)
  BY <1>4, <1>10 DEF OnFile, Has, all
<1>15a. \A i \in 1..n : isRead'[buf'[i]] <=> lines[i].read
  <2> TAKE i \in 1..n
  <2>1. isRead'[buf'[i]] <=> lines[i] = LineWith(lines[i].id, TRUE)
    BY <1>4, <1>6
  <2>2. LineWith(lines[i].id, TRUE).read = TRUE
    BY LineHasId
  <2> QED
    BY <1>6, <2>1, <2>2
<1>15b. ASSUME NEW e \in Id, e \notin undone', NEW i \in 1..n, lines[i].id = e, NEW j \in 1..m, all[j].id = e, all[j].read
        PROVE  lines[i].read
  <2>1. i + d \in 1..m /\ lines[i] = all[i + d]
    BY <1>3, <1>5 DEF m
  <2>2. i + d = j \/ all[i + d].read
    BY <1>6a, <1>15b, <2>1 DEF Alike, m
  <2> QED
    BY <1>15b, <2>1, <2>2
<1>15c. ASSUME NEW e \in Id, e \notin undone', NEW i \in 1..n, lines[i].id = e, NEW k \in 1..n, lines[k].id = e, i # k
        PROVE  lines[i].read
  <2>1. i + d \in 1..m /\ lines[i] = all[i + d] /\ k + d \in 1..m /\ lines[k] = all[k + d] /\ i + d # k + d
    BY <1>3, <1>5, <1>15c DEF m
  <2> QED
    BY <1>6a, <1>15c, <2>1 DEF Alike, m
<1>15d. StatusGood'
  <2>1. ASSUME NEW o \in Entry, isRead'[o] PROVE o.place \in 1..n /\ lines[o.place] = LineWith(o.id, TRUE)
    BY <1>4, <2>1
  <2>2. ASSUME NEW o \in Entry, isRead'[o] PROVE o.id <= msgSeq' /\ lines[o.place].id = o.id /\ lines[o.place].read
    <3>1. o.place \in 1..n /\ lines[o.place] = LineWith(o.id, TRUE)
      BY <2>1, <2>2
    <3>2. lines[o.place].id = o.id /\ lines[o.place].read = TRUE
      BY <3>1 DEF LineWith
    <3> QED
      BY <1>8, <3>1, <3>2
  <2>3. ASSUME NEW i \in 1..n, NEW k \in 1..n, buf'[i].id = buf'[k].id, buf'[i].id \notin undone', i # k
        PROVE  isRead'[buf'[i]]
    BY <1>6, <1>15a, <1>15c, <2>3
  <2>4. ASSUME NEW i \in 1..n, buf'[i].id \notin undone', Given(isRead', buf'[i].id)
        PROVE  isRead'[buf'[i]]
    <3>1. PICK o \in Entry : o.id = buf'[i].id /\ isRead'[o]
      BY <2>4 DEF Given
    <3>2. o.place \in 1..n /\ lines[o.place].id = lines[i].id /\ lines[o.place].read
      BY <1>6, <2>1, <2>2, <3>1
    <3>3. o.place = i \/ lines[i].read
      BY <1>6, <1>15c, <2>4, <3>2
    <3> QED
      BY <1>15a, <3>2, <3>3
  <2> QED
    BY <1>7, <2>2, <2>3, <2>4 DEF StatusGood, Given
<1>16. ReadsAreKept'
  <2>1. ASSUME NEW e \in Id, e \notin undone', Has(all, LineWith(e, TRUE)), NEW i \in 1..n, lines[i].id = e PROVE Given(isRead', e)
    <3>1. PICK j \in 1..m : all[j] = LineWith(e, TRUE)
      BY <2>1 DEF Has, m
    <3>2. all[j].id = e /\ all[j].read = TRUE
      BY <3>1 DEF LineWith
    <3>3. lines[i].read
      BY <1>15b, <2>1, <3>2
    <3> QED
      BY <1>6, <1>15a, <2>1, <3>3 DEF Given
  <2>2. ASSUME NEW e \in Id \ undone', (OnFile(LineWith(e, TRUE)))', (InBuffer(e))' PROVE Given(isRead', e)
    <3>1. Has(all, LineWith(e, TRUE))
      BY <1>15, <2>2 DEF LineWith
    <3>2. PICK i \in 1..count' : buf'[head' + i].id = e
      BY <2>2 DEF InBuffer
    <3>3. i \in 1..n /\ head' + i = i
      BY <1>4, <1>5
    <3> QED
      BY <1>6, <2>1, <2>2, <3>1, <3>2, <3>3
  <2>3. \A x : ~(WillWrite(x))' /\ ~Has(flying'.text, x)
    BY <1>10 DEF WillWrite, Has
  <2>4. ASSUME NEW e \in Id \ undone'
        PROVE  /\ (OnFile(LineWith(e, TRUE)))' /\ (InBuffer(e))' => Given(isRead', e)
               /\ (OnFile(LineWith(e, TRUE)))' /\ Has(flying'.text, LineWith(e, FALSE)) /\ flying'.phase = "rewrite" => Given(isRead', e)
               /\ (OnFile(LineWith(e, TRUE)))' /\ (WillWrite(LineWith(e, FALSE)))' => Given(isRead', e)
               /\ flying'.phase \in {"rewrite", "truncated"} /\ Has(flying'.text, LineWith(e, FALSE)) /\ Given(isRead', e) =>
                    (WillWrite(LineWith(e, TRUE)))'
               /\ Has(flying'.text, LineWith(e, TRUE)) \/ (WillWrite(LineWith(e, TRUE)))' => Given(isRead', e)
    <3>1. /\ ~(WillWrite(LineWith(e, TRUE)))' /\ ~(WillWrite(LineWith(e, FALSE)))'
          /\ ~Has(flying'.text, LineWith(e, TRUE)) /\ ~Has(flying'.text, LineWith(e, FALSE))
      BY <2>3 DEF LineWith
    <3> QED
      BY <1>10, <2>2, <3>1
  <2>5. flying'.phase # "truncated" /\ ~(\E i : i \in 1..Len(writing'))
    BY <1>2, <1>4, <1>10 DEF all
  <2> QED
    BY <2>4, <2>5 DEF ReadsAreKept, Has, LineWith
<1>17. ReceiptStep
  <2> SUFFICES ASSUME NEW x \in Id \ undone', OnFile(LineWith(x, TRUE)), (OnFile(LineWith(x, FALSE)))' PROVE FALSE
    BY DEF ReceiptStep
  <2>1. Has(all, LineWith(x, FALSE))
    BY <1>15 DEF LineWith
  <2>2. PICK k \in 1..m : all[k] = LineWith(x, FALSE)
    BY <2>1 DEF Has, m
  <2>3. all[k].id = x /\ all[k].read = FALSE
    BY <2>2 DEF LineWith
  <2>4. x \in Id \ undone
    <3>1. k \in DOMAIN all
      BY <1>2, LenProperties DEF m
    <3>2. x \in IdsOf(all)
      BY <2>3, <3>1 DEF IdsOf
    <3> QED
      BY <1>4, <3>2
  <2>5. CASE flying.phase = "append"
    <3>1. Has(file.lines, LineWith(x, TRUE))
      BY <2>5 DEF OnFile
    <3>2. Has(all, LineWith(x, TRUE))
      BY <1>1, <2>5, <3>1, RemainsIs DEF all
    <3>3. PICK i \in 1..m : all[i] = LineWith(x, TRUE)
      BY <3>2 DEF Has, m
    <3>4. all[i].id = x /\ all[i].read = TRUE
      BY <3>3 DEF LineWith
    <3>5. i = k \/ all[k].read
      BY <1>6a, <2>3, <3>4 DEF Alike, m
    <3> QED
      BY <2>3, <3>4, <3>5
  <2>6. CASE flying.phase # "append"
    <3>1. OnFile(LineWith(x, FALSE))
      BY <1>1, <2>1, <2>6, RemainsIs DEF all
    <3> QED
      BY <2>4, <3>1, NotBoth
  <2> QED
    BY <2>5, <2>6
<1>18. LateWritesAgree'
  BY <1>4 DEF LateWritesAgree
<1> QED
  BY <1>0, <1>11, <1>12, <1>13, <1>14, <1>15d, <1>16, <1>17, <1>18, ReceiptShape DEF ChatInv

(* Every step keeps the transcript's invariant, and what the receipts need. *)
LEMMA ChatKeeps ==
  ASSUME ChatInv, SNext \/ UNCHANGED svars
  PROVE  ChatInv' /\ ReceiptsAtStep
<1>1. ASSUME NEW ids \in SUBSET Id, MarkReadMany(ids) PROVE ChatInv' /\ ReceiptsAtStep
  BY <1>1, MarkReadManyChat
<1>2. ASSUME UNCHANGED svars PROVE ChatInv' /\ ReceiptsAtStep
  <2>0. /\ ring' = ring /\ isRead' = isRead /\ msgSeq' = msgSeq /\ writing' = writing /\ flying' = flying
        /\ closed' = closed /\ file' = file /\ behind' = behind /\ twice' = twice /\ undone' = undone
        /\ starts' = starts /\ failures' = failures
    BY <1>2 DEF svars, history
  <2>1. ChatTypes' /\ TextsGood' /\ AppendsAreNew'
    BY <2>0 DEF ChatInv, ChatTypes, STypeOK, TextsGood, GoodText, AppendsAreNew, AppendsCome, ring
  <2>2. BufferGood' /\ StatusGood'
    BY <2>0, SameBuffer, SameStatus DEF ChatInv
  <2>3. ReadsAreKept'
    BY <2>0 DEF ChatInv, ReadsAreKept, OnFile, WillWrite, InBuffer, ring
  <2>3a. LateWritesAgree'
    BY <2>0 DEF ChatInv, LateWritesAgree
  <2>4. ReceiptStep
    <3> SUFFICES ASSUME NEW x \in Id \ undone, OnFile(LineWith(x, TRUE)), (OnFile(LineWith(x, FALSE)))' PROVE FALSE
      BY <2>0 DEF ReceiptStep
    <3>1. OnFile(LineWith(x, FALSE))
      BY <2>0 DEF OnFile, Has, LineWith
    <3> QED
      BY <3>1, NotBoth
  <2> QED
    BY <2>1, <2>2, <2>3, <2>3a, <2>4, ReceiptShape DEF ChatInv
<1> QED
  BY <1>1, <1>2, NewEntryChat, CompactSyncChat, BeginWriteChat, TruncateChat, LandChat, WriteFailsChat, RestartChat DEF SNext

(* What the invariant says of types and ids. *)
LEMMA ChatHolds == ChatInv => STypeOK /\ UniqueIds
<1> SUFFICES ASSUME ChatInv PROVE STypeOK /\ UniqueIds
  OBVIOUS
<1>1. STypeOK /\ BufferGood
  BY DEF ChatInv, ChatTypes
<1>2. /\ Len(Window) = count /\ count \in Nat /\ head \in Nat /\ Window \in Seq(Entry)
      /\ \A i \in 1..count : Window[i] = buf[head + i] /\ head + i \in 1..Len(buf)
  BY <1>1, WindowIs
<1>3. ASSUME NEW i \in 1..count, NEW k \in 1..count, Window[i].id = Window[k].id, i # k
      PROVE  Window[i].id \in twice /\ Window[i].place > 0 /\ Window[k].place > 0
  <2>1. /\ head + i # head + k /\ head + i \in 1..Len(buf) /\ head + k \in 1..Len(buf)
        /\ Window[i] = buf[head + i] /\ Window[k] = buf[head + k]
    BY <1>2, <1>3
  <2> QED
    BY <1>1, <1>3, <2>1 DEF BufferGood
<1> QED
  BY <1>1, <1>3 DEF UniqueIds

(***************************************************************************)
(* What the transcript's file will have.                                   *)

(* The last rewrite of a chain, and the lines that a file of some lines has *)
(* when the chain has been worked off, with the receipts of r.             *)
LastIn(w) == Max({0} \cup {i \in DOMAIN w : w[i].kind = "rewrite"})
Receipts == [Entry -> BOOLEAN]
LineIn(op, r) == LineWith(op.entry.id, r[op.entry])
ReplayOf(base, w, r) ==
  (IF LastIn(w) = 0 THEN base ELSE w[LastIn(w)].text)
    \o [i \in 1..(Len(w) - LastIn(w)) |-> LineIn(w[LastIn(w) + i], r)]

(* What is waiting is such a chain. *)
LEMMA ReplayIsOf == Replay = ReplayOf(Flown.lines, writing, isRead) /\ LastRewrite = LastIn(writing)
BY DEF Replay, ReplayOf, LastRewrite, LastIn, LineOf, LineIn

(* After the last rewrite there are appends, and there is one last rewrite. *)
LEMMA LastInIs ==
  ASSUME NEW w \in Seq(Op)
  PROVE  /\ Len(w) \in Nat /\ DOMAIN w = 1..Len(w) /\ LastIn(w) \in 0..Len(w) /\ LastIn(w) \in Nat
         /\ LastIn(w) > 0 => LastIn(w) \in 1..Len(w) /\ w[LastIn(w)].kind = "rewrite" /\ w[LastIn(w)].text \in Seq(Line)
         /\ \A i \in 1..Len(w) : i > LastIn(w) => w[i].kind = "append" /\ w[i].entry \in Entry
         /\ \A k \in 0..Len(w) :
              /\ k > 0 => w[k].kind = "rewrite"
              /\ \A i \in 1..Len(w) : i > k => w[i].kind = "append"
              => LastIn(w) = k
<1> DEFINE n == Len(w)
           P == {i \in DOMAIN w : w[i].kind = "rewrite"}
           S == {0} \cup P
           m == LastIn(w)
<1>1. n \in Nat /\ DOMAIN w = 1..n /\ \A i \in 1..n : w[i] \in Op
  BY LenProperties, ElementOfSeq
<1>2. m = Max(S)
  BY DEF LastIn
<1>3. S \in SUBSET (0..n) /\ S # {}
  BY <1>1
<1> HIDE DEF m, S
<1>4. m \in S /\ \A y \in S : y <= m
  BY <1>1, <1>2, <1>3, GreatestOf
<1>5. m \in 0..n /\ m \in Nat
  BY <1>1, <1>3, <1>4
<1>6. m > 0 => m \in 1..n /\ w[m].kind = "rewrite" /\ w[m].text \in Seq(Line)
  BY <1>1, <1>4, <1>5, OpKinds DEF S
<1>7. ASSUME NEW i \in 1..n, i > m PROVE w[i].kind = "append" /\ w[i].entry \in Entry
  <2>1. w[i].kind # "rewrite"
    BY <1>1, <1>4, <1>5, <1>7 DEF S
  <2> QED
    BY <1>1, <2>1, OpKinds
<1>8. ASSUME NEW k \in 0..n, k > 0 => w[k].kind = "rewrite", \A i \in 1..n : i > k => w[i].kind = "append"
      PROVE  m = k
  <2>1. CASE m < k
    <3>1. k \in 1..n /\ k > m /\ k > 0
      BY <1>1, <1>5, <2>1
    <3> QED
      BY <1>7, <1>8, <3>1
  <2>2. CASE k < m
    <3>1. m \in 1..n /\ m > k /\ m > 0
      BY <1>1, <1>5, <2>2
    <3> QED
      BY <1>6, <1>8, <3>1
  <2> QED
    BY <1>1, <1>5, <2>1, <2>2
<1> QED
  BY <1>1, <1>5, <1>6, <1>7, <1>8 DEF m

(* The lines of such a file, one by one. *)
LEMMA ReplayOfIs ==
  ASSUME NEW base \in Seq(Line), NEW w \in Seq(Op), NEW r \in Receipts
  PROVE  LET k == LastIn(w)
             start == IF k = 0 THEN base ELSE w[k].text
             n == Len(w) - k
         IN /\ start \in Seq(Line) /\ Len(start) \in Nat /\ n \in Nat
            /\ ReplayOf(base, w, r) \in Seq(Line) /\ Len(ReplayOf(base, w, r)) = Len(start) + n
            /\ \A i \in 1..Len(start) : ReplayOf(base, w, r)[i] = start[i]
            /\ \A i \in 1..n : /\ ReplayOf(base, w, r)[Len(start) + i] = LineIn(w[k + i], r)
                               /\ k + i \in 1..Len(w) /\ w[k + i].entry \in Entry /\ LineIn(w[k + i], r) \in Line
<1> DEFINE k == LastIn(w)
           start == IF k = 0 THEN base ELSE w[k].text
           n == Len(w) - k
           u == [i \in 1..n |-> LineIn(w[k + i], r)]
           m == Len(start)
           q == start \o u
<1>1. /\ Len(w) \in Nat /\ k \in 0..Len(w) /\ k \in Nat
      /\ k > 0 => w[k].text \in Seq(Line)
      /\ \A i \in 1..Len(w) : i > k => w[i].entry \in Entry
  BY LastInIs
<1>2. ReplayOf(base, w, r) = q
  BY DEF ReplayOf
<1> HIDE DEF k
<1>3. start \in Seq(Line) /\ m \in Nat /\ n \in Nat
  <2>1. start \in Seq(Line)
    BY <1>1
  <2> HIDE DEF start
  <2> QED
    BY <1>1, <2>1, LenProperties
<1>4. ASSUME NEW i \in 1..n PROVE k + i \in 1..Len(w) /\ w[k + i].entry \in Entry /\ LineIn(w[k + i], r) \in Line
  <2>1. k + i \in 1..Len(w) /\ k + i > k
    BY <1>1, <1>3
  <2>2. w[k + i].entry \in Entry
    BY <1>1, <2>1
  <2>3. r[w[k + i].entry] \in BOOLEAN /\ w[k + i].entry.id \in Id
    BY <2>2, EntriesAre DEF Receipts
  <2> QED
    BY <2>1, <2>2, <2>3 DEF LineIn, LineWith, Line
<1> HIDE DEF n, start
<1>5. u \in Seq(Line) /\ Len(u) = n /\ \A i \in 1..n : u[i] = LineIn(w[k + i], r)
  <2>1. u \in [1..n -> Line]
    BY <1>4
  <2>2. \A i \in 1..n : u[i] = LineIn(w[k + i], r)
    OBVIOUS
  <2> HIDE DEF u
  <2> QED
    BY <1>3, <2>1, <2>2, SameLength
<1> HIDE DEF u
<1>6. q \in Seq(Line) /\ Len(q) = m + n /\ \A i \in 1..(m + n) : q[i] = IF i <= m THEN start[i] ELSE u[i - m]
  BY <1>3, <1>5, ConcatProperties
<1> HIDE DEF q, m
<1>7. \A i \in 1..m : q[i] = start[i]
  <2> TAKE i \in 1..m
  <2>1. i \in 1..(m + n) /\ i <= m
    BY <1>3
  <2> QED
    BY <1>6, <2>1
<1>8. \A i \in 1..n : q[m + i] = LineIn(w[k + i], r)
  <2> TAKE i \in 1..n
  <2>1. m + i \in 1..(m + n) /\ ~(m + i <= m) /\ (m + i) - m = i
    BY <1>3
  <2> QED
    BY <1>5, <1>6, <2>1
<1> QED
  BY <1>2, <1>3, <1>4, <1>6, <1>7, <1>8 DEF k, start, n, m

(* One more append is one more line. *)
LEMMA ReplayAppends ==
  ASSUME NEW base \in Seq(Line), NEW w \in Seq(Op), NEW r \in Receipts, NEW p \in Receipts, NEW e \in Entry,
         \A i \in 1..Len(w) : w[i].kind = "append" => p[w[i].entry] = r[w[i].entry]
  PROVE  ReplayOf(base, Append(w, AppendOf(e)), p) = Append(ReplayOf(base, w, r), LineWith(e.id, p[e]))
<1> DEFINE v == Append(w, AppendOf(e))
           k == LastIn(w)
           start == IF k = 0 THEN base ELSE w[k].text
           n == Len(w) - k
           a == ReplayOf(base, w, r)
           b == ReplayOf(base, v, p)
           x == LineWith(e.id, p[e])
           m == Len(start)
<1>1. AppendOf(e) \in Op /\ AppendOf(e).kind = "append" /\ AppendOf(e).entry = e
  BY MakeOp
<1>2. v \in Seq(Op) /\ Len(v) = Len(w) + 1 /\ (\A i \in 1..Len(w) : v[i] = w[i]) /\ v[Len(w) + 1] = AppendOf(e)
  BY <1>1, AppendProperties
<1> HIDE DEF v
<1>3. /\ Len(w) \in Nat /\ k \in 0..Len(w) /\ k \in Nat
      /\ k > 0 => k \in 1..Len(w) /\ w[k].kind = "rewrite"
      /\ \A i \in 1..Len(w) : i > k => w[i].kind = "append"
  BY LastInIs
<1>4. LastIn(v) = k
  <2>1. k \in 0..Len(v)
    BY <1>2, <1>3
  <2>2. k > 0 => v[k].kind = "rewrite"
    BY <1>2, <1>3
  <2>3. ASSUME NEW i \in 1..Len(v), i > k PROVE v[i].kind = "append"
    <3>1. CASE i = Len(w) + 1
      BY <1>1, <1>2, <3>1
    <3>2. CASE i # Len(w) + 1
      <4>1. i \in 1..Len(w)
        BY <1>2, <1>3, <3>2
      <4> QED
        BY <1>2, <1>3, <2>3, <4>1
    <3> QED
      BY <3>1, <3>2
  <2> QED
    BY <1>2, <2>1, <2>2, <2>3, LastInIs
<1>5. (IF LastIn(v) = 0 THEN base ELSE v[LastIn(v)].text) = start
  <2>1. CASE k = 0
    BY <1>4, <2>1
  <2>2. CASE k # 0
    BY <1>2, <1>3, <1>4, <2>2
  <2> QED
    BY <2>1, <2>2
<1>6. /\ m \in Nat /\ n \in Nat /\ a \in Seq(Line) /\ Len(a) = m + n
      /\ \A i \in 1..m : a[i] = start[i]
      /\ \A i \in 1..n : a[m + i] = LineIn(w[k + i], r) /\ k + i \in 1..Len(w)
  BY ReplayOfIs
<1>7. /\ b \in Seq(Line) /\ Len(b) = m + (Len(v) - k)
      /\ \A i \in 1..m : b[i] = start[i]
      /\ \A i \in 1..(Len(v) - k) : b[m + i] = LineIn(v[k + i], p)
  <2> DEFINE kv == LastIn(v)
             sv == IF kv = 0 THEN base ELSE v[kv].text
  <2>1. /\ b \in Seq(Line) /\ Len(b) = Len(sv) + (Len(v) - kv)
        /\ \A i \in 1..Len(sv) : b[i] = sv[i]
        /\ \A i \in 1..(Len(v) - kv) : b[Len(sv) + i] = LineIn(v[kv + i], p)
    BY <1>2, ReplayOfIs
  <2>2. kv = k /\ sv = start
    BY <1>4, <1>5
  <2> HIDE DEF kv, sv, b, k, start
  <2> QED
    BY <2>1, <2>2
<1> HIDE DEF a, b, k, start
<1>8. x \in Line
  BY EntriesAre DEF Receipts, LineWith, Line
<1> HIDE DEF x
<1>9. Append(a, x) \in Seq(Line) /\ Len(Append(a, x)) = (m + n) + 1 /\ (\A i \in 1..(m + n) : Append(a, x)[i] = a[i])
      /\ Append(a, x)[(m + n) + 1] = x
  BY <1>6, <1>8, AppendProperties
<1>10. Len(b) = (m + n) + 1 /\ Len(v) - k = n + 1
  BY <1>2, <1>3, <1>6, <1>7
<1>11. b[(m + n) + 1] = x
  <2>1. n + 1 \in 1..(Len(v) - k) /\ m + (n + 1) = (m + n) + 1 /\ k + (n + 1) = Len(w) + 1
    BY <1>3, <1>6, <1>10
  <2>2. b[(m + n) + 1] = LineIn(v[Len(w) + 1], p)
    BY <1>7, <2>1
  <2> QED
    BY <1>1, <1>2, <2>2 DEF LineIn, x
<1>12. ASSUME NEW i \in 1..(m + n) PROVE b[i] = a[i]
  <2>1. CASE i <= m
    <3>1. i \in 1..m
      BY <1>6, <2>1
    <3> QED
      BY <1>6, <1>7, <3>1
  <2>2. CASE ~(i <= m)
    <3>1. i - m \in 1..n /\ m + (i - m) = i /\ i - m \in 1..(Len(v) - k)
      BY <1>6, <1>10, <2>2
    <3>2. a[i] = LineIn(w[k + (i - m)], r) /\ k + (i - m) \in 1..Len(w)
      BY <1>6, <3>1
    <3>3. b[i] = LineIn(v[k + (i - m)], p)
      BY <1>7, <3>1
    <3>4. w[k + (i - m)].kind = "append"
      <4>1. k + (i - m) > k
        BY <1>3, <3>1
      <4> QED
        BY <1>3, <3>2, <4>1
    <3> QED
      BY <1>2, <3>2, <3>3, <3>4 DEF LineIn
  <2> QED
    BY <2>1, <2>2
<1>13. \A i \in 1..((m + n) + 1) : b[i] = Append(a, x)[i]
  <2> TAKE i \in 1..((m + n) + 1)
  <2>1. i \in 1..(m + n) \/ i = (m + n) + 1
    BY <1>6
  <2> QED
    BY <1>9, <1>11, <1>12, <2>1
<1>14. b = Append(a, x)
  BY <1>7, <1>9, <1>10, <1>13, SeqEqual
<1> QED
  BY <1>14 DEF a, b, x, v

(* One more rewrite is all there is to be. *)
LEMMA ReplayRewrites ==
  ASSUME NEW base, NEW w \in Seq(Op), NEW r, NEW t \in Seq(Line)
  PROVE  ReplayOf(base, Append(w, Rewrite(t)), r) = t
<1> DEFINE v == Append(w, Rewrite(t))
           n == Len(w) + 1
<1>1. Rewrite(t) \in Op /\ Rewrite(t).kind = "rewrite" /\ Rewrite(t).text = t
  BY MakeOp
<1>2. v \in Seq(Op) /\ Len(v) = n /\ v[n] = Rewrite(t) /\ Len(w) \in Nat
  BY <1>1, AppendProperties, LenProperties
<1> HIDE DEF v
<1>3. n \in 0..Len(v) /\ n > 0 /\ ~(n = 0) /\ \A i \in 1..Len(v) : ~(i > n)
  BY <1>2
<1>4. LastIn(v) = n
  BY <1>1, <1>2, <1>3, LastInIs
<1> DEFINE u == [i \in 1..(Len(v) - LastIn(v)) |-> LineIn(v[LastIn(v) + i], r)]
<1>5. u = <<>>
  <2>1. Len(v) - LastIn(v) = 0
    BY <1>2, <1>4
  <2>2. 1..(Len(v) - LastIn(v)) = {}
    BY <2>1
  <2> QED
    BY <2>2
<1>6. ReplayOf(base, v, r) = t \o u
  BY <1>1, <1>2, <1>3, <1>4 DEF ReplayOf
<1> QED
  BY <1>5, <1>6, ConcatEmptySeq DEF v

(* With nothing to do the lines stay. *)
LEMMA ReplayOfNone ==
  ASSUME NEW base \in Seq(Line), NEW r
  PROVE  ReplayOf(base, <<>>, r) = base
<1> DEFINE v == <<>>
<1>1. v \in Seq(Op) /\ Len(v) = 0
  BY EmptySeq
<1>2. LastIn(v) = 0
  <2>1. LastIn(v) \in 0..Len(v)
    BY <1>1, LastInIs
  <2> QED
    BY <1>1, <2>1
<1> HIDE DEF v
<1> DEFINE u == [i \in 1..(Len(v) - LastIn(v)) |-> LineIn(v[LastIn(v) + i], r)]
<1>3. u = <<>>
  <2>1. 1..(Len(v) - LastIn(v)) = {}
    BY <1>1, <1>2
  <2> QED
    BY <2>1
<1>4. ReplayOf(base, v, r) = base \o u
  BY <1>2 DEF ReplayOf
<1> QED
  BY <1>3, <1>4, ConcatEmptySeq DEF v

(* To begin with the first write makes no difference in the end. *)
LEMMA ReplayBegins ==
  ASSUME NEW base \in Seq(Line), NEW w \in Seq(Op), NEW r \in Receipts, w # <<>>
  PROVE  /\ w[1].kind = "append" /\ LastIn(w) = 0 =>
              ReplayOf(base, w, r) = ReplayOf(Append(base, LineIn(w[1], r)), Tail(w), r)
         /\ w[1].kind = "append" /\ LastIn(w) > 0 =>
              \A other \in Seq(Line) : ReplayOf(base, w, r) = ReplayOf(other, Tail(w), r)
         /\ w[1].kind = "rewrite" => ReplayOf(base, w, r) = ReplayOf(w[1].text, Tail(w), r)
         /\ LastIn(Tail(w)) > 0 => LastIn(w) > 0
         /\ LastIn(w) > 0 => LastIn(Tail(w)) > 0 \/ w[1].kind = "rewrite"
<1> DEFINE v == Tail(w)
           k == LastIn(w)
           a == ReplayOf(base, w, r)
           l == Len(v)
<1>1. v \in Seq(Op) /\ Len(w) = l + 1 /\ l \in Nat /\ (\A i \in 1..l : v[i] = w[i + 1]) /\ w[1] \in Op
  <2>1. v \in Seq(Op) /\ Len(v) = Len(w) - 1 /\ \A i \in 1..Len(v) : v[i] = w[i + 1]
    BY HeadTailProperties
  <2>2. Len(v) \in Nat /\ Len(w) \in Nat
    BY <2>1, LenProperties
  <2> HIDE DEF v
  <2>3. 1 \in 1..Len(w)
    BY <2>1, <2>2
  <2> QED
    BY <2>1, <2>2, <2>3, ElementOfSeq
<1> HIDE DEF v, l
<1>2. /\ k \in 0..Len(w) /\ k \in Nat
      /\ k > 0 => k \in 1..Len(w) /\ w[k].kind = "rewrite" /\ w[k].text \in Seq(Line)
      /\ \A i \in 1..Len(w) : i > k => w[i].kind = "append" /\ w[i].entry \in Entry
  BY LastInIs
<1>3. /\ LastIn(v) \in 0..l /\ LastIn(v) \in Nat
      /\ LastIn(v) > 0 => LastIn(v) \in 1..l /\ v[LastIn(v)].kind = "rewrite"
      /\ \A j \in 0..l :
           /\ j > 0 => v[j].kind = "rewrite"
           /\ \A i \in 1..l : i > j => v[i].kind = "append"
           => LastIn(v) = j
  BY <1>1, LastInIs DEF l
<1>4. k > 1 => LastIn(v) = k - 1
  <2> SUFFICES ASSUME k > 1 PROVE LastIn(v) = k - 1
    OBVIOUS
  <2>1. k - 1 \in 0..l /\ k - 1 \in 1..l /\ (k - 1) + 1 = k
    BY <1>1, <1>2
  <2>2. v[k - 1].kind = "rewrite"
    BY <1>1, <1>2, <2>1
  <2>3. ASSUME NEW i \in 1..l, i > k - 1 PROVE v[i].kind = "append"
    <3>1. i + 1 \in 1..Len(w) /\ i + 1 > k
      BY <1>1, <1>2, <2>3
    <3> QED
      BY <1>1, <1>2, <3>1
  <2> QED
    BY <1>3, <2>1, <2>2, <2>3
<1>5. k <= 1 => LastIn(v) = 0
  <2> SUFFICES ASSUME k <= 1 PROVE LastIn(v) = 0
    OBVIOUS
  <2>1. ASSUME NEW i \in 1..l PROVE v[i].kind = "append"
    <3>1. i + 1 \in 1..Len(w) /\ i + 1 > k
      BY <1>1, <1>2
    <3> QED
      BY <1>1, <1>2, <3>1
  <2>2. 0 \in 0..l /\ ~(0 > 0)
    BY <1>1
  <2> QED
    BY <1>3, <2>1, <2>2
<1>6. k = 1 => w[1].kind = "rewrite"
  BY <1>2
<1>7. k = 0 => w[1].kind = "append"
  BY <1>1, <1>2
<1> DEFINE start == IF k = 0 THEN base ELSE w[k].text
           m == Len(start)
<1>8. /\ start \in Seq(Line) /\ m \in Nat
      /\ a \in Seq(Line) /\ Len(a) = m + (Len(w) - k)
      /\ \A i \in 1..m : a[i] = start[i]
      /\ \A i \in 1..(Len(w) - k) : a[m + i] = LineIn(w[k + i], r) /\ LineIn(w[k + i], r) \in Line
  BY ReplayOfIs
<1> HIDE DEF a
<1>9. ASSUME k > 0, NEW other \in Seq(Line), k = 1 => other = w[1].text
      PROVE  a = ReplayOf(other, v, r)
  <2> DEFINE b == ReplayOf(other, v, r)
             kv == LastIn(v)
             sv == IF kv = 0 THEN other ELSE v[kv].text
  <2>1. /\ b \in Seq(Line) /\ Len(b) = Len(sv) + (Len(v) - kv)
        /\ \A i \in 1..Len(sv) : b[i] = sv[i]
        /\ \A i \in 1..(Len(v) - kv) : b[Len(sv) + i] = LineIn(v[kv + i], r)
    BY <1>1, ReplayOfIs
  <2>2. kv = k - 1
    BY <1>2, <1>4, <1>5, <1>9
  <2>3. sv = start
    <3>1. CASE k = 1
      <4>1. kv = 0 /\ k # 0
        BY <2>2, <3>1
      <4> HIDE DEF kv, k
      <4> QED
        BY <1>9, <3>1, <4>1
    <3>2. CASE k # 1
      <4>1. kv \in 1..l /\ kv + 1 = k /\ kv # 0 /\ k # 0
        BY <1>1, <1>2, <1>9, <2>2, <3>2
      <4>2. v[kv] = w[k]
        BY <1>1, <4>1
      <4> QED
        BY <4>1, <4>2
    <3> QED
      BY <3>1, <3>2
  <2> HIDE DEF b, kv, sv, start, k
  <2>4. Len(v) - kv = Len(w) - k
    BY <1>1, <1>2, <2>2 DEF l
  <2>5. Len(a) = Len(b)
    BY <1>8, <2>1, <2>3, <2>4
  <2>6. ASSUME NEW i \in 1..Len(a) PROVE a[i] = b[i]
    <3>1. CASE i <= m
      <4>1. i \in 1..m
        BY <1>8, <3>1
      <4> QED
        BY <1>8, <2>1, <2>3, <4>1
    <3>2. CASE ~(i <= m)
      <4> DEFINE j == i - m
      <4>1. j \in 1..(Len(w) - k) /\ m + j = i /\ kv + j \in 1..l /\ (kv + j) + 1 = k + j
        <5>1. Len(w) = l + 1 /\ l \in Nat /\ k \in Nat /\ k > 0 /\ k <= Len(w) /\ kv = k - 1
          BY <1>1, <1>2, <1>9, <2>2
        <5>2. m \in Nat /\ Len(a) = m + (Len(w) - k) /\ i \in 1..Len(a) /\ ~(i <= m)
          BY <1>8, <3>2
        <5> QED
          BY <5>1, <5>2
      <4> HIDE DEF j
      <4>2. a[i] = LineIn(w[k + j], r) /\ b[i] = LineIn(v[kv + j], r)
        BY <1>8, <2>1, <2>3, <2>4, <4>1
      <4>3. v[kv + j] = w[k + j]
        BY <1>1, <4>1
      <4> QED
        BY <4>2, <4>3
    <3> QED
      BY <3>1, <3>2
  <2>7. a = b
    BY <1>8, <2>1, <2>5, <2>6, SeqEqual
  <2> QED
    BY <2>7 DEF b
<1>10. ASSUME k = 0
       PROVE  a = ReplayOf(Append(base, LineIn(w[1], r)), v, r)
  <2> DEFINE x == LineIn(w[1], r)
             other == Append(base, x)
             b == ReplayOf(other, v, r)
             kv == LastIn(v)
             sv == IF kv = 0 THEN other ELSE v[kv].text
  <2>1. x \in Line
    <3>1. 1 \in 1..(Len(w) - k) /\ k + 1 = 1
      BY <1>1, <1>10
    <3> QED
      BY <1>8, <3>1
  <2> HIDE DEF x
  <2>2. other \in Seq(Line) /\ Len(other) = Len(base) + 1 /\ (\A i \in 1..Len(base) : other[i] = base[i])
        /\ other[Len(base) + 1] = x /\ Len(base) \in Nat
    BY <2>1, AppendProperties, LenProperties
  <2> HIDE DEF other
  <2>3. /\ b \in Seq(Line) /\ Len(b) = Len(sv) + (Len(v) - kv)
        /\ \A i \in 1..Len(sv) : b[i] = sv[i]
        /\ \A i \in 1..(Len(v) - kv) : b[Len(sv) + i] = LineIn(v[kv + i], r)
    BY <1>1, <2>2, ReplayOfIs
  <2>4. kv = 0 /\ sv = other
    BY <1>5, <1>10
  <2>5. start = base
    BY <1>10
  <2> HIDE DEF b, kv, sv, start, k
  <2>6. Len(a) = Len(b) /\ Len(a) = Len(base) + (l + 1)
    BY <1>1, <1>8, <1>10, <2>2, <2>3, <2>4, <2>5 DEF l
  <2>7. ASSUME NEW i \in 1..Len(a) PROVE a[i] = b[i]
    <3>1. CASE i <= Len(base)
      <4>1. i \in 1..Len(base) /\ i \in 1..Len(other)
        BY <2>2, <3>1
      <4> QED
        BY <1>8, <2>2, <2>3, <2>4, <2>5, <4>1
    <3>2. CASE i = Len(base) + 1
      <4>1. 1 \in 1..(Len(w) - k) /\ k + 1 = 1 /\ i \in 1..Len(other)
        BY <1>1, <1>10, <2>2, <3>2
      <4>2. a[i] = LineIn(w[1], r)
        BY <1>8, <2>5, <3>2, <4>1
      <4>3. b[i] = x
        BY <2>2, <2>3, <2>4, <3>2, <4>1
      <4> QED
        BY <4>2, <4>3 DEF x
    <3>3. CASE i > Len(base) + 1
      <4> DEFINE j == i - (Len(base) + 1)
      <4>1. /\ j \in 1..l /\ j \in 1..(Len(v) - kv) /\ Len(other) + j = i /\ kv + j = j
            /\ j + 1 \in 1..(Len(w) - k) /\ Len(base) + (j + 1) = i /\ k + (j + 1) = j + 1
        BY <1>1, <1>10, <2>2, <2>4, <2>6, <3>3 DEF l
      <4> HIDE DEF j
      <4>2. a[i] = LineIn(w[j + 1], r)
        BY <1>8, <2>5, <4>1
      <4>3. b[i] = LineIn(v[j], r)
        BY <2>3, <2>4, <4>1
      <4> QED
        BY <1>1, <4>1, <4>2, <4>3
    <3> QED
      BY <2>2, <2>6, <3>1, <3>2, <3>3
  <2>8. a = b
    BY <1>8, <2>3, <2>6, <2>7, SeqEqual
  <2> QED
    BY <2>8 DEF b, other, x
<1>11. w[1].kind = "rewrite" => w[1].text \in Seq(Line) /\ k > 0
  BY <1>1, <1>2, <1>7, OpKinds
<1>12. ASSUME w[1].kind = "append", k > 0, NEW other \in Seq(Line) PROVE a = ReplayOf(other, v, r)
  <2>1. k # 1
    BY <1>6, <1>12
  <2> QED
    BY <1>9, <1>12, <2>1
<1>13. LastIn(v) > 0 => k > 0
  BY <1>2, <1>3, <1>5
<1>14. k > 0 => LastIn(v) > 0 \/ w[1].kind = "rewrite"
  BY <1>2, <1>4, <1>6
<1> HIDE DEF k
<1> QED
  BY <1>9, <1>10, <1>11, <1>12, <1>13, <1>14 DEF a, v, k

(* What the property says when something is owed. *)
Owed == ~closed /\ ((~behind /\ ~file.torn) \/ RewriteComes)

(* A rewrite comes if one is under way or waits. *)
LEMMA RewriteComesIs ==
  ASSUME writing \in Seq(Op)
  PROVE  RewriteComes <=> flying.phase \in {"rewrite", "truncated"} \/ LastIn(writing) > 0
<1>1. DOMAIN writing = 1..Len(writing)
  BY LastInIs
<1>2. LastIn(writing) > 0 => \E i \in DOMAIN writing : writing[i].kind = "rewrite"
  BY <1>1, LastInIs
<1>3. ASSUME NEW i \in DOMAIN writing, writing[i].kind = "rewrite" PROVE LastIn(writing) > 0
  <2>1. LastIn(writing) \in Nat /\ i \in 1..Len(writing) /\ Len(writing) \in Nat
    BY <1>1, LastInIs
  <2>2. ~(i > LastIn(writing))
    BY <1>3, <2>1, LastInIs
  <2> QED
    BY <2>1, <2>2
<1> QED
  BY <1>2, <1>3 DEF RewriteComes

(* The lines that what is under way leaves. *)
LEMMA FlownIs ==
  ASSUME ChatTypes
  PROVE  /\ Flown.lines \in Seq(Line) /\ isRead \in Receipts /\ writing \in Seq(Op)
         /\ flying.phase = "append" => Flown = WithLine(file, flying.text[1]) /\ flying.text[1] \in Line
         /\ flying.phase \in {"rewrite", "truncated"} => Flown.lines = flying.text
         /\ flying.phase = "none" => Flown.lines = file.lines
<1>1. /\ writing \in Seq(Op) /\ file \in FileOfLines /\ flying.text \in Seq(Line) /\ flying.phase \in Phase
      /\ flying.phase = "append" => Len(flying.text) = 1
      /\ isRead \in Receipts
  BY DEF ChatTypes, STypeOK, Receipts
<1>2. flying.phase = "append" => flying.text[1] \in Line
  <2> SUFFICES ASSUME flying.phase = "append" PROVE flying.text[1] \in Line
    OBVIOUS
  <2>1. Len(flying.text) = 1 /\ flying.text \in Seq(Line)
    BY <1>1
  <2>2. 1 \in 1..Len(flying.text)
    BY <2>1
  <2> QED
    BY <2>1, <2>2, ElementOfSeq
<1>3. CASE flying.phase = "append"
  <2>1. Flown = WithLine(file, flying.text[1])
    BY <1>3 DEF Flown
  <2>2. Flown \in FileOfLines
    BY <1>1, <1>2, <1>3, <2>1, WithLineIs
  <2> QED
    BY <1>1, <1>2, <1>3, <2>1, <2>2 DEF FileOfLines
<1>4. CASE flying.phase \in {"rewrite", "truncated"}
  <2>1. Flown.lines = flying.text
    BY <1>4 DEF Flown, Text
  <2> QED
    BY <1>1, <1>4, <2>1
<1>5. CASE flying.phase = "none"
  <2>1. Flown.lines = file.lines
    BY <1>5 DEF Flown
  <2> QED
    BY <1>1, <1>5, <2>1 DEF FileOfLines
<1> QED
  BY <1>1, <1>3, <1>4, <1>5 DEF Phase

(* Nothing has been written yet, and nothing is to be seen. *)
LEMMA ReplayStarts == SInit => ReplayGivesWindow
<1> SUFFICES ASSUME SInit PROVE Newest(Replay) = Serialize
  BY DEF ReplayGivesWindow
<1>1. flying.phase = "none" /\ file.lines = <<>> /\ writing = <<>> /\ count = 0
  BY DEF SInit, None, Text
<1>2. Flown.lines = <<>>
  BY <1>1 DEF Flown
<1>3. <<>> \in Seq(Line) /\ Len(<<>>) = 0
  BY EmptySeq
<1>4. Replay = <<>>
  BY <1>1, <1>2, <1>3, ReplayIsOf, ReplayOfNone
<1>5. Newest(Replay) = <<>>
  BY <1>3, <1>4, EntriesAre DEF Newest
<1>6. Serialize = <<>>
  <2>1. \A n : n = 0 => 1..n = {}
    OBVIOUS
  <2>2. 1..count = {}
    BY <1>1, <2>1
  <2> QED
    BY <2>2 DEF Serialize
<1> QED
  BY <1>5, <1>6

(* The newest of lines, counted from the end. *)
LEMMA NewestFromEnd ==
  ASSUME NEW s \in Seq(Line)
  PROVE  /\ Newest(s) \in Seq(Line) /\ Len(s) \in Nat
         /\ Len(Newest(s)) = (IF Len(s) > Capacity THEN Capacity ELSE Len(s)) /\ Len(Newest(s)) \in Nat
         /\ \A j \in 0..(Len(Newest(s)) - 1) :
              /\ Len(Newest(s)) - j \in 1..Len(Newest(s)) /\ Len(s) - j \in 1..Len(s)
              /\ Newest(s)[Len(Newest(s)) - j] = s[Len(s) - j]
<1>1. Newest(s) = Newer(s, Capacity)
  BY NewestIs
<1>2. Capacity \in Nat
  BY EntriesAre
<1> DEFINE t == Newer(s, Capacity)
<1>3. /\ t \in Seq(Line) /\ Len(s) \in Nat
      /\ Len(t) = (IF Len(s) > Capacity THEN Capacity ELSE Len(s)) /\ Len(t) \in Nat
      /\ \A j \in 0..(Len(t) - 1) :
           Len(t) - j \in 1..Len(t) /\ Len(s) - j \in 1..Len(s) /\ t[Len(t) - j] = s[Len(s) - j]
  BY <1>2, NewerFromEnd
<1>4. Newest(s) = t
  BY <1>1
<1> HIDE DEF t
<1> QED
  BY <1>3, <1>4

(* A message comes: the window goes on by it, and so does what is written. *)
LEMMA NewEntryReplays ==
  ASSUME ChatInv, ChatInv', ReplayGivesWindow, NewEntry
  PROVE  ReplayGivesWindow'
<1> DEFINE e == msgSeq + 1
           o == Born(e)
           x == LineWith(e, isRead'[o])
           s == Replay
<1>0. ChatTypes /\ BufferGood /\ StatusGood /\ TextsGood
  BY DEF ChatInv
<1>1. /\ ~closed /\ msgSeq < MaxEntries /\ msgSeq' = e /\ Push(o)
      /\ isRead' = [isRead EXCEPT ![o] = FALSE]
      /\ writing' = Append(writing, AppendOf(o))
      /\ flying' = flying /\ closed' = closed /\ file' = file /\ behind' = behind
  BY DEF NewEntry
<1>2. msgSeq \in Nat /\ e \in Nat /\ o \in Entry /\ o.id = e
  <2>1. msgSeq \in Nat /\ e \in Nat /\ e \in Id
    BY <1>0, <1>1, EntriesAre DEF ChatTypes, STypeOK, Id
  <2> QED
    BY <2>1, EntriesAre
<1> HIDE DEF e, o
<1>3. writing \in Seq(Op) /\ isRead \in Receipts /\ isRead' \in Receipts /\ Flown.lines \in Seq(Line) /\ writing' \in Seq(Op)
      /\ \A i \in Entry : i # o => isRead'[i] = isRead[i]
  <2>1. writing \in Seq(Op) /\ isRead \in Receipts /\ Flown.lines \in Seq(Line)
    BY <1>0, FlownIs
  <2>2. isRead' \in Receipts /\ \A i \in Entry : i # o => isRead'[i] = isRead[i]
    BY <1>1, <2>1 DEF Receipts
  <2>3. writing' \in Seq(Op)
    BY DEF ChatInv, ChatTypes
  <2> QED
    BY <2>1, <2>2, <2>3
<1>4. Owed' => Owed
  <2>1. LastIn(writing') > 0 => LastIn(writing) > 0
    <3> SUFFICES ASSUME LastIn(writing') > 0 PROVE LastIn(writing) > 0
      OBVIOUS
    <3>1. AppendOf(o) \in Op /\ AppendOf(o).kind = "append"
      BY <1>2, MakeOp
    <3>2. Len(writing') = Len(writing) + 1 /\ (\A i \in 1..Len(writing) : writing'[i] = writing[i])
          /\ writing'[Len(writing) + 1] = AppendOf(o) /\ Len(writing) \in Nat
      BY <1>1, <1>3, <3>1, AppendProperties, LenProperties
    <3>3. LastIn(writing') \in 1..Len(writing') /\ writing'[LastIn(writing')].kind = "rewrite"
      BY <1>3, LastInIs
    <3>4. LastIn(writing') \in 1..Len(writing) /\ writing[LastIn(writing')].kind = "rewrite"
      <4>1. LastIn(writing') # Len(writing) + 1
        BY <3>1, <3>2, <3>3
      <4>2. LastIn(writing') \in 1..Len(writing)
        BY <3>2, <3>3, <4>1
      <4> QED
        BY <3>2, <3>3, <4>2
    <3>5. LastIn(writing) \in Nat /\ ~(LastIn(writing') > LastIn(writing))
      BY <1>3, <3>4, LastInIs
    <3> QED
      BY <3>2, <3>4, <3>5
  <2>2. RewriteComes' => RewriteComes
    <3>1. RewriteComes' => flying'.phase \in {"rewrite", "truncated"} \/ \E i \in DOMAIN writing' : writing'[i].kind = "rewrite"
      BY DEF RewriteComes
    <3>2. (\E i \in DOMAIN writing' : writing'[i].kind = "rewrite") => LastIn(writing') > 0
      <4> SUFFICES ASSUME NEW i \in DOMAIN writing', writing'[i].kind = "rewrite" PROVE LastIn(writing') > 0
        OBVIOUS
      <4>1. LastIn(writing') \in Nat /\ i \in 1..Len(writing') /\ Len(writing') \in Nat
        BY <1>3, LastInIs
      <4>2. ~(i > LastIn(writing'))
        BY <1>3, <4>1, LastInIs
      <4> QED
        BY <4>1, <4>2
    <3> QED
      BY <1>1, <1>3, <2>1, <3>1, <3>2, RewriteComesIs
  <2> QED
    BY <1>1, <2>2 DEF Owed
<1> SUFFICES ASSUME Owed' PROVE (Newest(Replay) = Serialize)'
  BY DEF ReplayGivesWindow, Owed
<1>5. Newest(s) = Serialize
  BY <1>4 DEF ReplayGivesWindow, Owed
<1>6. s \in Seq(Line)
  BY <1>3, ReplayIsOf, ReplayOfIs
<1>7. Replay' = Append(s, x)
  <2>1. \A i \in 1..Len(writing) : writing[i].kind = "append" => isRead'[writing[i].entry] = isRead[writing[i].entry]
    <3> TAKE i \in 1..Len(writing)
    <3> HAVE writing[i].kind = "append"
    <3>1. writing[i].entry \in Entry /\ writing[i].entry.id \in Nat /\ writing[i].entry.id <= msgSeq
      <4>1. writing[i] \in Op
        BY <1>3, ElementOfSeq
      <4> QED
        BY <1>0, <4>1, OpKinds DEF TextsGood
    <3>2. writing[i].entry.id # e
      BY <1>2, <3>1 DEF e
    <3>3. writing[i].entry # o
      BY <1>2, <3>2
    <3> QED
      BY <1>3, <3>1, <3>3
  <2>2. ReplayOf(Flown.lines, Append(writing, AppendOf(o)), isRead') = Append(ReplayOf(Flown.lines, writing, isRead), LineWith(o.id, isRead'[o]))
    BY <1>2, <1>3, <2>1, ReplayAppends
  <2>3. Flown' = Flown
    BY <1>1 DEF Flown
  <2>4. Replay' = ReplayOf(Flown'.lines, writing', isRead')
    BY DEF Replay, ReplayOf, LastRewrite, LastIn, LineOf, LineIn
  <2> QED
    BY <1>1, <1>2, <2>2, <2>3, <2>4, ReplayIsOf
<1> HIDE DEF s
<1>8. x \in Line
  <2>1. isRead'[o] \in BOOLEAN /\ e \in Id
    BY <1>2, <1>3, EntriesAre DEF Receipts
  <2> QED
    BY <2>1 DEF LineWith, Line
<1>9. Append(s, x) \in Seq(Line) /\ Len(Append(s, x)) = Len(s) + 1 /\ (\A i \in 1..Len(s) : Append(s, x)[i] = s[i])
      /\ Append(s, x)[Len(s) + 1] = x /\ Len(s) \in Nat
  BY <1>6, <1>8, AppendProperties, LenProperties
<1> DEFINE v == Append(s, x)
           t == Newest(v)
           z == Serialize'
           lt == Len(t)
           c == count'
<1>10. /\ t \in Seq(Line) /\ Len(t) = (IF Len(v) > Capacity THEN Capacity ELSE Len(v)) /\ Len(t) \in Nat
       /\ \A j \in 0..(lt - 1) : t[lt - j] = v[Len(v) - j]
  BY <1>9, NewestFromEnd
<1>11. /\ Serialize \in Seq(Line) /\ Len(Serialize) = count
       /\ \A i \in 1..count : Serialize[i] = LineWith(buf[head + i].id, isRead[buf[head + i]])
       /\ count \in Nat /\ head \in Nat /\ Len(buf) = head + count /\ count <= Capacity
  BY <1>0, SerializeIs, EntriesAre DEF GoodText, ChatTypes, STypeOK
<1>12. /\ Len(Serialize) = (IF Len(s) > Capacity THEN Capacity ELSE Len(s))
       /\ \A j \in 0..(count - 1) : Serialize[count - j] = s[Len(s) - j]
  BY <1>5, <1>6, <1>11, NewestFromEnd
<1>13. c = (IF count < Capacity THEN count + 1 ELSE count)
  BY <1>1 DEF Push
<1>14. lt = c
  <2>1. \A m, n, k \in Nat : n = (IF m > k THEN k ELSE m) =>
          (IF m + 1 > k THEN k ELSE m + 1) = (IF n < k THEN n + 1 ELSE n)
    OBVIOUS
  <2>2. Len(s) \in Nat /\ count \in Nat /\ Capacity \in Nat /\ count = (IF Len(s) > Capacity THEN Capacity ELSE Len(s))
    BY <1>9, <1>11, <1>12, EntriesAre
  <2>3. (IF Len(s) + 1 > Capacity THEN Capacity ELSE Len(s) + 1) = (IF count < Capacity THEN count + 1 ELSE count)
    BY <2>1, <2>2
  <2>4. lt = (IF Len(s) + 1 > Capacity THEN Capacity ELSE Len(s) + 1)
    BY <1>9, <1>10
  <2> QED
    BY <1>13, <2>3, <2>4
<1>15. /\ buf' \in Seq(Entry) /\ head' \in Nat /\ c \in Nat /\ Len(buf') = head' + c /\ buf'[Len(buf')] = o
       /\ \E d \in Nat : /\ Len(buf') = (Len(buf) + 1) - d
                         /\ \A i \in 1..(Len(buf') - 1) : buf'[i] = buf[i + d] /\ i + d \in 1..Len(buf)
  <2>1. /\ buf' \in Seq(Entry) /\ head' \in 0..Capacity /\ count' \in 1..Capacity /\ head' + count' = Len(buf')
        /\ buf'[Len(buf')] = o
        /\ \E d \in Nat : /\ Len(buf') = (Len(buf) + 1) - d /\ head' + d >= head
                          /\ \A i \in 1..(Len(buf') - 1) : buf'[i] = buf[i + d] /\ i + d \in 1..Len(buf)
    BY <1>0, <1>1, <1>2, PushIs
  <2>2. head' \in Nat /\ count' \in Nat
    BY <2>1, EntriesAre
  <2> QED
    BY <2>1, <2>2
<1>16. PICK d \in Nat : /\ Len(buf') = (Len(buf) + 1) - d
                       /\ \A i \in 1..(Len(buf') - 1) : buf'[i] = buf[i + d] /\ i + d \in 1..Len(buf)
  BY <1>15
<1>17. z = [i \in 1..c |-> LineWith(buf'[head' + i].id, isRead'[buf'[head' + i]])]
  <2>1. \A i \in 1..c : Window'[i] = buf'[head' + i]
    <3>1. /\ (head' + c) - (head' + 1) + 1 = c
          /\ \A i \in 1..c : (head' + 1) + i - 1 = head' + i
          /\ \A i \in (head' + 1)..(head' + c) : i \in 1..Len(buf')
          /\ head' + 1 \in Int /\ head' + c \in Int
      <4>1. \A h, k, n \in Nat : n = h + k =>
              /\ (h + k) - (h + 1) + 1 = k
              /\ \A i \in 1..k : (h + 1) + i - 1 = h + i
              /\ \A i \in (h + 1)..(h + k) : i \in 1..n
              /\ h + 1 \in Int /\ h + k \in Int
        OBVIOUS
      <4>2. head' \in Nat /\ c \in Nat /\ Len(buf') = head' + c /\ Len(buf') \in Nat
        BY <1>15
      <4> HIDE DEF c
      <4> QED
        BY <4>1, <4>2
    <3>2. \A i \in (head' + 1)..(head' + c) : buf'[i] \in Entry
      BY <1>15, <3>1, ElementOfSeq
    <3>3. \A i \in 1..((head' + c) - (head' + 1) + 1) : SubSeq(buf', head' + 1, head' + c)[i] = buf'[(head' + 1) + i - 1]
      BY <3>1, <3>2, SubSeqProperties
    <3> QED
      BY <3>1, <3>3 DEF Window
  <2> QED
    BY <2>1 DEF Serialize, LineOf
<1> HIDE DEF t, z, c, lt
<1>18. ASSUME NEW i \in 1..c PROVE t[i] = LineWith(buf'[head' + i].id, isRead'[buf'[head' + i]])
  <2> DEFINE j == c - i
  <2>1. j \in 0..(lt - 1) /\ lt - j = i /\ j \in Nat /\ j < c /\ head' + i = Len(buf') - j
    <3>1. lt = c /\ c \in Nat /\ head' \in Nat /\ Len(buf') = head' + c
      BY <1>14, <1>15
    <3> QED
      BY <3>1
  <2> HIDE DEF j
  <2>2. t[i] = v[Len(v) - j]
    BY <1>10, <2>1 DEF lt
  <2>3. CASE j = 0
    <3>1. Len(v) - j = Len(s) + 1 /\ head' + i = Len(buf')
      BY <1>9, <1>15, <2>1, <2>3
    <3> QED
      BY <1>2, <1>9, <1>15, <2>2, <3>1
  <2>4. CASE j # 0
    <3>1. j - 1 \in 0..(count - 1) /\ j \in Nat /\ j > 0
      BY <1>11, <1>13, <2>1, <2>4
    <3>2. /\ Len(s) - (j - 1) \in 1..Len(s) /\ Len(v) - j = Len(s) - (j - 1)
          /\ count - (j - 1) \in 1..count /\ head + (count - (j - 1)) = Len(buf) - (j - 1)
          /\ Len(buf) - (j - 1) \in 1..Len(buf)
      BY <1>9, <1>11, <1>12, <3>1, EntriesAre
    <3>3. v[Len(v) - j] = s[Len(s) - (j - 1)]
      BY <1>9, <3>2
    <3>4. s[Len(s) - (j - 1)] = Serialize[count - (j - 1)]
      BY <1>12, <3>1
    <3>5. Serialize[count - (j - 1)] = LineWith(buf[Len(buf) - (j - 1)].id, isRead[buf[Len(buf) - (j - 1)]])
      BY <1>11, <3>2
    <3>6. buf'[head' + i] = buf[Len(buf) - (j - 1)]
      <4>1. head' + i \in 1..(Len(buf') - 1) /\ (head' + i) + d = Len(buf) - (j - 1)
        <5>1. /\ head' \in Nat /\ Len(buf') = (Len(buf) + 1) - d /\ head' + i = Len(buf') - j /\ i \in 1..c /\ c \in Nat
          BY <1>15, <1>16, <2>1
        <5>2. Len(buf) \in Nat
          BY <1>11
        <5>4. i \in Nat /\ i >= 1 /\ j \in Nat /\ j >= 1 /\ d \in Nat
          BY <3>1, <5>1
        <5>5. Len(buf') \in Nat
          BY <1>15
        <5> DEFINE p == Len(buf')
                   n == Len(buf)
                   h == head'
        <5>6. p \in Nat /\ n \in Nat /\ h \in Nat /\ p = (n + 1) - d /\ h + i = p - j
          BY <5>1, <5>2, <5>5
        <5> HIDE DEF p, n, h
        <5>7. h + i \in 1..(p - 1)
          BY <5>4, <5>6
        <5>8. (h + i) + d = n - (j - 1)
          BY <5>4, <5>6
        <5> QED
          BY <5>7, <5>8 DEF p, n, h
      <4> QED
        BY <1>16, <4>1
    <3>7. isRead'[buf[Len(buf) - (j - 1)]] = isRead[buf[Len(buf) - (j - 1)]]
      <4> DEFINE y == buf[Len(buf) - (j - 1)]
      <4>1. y \in Entry /\ y.id <= msgSeq
        BY <1>0, <3>2, ElementOfSeq DEF BufferGood, UpTo, ChatTypes, STypeOK
      <4> HIDE DEF y
      <4>2. y.id # e
        <5>1. y.id \in Nat
          BY <4>1, EntriesAre
        <5> QED
          BY <1>2, <4>1, <5>1 DEF e
      <4>2a. y # o
        BY <1>2, <4>2
      <4>3. isRead'[y] = isRead[y]
        BY <1>3, <4>1, <4>2a
      <4> QED
        BY <4>3 DEF y
    <3> QED
      BY <2>2, <3>3, <3>4, <3>5, <3>6, <3>7
  <2> QED
    BY <2>3, <2>4
<1>19. t = z
  <2>1. DOMAIN t = 1..c /\ t = [i \in 1..c |-> t[i]]
    BY <1>10, <1>14, LenProperties DEF lt
  <2> QED
    BY <1>17, <1>18, <2>1
<1>20. (Newest(Replay))' = Newest(Replay')
  BY DEF Newest
<1> QED
  BY <1>7, <1>19, <1>20 DEF t, z

(* Receipts are returned: the rewrite that waits then is the window. *)
LEMMA MarkReadManyReplays ==
  ASSUME ChatInv, ChatInv', NEW ids \in SUBSET Id, MarkReadMany(ids)
  PROVE  ReplayGivesWindow'
<1> DEFINE reads == Flipped(ids)
           t == WindowWith(reads)
           z == Serialize'
<1>0. ChatTypes /\ BufferGood /\ StatusGood
  BY DEF ChatInv
<1>1. /\ isRead' = [o \in Entry |-> isRead[o] \/ o \in reads]
      /\ writing' = Append(writing, Rewrite(t))
      /\ buf' = buf /\ head' = head /\ count' = count
  BY DEF MarkReadMany, ring
<1>1a. reads \in SUBSET Entry
  BY <1>0, FlippedIs
<1> HIDE DEF reads
<1>2. t \in Seq(Line) /\ Len(t) = count
  BY <1>0, <1>1a, WindowWithIs DEF GoodText
<1>3. /\ Window' = Window /\ \A i \in 1..count : Window[i] \in Entry
  BY <1>0, <1>1, WindowIs DEF Window, ChatTypes
<1>5. z = t
  <2>1. z = [i \in 1..count |-> LineWith(Window[i].id, isRead'[Window[i]])]
    BY <1>1, <1>3 DEF Serialize, LineOf
  <2>2. t = [i \in 1..count |-> LineWith(Window[i].id, Window[i] \in reads \/ isRead[Window[i]])]
    BY DEF WindowWith
  <2>3. ASSUME NEW i \in 1..count PROVE isRead'[Window[i]] = (Window[i] \in reads \/ isRead[Window[i]])
    <3> DEFINE o == Window[i]
    <3>1. o \in Entry
      BY <1>3
    <3> HIDE DEF o
    <3>2. isRead'[o] = (isRead[o] \/ o \in reads)
      BY <1>1, <3>1
    <3>3. isRead'[o] = (o \in reads \/ isRead[o])
      BY <3>2
    <3> QED
      BY <3>3 DEF o
  <2> HIDE DEF z, t
  <2> QED
    BY <2>1, <2>2, <2>3
<1> HIDE DEF t, z
<1>6. Replay' = t
  <2>1. writing \in Seq(Op)
    BY <1>0 DEF ChatTypes
  <2>2. ReplayOf(Flown'.lines, Append(writing, Rewrite(t)), isRead') = t
    BY <1>2, <2>1, ReplayRewrites
  <2>3. Replay' = ReplayOf(Flown'.lines, writing', isRead')
    BY DEF Replay, ReplayOf, LastRewrite, LastIn, LineOf, LineIn
  <2> QED
    BY <1>1, <2>2, <2>3
<1>7. Newest(t) = t
  <2>1. ~(Len(t) > Capacity)
    BY <1>0, <1>2, EntriesAre DEF ChatTypes, STypeOK
  <2> QED
    BY <2>1 DEF Newest
<1>8. (Newest(Replay))' = Newest(Replay')
  BY DEF Newest
<1> QED
  BY <1>5, <1>6, <1>7, <1>8 DEF ReplayGivesWindow, z

(* A write begins: the end is the same. *)
LEMMA BeginWriteReplays ==
  ASSUME ChatInv, ChatInv', ReplayGivesWindow, BeginWrite
  PROVE  ReplayGivesWindow'
<1> DEFINE op == Head(writing)
<1>0. ChatTypes
  BY DEF ChatInv
<1>1. /\ flying = None /\ writing # <<>> /\ writing' = Tail(writing)
      /\ flying' = (IF closed THEN None ELSE FlightOf(op))
      /\ buf' = buf /\ head' = head /\ count' = count /\ isRead' = isRead /\ closed' = closed /\ file' = file
      /\ behind' = behind
  BY DEF BeginWrite, ring
<1>2. /\ writing \in Seq(Op) /\ writing' \in Seq(Op) /\ op = writing[1] /\ op \in Op
      /\ isRead \in Receipts /\ file \in FileOfLines /\ file.lines \in Seq(Line)
  BY <1>0, <1>1, QueueShrinks, FlownIs DEF ChatTypes, FileOfLines
<1>3. Flown.lines = file.lines /\ flying.phase = "none"
  BY <1>0, <1>1, FlownIs DEF None
<1> SUFFICES ASSUME Owed' PROVE (Newest(Replay) = Serialize)'
  BY DEF ReplayGivesWindow, Owed
<1>4. ~closed /\ flying' = FlightOf(op)
  BY <1>1 DEF Owed
<1>5. Serialize' = Serialize /\ (Newest(Replay))' = Newest(Replay')
  BY <1>1 DEF Serialize, LineOf, Window, Newest
<1>6. Replay' = ReplayOf(Flown'.lines, Tail(writing), isRead)
  BY <1>1 DEF Replay, ReplayOf, LastRewrite, LastIn, LineOf, LineIn
<1>7. RewriteComes <=> LastIn(writing) > 0
  BY <1>2, <1>3, RewriteComesIs
<1>8. RewriteComes' <=> flying'.phase \in {"rewrite", "truncated"} \/ LastIn(Tail(writing)) > 0
  <2>1. writing' \in Seq(Op)
    BY <1>2
  <2>2. DOMAIN writing' = 1..Len(writing') /\ LastIn(writing') \in Nat /\ Len(writing') \in Nat
    BY <2>1, LastInIs
  <2>3. LastIn(writing') > 0 => \E i \in DOMAIN writing' : writing'[i].kind = "rewrite"
    BY <2>1, <2>2, LastInIs
  <2>4. ASSUME NEW i \in DOMAIN writing', writing'[i].kind = "rewrite" PROVE LastIn(writing') > 0
    <3>1. ~(i > LastIn(writing')) /\ i \in 1..Len(writing')
      BY <2>1, <2>2, <2>4, LastInIs
    <3> QED
      BY <2>2, <3>1
  <2> QED
    BY <1>1, <2>3, <2>4 DEF RewriteComes
<1> HIDE DEF op
<1>9. CASE op.kind = "append"
  <2>1. flying' = [phase |-> "append", text |-> <<LineIn(op, isRead)>>]
    BY <1>4, <1>9 DEF FlightOf, LineOf, LineIn
  <2>2. op.entry \in Entry
    BY <1>2, <1>9, OpKinds
  <2>3. LineIn(op, isRead) \in Line
    <3>1. isRead[op.entry] \in BOOLEAN /\ op.entry.id \in Id
      BY <1>2, <2>2, EntriesAre DEF Receipts
    <3> QED
      BY <3>1 DEF LineIn, LineWith, Line
  <2>4. flying'.phase = "append" /\ flying'.text[1] = LineIn(op, isRead)
    BY <2>1
  <2>5. Flown' = WithLine(file, LineIn(op, isRead))
    BY <1>1, <2>4 DEF Flown
  <2>6. RewriteComes' => LastIn(Tail(writing)) > 0
    BY <1>8, <2>4
  <2>7. Owed
    <3>1. LastIn(Tail(writing)) > 0 => LastIn(writing) > 0
      BY <1>1, <1>2, ReplayBegins
    <3> QED
      BY <1>1, <1>7, <2>6, <3>1 DEF Owed
  <2>8. Newest(Replay) = Serialize
    BY <2>7 DEF ReplayGivesWindow, Owed
  <2>9. Replay = ReplayOf(file.lines, writing, isRead)
    BY <1>3, ReplayIsOf
  <2>10. CASE LastIn(writing) = 0
    <3>1. ~RewriteComes
      BY <1>7, <2>10
    <3>2. ~file.torn
      BY <2>7, <3>1 DEF Owed
    <3>3. Flown'.lines = Append(file.lines, LineIn(op, isRead))
      BY <1>2, <2>3, <2>5, <3>2, WithLineIs
    <3>4. Replay = ReplayOf(Append(file.lines, LineIn(writing[1], isRead)), Tail(writing), isRead)
      BY <1>1, <1>2, <1>9, <2>9, <2>10, ReplayBegins
    <3>5. Replay' = Replay
      BY <1>2, <1>6, <3>3, <3>4
    <3> QED
      BY <1>5, <2>8, <3>5
  <2>11. CASE LastIn(writing) # 0
    <3>1. LastIn(writing) > 0
      BY <1>2, <2>11, LastInIs
    <3>2. Flown'.lines \in Seq(Line)
      <4>1. WithLine(file, LineIn(op, isRead)) \in FileOfLines
        BY <1>2, <2>3, WithLineIs
      <4> QED
        BY <2>5, <4>1 DEF FileOfLines
    <3>3. Replay = ReplayOf(Flown'.lines, Tail(writing), isRead)
      BY <1>1, <1>2, <1>9, <2>9, <3>1, <3>2, ReplayBegins
    <3>4. Replay' = Replay
      BY <1>6, <3>3
    <3> QED
      BY <1>5, <2>8, <3>4
  <2> QED
    BY <2>10, <2>11
<1>10. CASE op.kind = "rewrite"
  <2>1. flying' = [phase |-> "rewrite", text |-> op.text]
    BY <1>4, <1>10 DEF FlightOf
  <2>2. Flown'.lines = op.text
    BY <2>1 DEF Flown, Text
  <2>3. LastIn(writing) > 0
    <3>1. 1 \in 1..Len(writing) /\ LastIn(writing) \in Nat
      <4>1. Len(writing) \in Nat /\ Len(writing) # 0
        BY <1>1, <1>2, EmptySeq, LenProperties
      <4>2. 1 \in 1..Len(writing)
        BY <4>1
      <4> QED
        BY <1>2, <4>2, LastInIs
    <3>2. ~(1 > LastIn(writing))
      BY <1>2, <1>10, <3>1, LastInIs
    <3> QED
      BY <3>1, <3>2
  <2>4. Newest(Replay) = Serialize
    BY <1>4, <1>7, <2>3 DEF ReplayGivesWindow
  <2>5. Replay = ReplayOf(file.lines, writing, isRead)
    BY <1>3, ReplayIsOf
  <2>6. Replay = ReplayOf(writing[1].text, Tail(writing), isRead)
    BY <1>1, <1>2, <1>10, <2>5, ReplayBegins
  <2>7. Replay' = Replay
    BY <1>2, <1>6, <2>2, <2>6
  <2> QED
    BY <1>5, <2>4, <2>7
<1> QED
  BY <1>2, <1>9, <1>10, OpKinds

(* What the disk does to the file is what was to be done, or is undone. *)
LEMMA DiskReplays ==
  ASSUME ChatInv, ChatInv', ReplayGivesWindow, Truncate \/ Land \/ WriteFails
  PROVE  ReplayGivesWindow'
<1>0. ChatTypes
  BY DEF ChatInv
<1>1. /\ writing' = writing /\ isRead' = isRead /\ closed' = closed
      /\ buf' = buf /\ head' = head /\ count' = count
  BY DEF Truncate, Land, WriteFails, ring
<1>2. Serialize' = Serialize /\ (Newest(Replay))' = Newest(Replay')
  BY <1>1 DEF Serialize, LineOf, Window, Newest
<1>3. writing \in Seq(Op) /\ isRead \in Receipts /\ flying.phase \in Phase
  BY <1>0, FlownIs DEF ChatTypes, STypeOK
<1>4. Replay' = ReplayOf(Flown'.lines, writing, isRead)
  BY <1>1 DEF Replay, ReplayOf, LastRewrite, LastIn, LineOf, LineIn
<1>5. Replay = ReplayOf(Flown.lines, writing, isRead)
  BY ReplayIsOf
<1>6. LastIn(writing) > 0 => Replay' = Replay
  <2> SUFFICES ASSUME LastIn(writing) > 0 PROVE Replay' = Replay
    OBVIOUS
  <2>1. ~(LastIn(writing) = 0)
    BY <1>3, LastInIs
  <2> QED
    BY <1>4, <1>5, <2>1 DEF ReplayOf
<1>7. RewriteComes <=> flying.phase \in {"rewrite", "truncated"} \/ LastIn(writing) > 0
  BY <1>3, RewriteComesIs
<1>8. RewriteComes' => flying'.phase \in {"rewrite", "truncated"} \/ LastIn(writing) > 0
  <2>1. (\E i \in DOMAIN writing : writing[i].kind = "rewrite") => LastIn(writing) > 0
    <3> SUFFICES ASSUME NEW i \in DOMAIN writing, writing[i].kind = "rewrite" PROVE LastIn(writing) > 0
      OBVIOUS
    <3>1. LastIn(writing) \in Nat /\ i \in 1..Len(writing) /\ Len(writing) \in Nat
      BY <1>3, LastInIs
    <3>2. ~(i > LastIn(writing))
      BY <1>3, <3>1, LastInIs
    <3> QED
      BY <3>1, <3>2
  <2> QED
    BY <1>1, <2>1 DEF RewriteComes
<1> SUFFICES ASSUME Owed' PROVE (Newest(Replay) = Serialize)'
  BY DEF ReplayGivesWindow, Owed
<1>9. ~closed
  BY <1>1 DEF Owed
<1>10. Owed => Newest(Replay) = Serialize
  BY DEF ReplayGivesWindow, Owed
<1>11. CASE Truncate
  <2>1. flying.phase = "rewrite" /\ flying' = [flying EXCEPT !.phase = "truncated"]
    BY <1>11 DEF Truncate
  <2>2. flying'.phase = "truncated" /\ flying'.text = flying.text
    BY <1>0, <2>1 DEF ChatTypes
  <2>3. Flown'.lines = flying.text /\ Flown.lines = flying.text
    BY <2>1, <2>2 DEF Flown, Text
  <2>4. Replay' = Replay
    BY <1>4, <1>5, <2>3
  <2>5. Owed
    BY <1>7, <1>9, <2>1 DEF Owed
  <2> QED
    BY <1>2, <1>10, <2>4, <2>5
<1>12. CASE Land
  <2>1. /\ flying.phase \in {"append", "truncated"}
        /\ file' = (IF flying.phase = "append" THEN WithLine(file, flying.text[1]) ELSE Text(flying.text))
        /\ behind' = (IF flying.phase = "append" THEN behind \/ file.torn ELSE FALSE)
        /\ flying' = None
    BY <1>12 DEF Land
  <2>2. flying'.phase = "none"
    BY <2>1 DEF None
  <2>3. Flown' = file' /\ Flown = file'
    BY <2>1, <2>2 DEF Flown
  <2>4. Replay' = Replay
    BY <1>4, <1>5, <2>3
  <2>5. Owed
    <3>1. CASE flying.phase = "append"
      <4>1. ~behind' => ~behind /\ ~file.torn
        BY <2>1, <3>1
      <4>2. RewriteComes' => RewriteComes
        BY <1>7, <1>8, <2>2
      <4> QED
        BY <1>9, <4>1, <4>2 DEF Owed
    <3>2. CASE flying.phase = "truncated"
      BY <1>7, <1>9, <3>2 DEF Owed
    <3> QED
      BY <2>1, <3>1, <3>2
  <2> QED
    BY <1>2, <1>10, <2>4, <2>5
<1>13. CASE WriteFails
  <2>1. behind' = TRUE /\ flying' = None
    BY <1>13 DEF WriteFails
  <2>2. flying'.phase = "none"
    BY <2>1 DEF None
  <2>3. LastIn(writing) > 0
    BY <1>8, <2>1, <2>2 DEF Owed
  <2>4. Owed
    BY <1>7, <1>9, <2>3 DEF Owed
  <2> QED
    BY <1>2, <1>6, <1>10, <2>3, <2>4
<1> QED
  BY <1>11, <1>12, <1>13

(* A start: the window is what was loaded. *)
LEMMA RestartReplays ==
  ASSUME ChatInv, ChatInv', Restart
  PROVE  ReplayGivesWindow'
<1>1. PICK f \in Remains : file' = f /\ Load(Newest(f.lines))
  BY DEF Restart
<1>2. writing' = <<>> /\ flying' = None /\ closed' = FALSE
  BY DEF Restart
<1> DEFINE lines == Newest(f.lines)
           z == Serialize'
<1>3. f.lines \in Seq(Line)
  BY <1>1 DEF ChatInv, ChatTypes, FileOfLines
<1>4. Replay' = f.lines
  <2>1. Flown' = file'
    BY <1>2 DEF Flown, None
  <2>2. Replay' = ReplayOf(f.lines, <<>>, isRead')
    BY <1>1, <1>2, <2>1 DEF Replay, ReplayOf, LastRewrite, LastIn, LineOf, LineIn
  <2> QED
    BY <1>3, <2>2, ReplayOfNone
<1>5. (Newest(Replay))' = lines
  <2>1. (Newest(Replay))' = Newest(Replay')
    BY DEF Newest
  <2> QED
    BY <1>4, <2>1
<1>6. /\ buf' = [i \in DOMAIN lines |-> Loaded(lines[i].id, i)] /\ head' = 0 /\ count' = Len(lines)
      /\ isRead' = [o \in Entry |-> o.place \in DOMAIN lines /\ lines[o.place] = LineWith(o.id, TRUE)]
  BY <1>1 DEF Load, LoadStatus
<1> DEFINE n == Len(lines)
<1>7. lines \in Seq(Line) /\ n \in Nat /\ n <= Capacity /\ Capacity \in Nat
  <2> DEFINE s == f.lines
  <2>1. s \in Seq(Line) /\ Capacity \in Nat
    BY <1>3, EntriesAre
  <2> HIDE DEF s
  <2>2. /\ Newest(s) \in Seq(Line) /\ Len(s) \in Nat /\ Len(Newest(s)) \in Nat
        /\ Len(Newest(s)) = (IF Len(s) > Capacity THEN Capacity ELSE Len(s))
    BY <2>1, NewestFromEnd
  <2>3. Len(Newest(s)) <= Capacity
    BY <2>1, <2>2
  <2> QED
    BY <2>1, <2>2, <2>3 DEF s
<1>8. \A i \in 1..n : lines[i].id \in Id /\ lines[i].read \in BOOLEAN /\ lines[i] = LineWith(lines[i].id, lines[i].read)
  BY <1>7, IdsAre
<1> HIDE DEF lines, n
<1>9. DOMAIN lines = 1..n /\ lines = [i \in 1..n |-> lines[i]]
  BY <1>7, LenProperties DEF n
<1>10. ASSUME NEW i \in 1..n
       PROVE  buf'[i] = Loaded(lines[i].id, i) /\ buf'[i] \in Entry /\ buf'[i].id = lines[i].id /\ buf'[i].place = i
  <2>1. buf'[i] = Loaded(lines[i].id, i)
    BY <1>6, <1>9
  <2>2. i \in 0..Capacity
    BY <1>7
  <2> QED
    BY <1>8, <2>1, <2>2 DEF Loaded, Entry
<1>11. ASSUME NEW i \in 1..n PROVE isRead'[buf'[i]] = lines[i].read
  <2> DEFINE o == buf'[i]
  <2>1. o \in Entry /\ o.id = lines[i].id /\ o.place = i
    BY <1>10
  <2> HIDE DEF o
  <2>2. isRead'[o] = (i \in 1..n /\ lines[i] = LineWith(lines[i].id, TRUE))
    BY <1>6, <1>9, <2>1
  <2>3. lines[i] = LineWith(lines[i].id, lines[i].read) /\ lines[i].read \in BOOLEAN
    BY <1>8
  <2>4. lines[i] = LineWith(lines[i].id, TRUE) <=> lines[i].read = TRUE
    <3> DEFINE x == lines[i].id
               r == lines[i].read
    <3>1. r \in BOOLEAN
      BY <2>3
    <3> HIDE DEF x, r
    <3>2. LineWith(x, r) = LineWith(x, TRUE) <=> r = TRUE
      BY <3>1 DEF LineWith
    <3> QED
      BY <2>3, <3>2 DEF x, r
  <2> QED
    BY <2>2, <2>3, <2>4 DEF o
<1>12. buf' \in Seq(Entry) /\ Len(buf') = n
  <2>1. buf' = [i \in 1..n |-> Loaded(lines[i].id, i)]
    BY <1>6, <1>9
  <2>2. buf' \in [1..n -> Entry]
    BY <1>10, <2>1
  <2> QED
    BY <1>7, <2>2, SameLength
<1>13. \A i \in 1..n : Window'[i] = buf'[i]
  <2>1. \A i \in (0 + 1)..(0 + n) : i \in 1..n
    BY <1>7
  <2>2. \A i \in (0 + 1)..(0 + n) : buf'[i] \in Entry
    BY <1>12, <2>1, ElementOfSeq
  <2>3. 0 + 1 \in Int /\ 0 + n \in Int /\ (0 + n) - (0 + 1) + 1 = n
    BY <1>7
  <2>4. \A i \in 1..((0 + n) - (0 + 1) + 1) : SubSeq(buf', 0 + 1, 0 + n)[i] = buf'[(0 + 1) + i - 1]
    BY <2>2, <2>3, SubSeqProperties
  <2>5. \A i \in 1..n : (0 + 1) + i - 1 = i
    BY <1>7
  <2>6. Window' = SubSeq(buf', 0 + 1, 0 + n)
    BY <1>6 DEF Window, n
  <2> QED
    BY <2>3, <2>4, <2>5, <2>6
<1>14. z = lines
  <2>1. z = [i \in 1..n |-> LineWith(Window'[i].id, isRead'[Window'[i]])]
    BY <1>6 DEF Serialize, LineOf, n
  <2>2. \A i \in 1..n : LineWith(Window'[i].id, isRead'[Window'[i]]) = lines[i]
    BY <1>8, <1>10, <1>11, <1>13
  <2> HIDE DEF z
  <2> QED
    BY <1>9, <2>1, <2>2
<1> QED
  BY <1>5, <1>14 DEF ReplayGivesWindow, z

(* Every step of the chat leaves a file that replays the window. *)
LEMMA ChatReplays ==
  ASSUME ChatInv, ChatInv', ReplayGivesWindow, SNext \/ UNCHANGED svars
  PROVE  ReplayGivesWindow'
<1>1. CASE UNCHANGED svars
  <2>1. /\ writing' = writing /\ isRead' = isRead /\ closed' = closed /\ behind' = behind /\ file' = file /\ flying' = flying
        /\ buf' = buf /\ head' = head /\ count' = count
    BY <1>1 DEF svars, ring
  <2>2. Serialize' = Serialize /\ Flown' = Flown /\ RewriteComes' = RewriteComes /\ LastRewrite' = LastRewrite
    BY <2>1 DEF Serialize, LineOf, Window, Flown, RewriteComes, LastRewrite
  <2>3. Replay' = Replay
    BY <2>1, <2>2 DEF Replay, LineOf
  <2>4. (Newest(Replay))' = Newest(Replay)
    BY <2>3 DEF Newest
  <2> QED
    BY <2>1, <2>2, <2>4 DEF ReplayGivesWindow
<1>2. CASE CompactSync
  <2>1. closed' = TRUE
    BY <1>2 DEF CompactSync
  <2> QED
    BY <2>1 DEF ReplayGivesWindow
<1> QED
  BY <1>1, <1>2, NewEntryReplays, MarkReadManyReplays, BeginWriteReplays, DiskReplays, RestartReplays DEF SNext

(***************************************************************************)
(* The journal.                                                            *)

RecordLines == Seq(0..MaxSeq)
Rising(s) == \A i, k \in 1..Len(s) : i < k /\ s[i] # 0 /\ s[k] # 0 => s[i] < s[k]
Less(s, b) == \A i \in 1..Len(s) : s[i] < b

Chained == 1..MaxSeq \cup {-1, -2}
Hows == {"none", "append", "clear", "read", "rewrite", "truncated"}
FileOfRecords == [lines : RecordLines, torn : BOOLEAN]

JournalTypes ==
  /\ slots \in Seq(1..MaxSeq) /\ Len(slots) <= BufferSize
  /\ oldest \in 0..(BufferSize - 1) /\ held = Len(slots)
  /\ seqNext \in 1..(MaxSeq + 1) /\ counted \in Nat
  /\ chain \in Seq(Chained)
  /\ write \in [how : Hows, lines : RecordLines] /\ disk \in FileOfRecords
  /\ gone \in BOOLEAN /\ short \in BOOLEAN /\ forgotten \in Nat
  /\ jstarts \in 1..MaxJStarts /\ clears \in 0..MaxClears
  /\ write.how = "append" => Len(write.lines) = 1 /\ write.lines[1] # 0
  /\ write.how \in {"rewrite", "truncated"} => Len(write.lines) <= Persisted
  /\ write.how \in {"clear", "none"} => write.lines = <<>>

(* The lines ascend, but for those that cannot be read, and what waits is  *)
(* newer than what is written.                                             *)
LinesRise ==
  /\ Rising(disk.lines) /\ Rising(write.lines)
  /\ Less(disk.lines, seqNext) /\ Less(write.lines, seqNext)
  /\ write.how = "append" => Less(disk.lines, write.lines[1])
  /\ \A i \in 1..Len(chain) : chain[i] > 0 =>
       /\ chain[i] < seqNext
       /\ Less(disk.lines, chain[i]) /\ Less(write.lines, chain[i])
       /\ \A k \in 1..(i - 1) : chain[k] < chain[i]

(* The records that will be on the file for what waits, and how long it    *)
(* will be for what it has.                                                *)
ClearWaits == \E i \in 1..Len(chain) : chain[i] = -1
Coming ==
  {r \in 1..MaxSeq : \E i \in 1..Len(chain) : chain[i] = r /\ \A k \in 1..Len(chain) : k > i => chain[k] # -1}
LengthToBe ==
  IF ClearWaits \/ write.how = "clear" THEN 0
  ELSE Len(disk.lines) + (IF write.how = "append" THEN 1 ELSE 0)

(* The count with what the last compaction forgot is no less than what the *)
(* file will be; a count that asks for a compaction has one that waits.    *)
CountIsEnough == LengthToBe + Cardinality(Coming) <= counted + forgotten
CompactComes ==
  counted > 2 * Persisted =>
    (\E i \in 1..Len(chain) : chain[i] = -2) \/ write.how \in {"read", "rewrite", "truncated"}
CountHolds == jstarts = 1 /\ ~short => CountIsEnough /\ CompactComes

JournalInv == JournalTypes /\ LinesRise /\ CountHolds

(* A beginning of the numbers has its length. *)
LEMMA CountUpTo ==
  ASSUME NEW n \in Nat
  PROVE  IsFiniteSet(1..n) /\ Cardinality(1..n) = n
BY FS_Interval

(* The sizes of the journal are numbers. *)
LEMMA SizesAre == /\ BufferSize \in Nat /\ BufferSize > 0 /\ Persisted \in Nat /\ Persisted > 0
                  /\ MaxSeq \in Nat /\ MaxJStarts \in Nat /\ MaxJStarts > 0 /\ MaxClears \in Nat
BY JournalSizes, JournalBounds

(* The types follow. *)
LEMMA JournalTypeOK == JournalTypes => JTypeOK
<1> SUFFICES ASSUME JournalTypes PROVE JTypeOK
  OBVIOUS
<1>1. Len(slots) \in Nat /\ Len(slots) \in 0..BufferSize
  BY SizesAre, LenProperties DEF JournalTypes
<1>2. \A i \in DOMAIN chain : chain[i] \in 1..MaxSeq \cup {-1, -2}
  BY LenProperties, ElementOfSeq DEF JournalTypes, Chained
<1> QED
  BY <1>1, <1>2 DEF JournalTypes, JTypeOK, RecordLines, Hows, FileOfRecords

(* Of what a list of lines consists. *)
LEMMA LinesAre ==
  ASSUME NEW s \in RecordLines
  PROVE  Len(s) \in Nat /\ \A i \in 1..Len(s) : s[i] \in 0..MaxSeq /\ s[i] \in Nat
BY LenProperties, ElementOfSeq, SizesAre DEF RecordLines

(* The newest of lines that ascend do so, and are no more than asked for. *)
LEMMA NewerRises ==
  ASSUME NEW s \in RecordLines, NEW n \in Nat, Rising(s)
  PROVE  /\ Newer(s, n) \in RecordLines /\ Rising(Newer(s, n)) /\ Len(Newer(s, n)) \in Nat
         /\ Len(Newer(s, n)) <= n /\ Len(Newer(s, n)) <= Len(s)
         /\ \A b : Less(s, b) => Less(Newer(s, n), b)
<1> DEFINE t == Newer(s, n)
           d == Len(s) - Len(t)
<1>1. /\ Len(s) \in Nat /\ t \in Seq(0..MaxSeq)
      /\ Len(t) = (IF Len(s) > n THEN n ELSE Len(s))
      /\ \A i \in 1..Len(t) : i + (Len(s) - Len(t)) \in 1..Len(s) /\ t[i] = s[i + (Len(s) - Len(t))]
  BY NewerIs DEF RecordLines
<1>2. Len(t) \in Nat /\ d \in Nat /\ Len(t) <= n /\ Len(t) <= Len(s)
  BY <1>1
<1> HIDE DEF t
<1>3. \A i \in 1..Len(t) : i + d \in 1..Len(s) /\ t[i] = s[i + d]
  BY <1>1
<1> HIDE DEF d
<1>4. Rising(t)
  <2> SUFFICES ASSUME NEW i \in 1..Len(t), NEW k \in 1..Len(t), i < k, t[i] # 0, t[k] # 0 PROVE t[i] < t[k]
    BY DEF Rising
  <2>1. i + d \in 1..Len(s) /\ k + d \in 1..Len(s) /\ i + d < k + d /\ t[i] = s[i + d] /\ t[k] = s[k + d]
    BY <1>2, <1>3
  <2> QED
    BY <2>1 DEF Rising
<1>5. \A b : Less(s, b) => Less(t, b)
  BY <1>3 DEF Less
<1> QED
  BY <1>1, <1>2, <1>4, <1>5 DEF t, RecordLines

(* A beginning of lines that ascend does so. *)
LEMMA BeginningRises ==
  ASSUME NEW s \in RecordLines, NEW n \in 0..(Len(s) - 1), Rising(s)
  PROVE  /\ SubSeq(s, 1, n) \in RecordLines /\ Rising(SubSeq(s, 1, n))
         /\ \A b : Less(s, b) => Less(SubSeq(s, 1, n), b)
<1> DEFINE t == SubSeq(s, 1, n)
<1>1. Len(s) \in Nat /\ n \in Nat /\ n < Len(s)
  BY LinesAre
<1>2. (IF 1 <= n THEN n - 1 + 1 ELSE 0) = n /\ \A i \in 1..n : i \in 1..Len(s) /\ i \in 1..(n - 1 + 1) /\ 1 + i - 1 = i
  BY <1>1
<1>3. \A i \in 1..n : s[i] \in 0..MaxSeq
  BY <1>2, LinesAre
<1>4. t \in Seq(0..MaxSeq) /\ Len(t) = (IF 1 <= n THEN n - 1 + 1 ELSE 0) /\ \A i \in 1..(n - 1 + 1) : t[i] = s[1 + i - 1]
  BY <1>1, <1>3, SubSeqProperties
<1>5. Len(t) = n /\ \A i \in 1..n : t[i] = s[i]
  BY <1>2, <1>4
<1> HIDE DEF t
<1>6. Rising(t)
  BY <1>2, <1>5 DEF Rising
<1>7. \A b : Less(s, b) => Less(t, b)
  BY <1>2, <1>5 DEF Less
<1> QED
  BY <1>4, <1>6, <1>7 DEF t, RecordLines

(* Lines that ascend still do with a greater one. *)
LEMMA AppendRises ==
  ASSUME NEW s \in RecordLines, NEW x \in 0..MaxSeq, Rising(s), x = 0 \/ Less(s, x)
  PROVE  /\ Append(s, x) \in RecordLines /\ Rising(Append(s, x)) /\ Len(Append(s, x)) = Len(s) + 1 /\ Len(s) \in Nat
         /\ \A b : Less(s, b) /\ x < b => Less(Append(s, x), b)
<1> DEFINE t == Append(s, x)
           n == Len(s)
<1>1. n \in Nat /\ \A i \in 1..n : s[i] \in Nat
  BY LinesAre
<1>2. t \in Seq(0..MaxSeq) /\ Len(t) = n + 1 /\ (\A i \in 1..n : t[i] = s[i]) /\ t[n + 1] = x
  BY AppendProperties DEF RecordLines
<1>3. \A i \in 1..n : t[i] = s[i]
  BY <1>2
<1> HIDE DEF t, n
<1>4. Rising(t)
  <2> SUFFICES ASSUME NEW i \in 1..(n + 1), NEW k \in 1..(n + 1), i < k, t[i] # 0, t[k] # 0 PROVE t[i] < t[k]
    BY <1>2 DEF Rising
  <2>1. i \in 1..n
    BY <1>1
  <2>2. CASE k = n + 1
    BY <1>2, <1>3, <2>1, <2>2 DEF Less, n
  <2>3. CASE k # n + 1
    <3>1. k \in 1..n
      BY <1>1, <2>3
    <3> QED
      BY <1>3, <2>1, <3>1 DEF Rising, n
  <2> QED
    BY <2>2, <2>3
<1>5. ASSUME NEW b, Less(s, b), x < b PROVE Less(t, b)
  <2> SUFFICES ASSUME NEW i \in 1..(n + 1) PROVE t[i] < b
    BY <1>2 DEF Less
  <2>1. CASE i = n + 1
    BY <1>2, <1>5, <2>1
  <2>2. CASE i # n + 1
    <3>1. i \in 1..n
      BY <1>1, <2>2
    <3> QED
      BY <1>3, <1>5, <3>1 DEF Less, n
  <2> QED
    BY <2>1, <2>2
<1> QED
  BY <1>1, <1>2, <1>4, <1>5 DEF t, n, RecordLines

(* What can be read of a file. *)
LEMMA ReadableIs ==
  ASSUME NEW f \in FileOfRecords
  PROVE  /\ Readable(f) \in Seq(1..MaxSeq) /\ Len(Readable(f)) \in Nat
         /\ \A i \in 1..Len(f.lines) : f.lines[i] # 0 => \E n \in 1..Len(Readable(f)) : Readable(f)[n] = f.lines[i]
         /\ Rising(f.lines) => \A n, m \in 1..Len(Readable(f)) : n < m => Readable(f)[n] < Readable(f)[m]
<1> DEFINE s == f.lines
           P == {i \in DOMAIN s : s[i] # 0}
           t == Picked(s, P)
           c == Cardinality(P)
<1>0. s \in Seq(0..MaxSeq) /\ s \in RecordLines
  BY DEF FileOfRecords, RecordLines
<1>1. Readable(f) = t
  BY DEF Readable
<1>2. P \in SUBSET (1..Len(s)) /\ \A i \in P : s[i] # 0 /\ s[i] \in 0..MaxSeq /\ i \in Int
  <2>1. DOMAIN s = 1..Len(s) /\ \A i \in 1..Len(s) : s[i] \in 0..MaxSeq
    BY <1>0, LenProperties, ElementOfSeq
  <2>2. \A i \in DOMAIN s : i \in Int
    BY <2>1
  <2> QED
    BY <2>1, <2>2
<1> HIDE DEF s, P
<1>3. /\ t \in Seq(0..MaxSeq) /\ Len(t) = c /\ c \in 0..Len(s) /\ Len(s) \in Nat /\ DOMAIN s = 1..Len(s)
      /\ Nth(P) \in [1..c -> P]
      /\ Ascending(Nth(P), c)
      /\ \A i \in P : \E n \in 1..c : Nth(P)[n] = i
      /\ \A n \in 1..c : t[n] = s[Nth(P)[n]]
  BY <1>0, <1>2, PickedIs
<1> HIDE DEF t, c
<1>4. \A n \in 1..c : Nth(P)[n] \in P /\ t[n] = s[Nth(P)[n]] /\ t[n] \in 1..MaxSeq
  <2> TAKE n \in 1..c
  <2>1. Nth(P)[n] \in P /\ t[n] = s[Nth(P)[n]]
    BY <1>3
  <2>2. t[n] # 0 /\ t[n] \in 0..MaxSeq
    BY <1>2, <2>1
  <2>3. t[n] \in 1..MaxSeq
    <3> DEFINE x == t[n]
    <3> HIDE DEF x
    <3>1. x # 0 /\ x \in 0..MaxSeq
      BY <2>2 DEF x
    <3>2. x \in 1..MaxSeq
      BY <3>1, SizesAre
    <3> QED
      BY <3>2 DEF x
  <2> QED
    BY <2>1, <2>3
<1>5. t \in Seq(1..MaxSeq)
  <2>1. t \in [1..c -> 1..MaxSeq]
    <3>1. DOMAIN t = 1..c /\ t = [n \in 1..c |-> t[n]]
      BY <1>3, LenProperties
    <3> QED
      BY <1>4, <3>1
  <2>2. c \in Nat
    BY <1>3
  <2> QED
    BY <2>1, <2>2, SeqDef
<1>6. \A i \in 1..Len(s) : s[i] # 0 => \E n \in 1..c : t[n] = s[i]
  <2> SUFFICES ASSUME NEW i \in 1..Len(s), s[i] # 0 PROVE \E n \in 1..c : t[n] = s[i]
    OBVIOUS
  <2>1. i \in P
    BY <1>3 DEF P
  <2> QED
    BY <1>3, <2>1
<1>7. ASSUME Rising(s), NEW n \in 1..c, NEW m \in 1..c, n < m PROVE t[n] < t[m]
  <2>1. Nth(P)[n] < Nth(P)[m] /\ Nth(P)[n] \in P /\ Nth(P)[m] \in P
    BY <1>3, <1>4, <1>7 DEF Ascending
  <2>2. Nth(P)[n] \in 1..Len(s) /\ Nth(P)[m] \in 1..Len(s) /\ s[Nth(P)[n]] # 0 /\ s[Nth(P)[m]] # 0
    BY <1>2, <2>1
  <2> QED
    BY <1>4, <1>7, <2>1, <2>2 DEF Rising
<1>8. Len(t) \in Nat /\ Len(t) = c
  BY <1>3
<1> QED
  BY <1>1, <1>5, <1>6, <1>7, <1>8 DEF s

(* The invariant gives what the property says of the numbers. *)
LEMMA RisingIsAscending == ASSUME JournalInv PROVE JTypeOK /\ JournalAscends
<1>1. JTypeOK
  BY JournalTypeOK DEF JournalInv
<1> DEFINE t == Readable(disk)
<1>2. Len(t) \in Nat /\ \A n, m \in 1..Len(t) : n < m => t[n] < t[m]
  BY ReadableIs DEF JournalInv, JournalTypes, LinesRise
<1> HIDE DEF t
<1>3. \A i \in 2..Len(t) : t[i - 1] < t[i]
  <2> TAKE i \in 2..Len(t)
  <2>1. i \in 1..Len(t) /\ i - 1 \in 1..Len(t) /\ i - 1 < i
    BY <1>2
  <2> QED
    BY <1>2, <2>1
<1> QED
  BY <1>1, <1>3 DEF JournalAscends, t

(* What is counted is finite. *)
LEMMA ComingIs ==
  ASSUME chain \in Seq(Chained)
  PROVE  /\ Len(chain) \in Nat /\ DOMAIN chain = 1..Len(chain)
         /\ \A i \in 1..Len(chain) : /\ chain[i] \in Int
                                     /\ chain[i] > 0 => chain[i] \in 1..MaxSeq
                                     /\ chain[i] \notin {-1, -2} => chain[i] > 0
         /\ IsFiniteSet(Coming) /\ Cardinality(Coming) \in Nat
         /\ Waiting \in Nat
         /\ Cardinality(Coming) + (IF write.how = "append" THEN 1 ELSE 0) <= Waiting
<1>1. Len(chain) \in Nat /\ DOMAIN chain = 1..Len(chain) /\ \A i \in 1..Len(chain) : chain[i] \in Chained
  BY LenProperties, ElementOfSeq
<1>2. \A x \in Chained : x \in Int /\ (x > 0 => x \in 1..MaxSeq) /\ (x \notin {-1, -2} => x > 0 /\ x \in 1..MaxSeq)
  BY SizesAre DEF Chained
<1> DEFINE R == ToSet(chain) \ {Clear, Compact}
<1>3. IsFiniteSet(1..MaxSeq)
  BY CountUpTo, SizesAre
<1>4. R \in SUBSET (1..MaxSeq)
  BY <1>1, <1>2 DEF ToSet, Clear, Compact
<1>5. Coming \in SUBSET R
  <2> SUFFICES ASSUME NEW r \in Coming PROVE r \in R
    OBVIOUS
  <2>1. r \in 1..MaxSeq /\ \E i \in 1..Len(chain) : chain[i] = r
    BY DEF Coming
  <2>2. r # -1 /\ r # -2
    BY <2>1
  <2> QED
    BY <1>1, <2>1, <2>2 DEF ToSet, Clear, Compact
<1> HIDE DEF R
<1>6. IsFiniteSet(R) /\ IsFiniteSet(Coming) /\ Cardinality(Coming) <= Cardinality(R)
      /\ Cardinality(R) \in Nat /\ Cardinality(Coming) \in Nat
  <2>1. IsFiniteSet(R)
    BY <1>3, <1>4, FS_Subset
  <2>2. IsFiniteSet(Coming) /\ Cardinality(Coming) <= Cardinality(R)
    BY <1>5, <2>1, FS_Subset
  <2> QED
    BY <2>1, <2>2, FS_CardinalityType
<1>7. Waiting = Cardinality(R) + (IF write.how = "append" THEN 1 ELSE 0)
  BY DEF Waiting, R
<1>8. Waiting \in Nat /\ Cardinality(Coming) + (IF write.how = "append" THEN 1 ELSE 0) <= Waiting
  <2>1. CASE write.how = "append"
    BY <1>6, <1>7, <2>1
  <2>2. CASE write.how # "append"
    BY <1>6, <1>7, <2>2
  <2> QED
    BY <2>1, <2>2
<1> QED
  BY <1>1, <1>2, <1>6, <1>8

(* It gives the bound on the file as well. *)
LEMMA JournalIsSmall == ASSUME JournalInv PROVE JournalStaysSmall
<1> SUFFICES ASSUME chain = <<>>, write = NoWrite, ~short, jstarts = 1
             PROVE  Len(disk.lines) <= 2 * Persisted + forgotten
  BY DEF JournalStaysSmall
<1>1. CountIsEnough /\ CompactComes
  BY DEF JournalInv, CountHolds
<1>2. Len(chain) = 0
  BY EmptySeq
<1>3. write.how = "none"
  BY DEF NoWrite
<1>4. ~ClearWaits /\ ~(\E i \in 1..Len(chain) : chain[i] = -2)
  BY <1>2 DEF ClearWaits
<1>5. LengthToBe = Len(disk.lines) + 0
  BY <1>3, <1>4 DEF LengthToBe
<1>6. Cardinality(Coming) \in Nat /\ Len(disk.lines) \in Nat /\ counted \in Nat /\ forgotten \in Nat
  BY ComingIs, LinesAre DEF JournalInv, JournalTypes, FileOfRecords
<1>7. counted <= 2 * Persisted
  BY <1>1, <1>3, <1>4, <1>6, SizesAre DEF CompactComes
<1> QED
  BY <1>1, <1>5, <1>6, <1>7, SizesAre DEF CountIsEnough

(* An empty journal is as it should be. *)
LEMMA JournalStarts == JInit => JournalInv
<1> SUFFICES ASSUME JInit PROVE JournalInv
  OBVIOUS
<1> USE DEF JInit
<1>1. <<>> \in RecordLines /\ <<>> \in Seq(1..MaxSeq) /\ <<>> \in Seq(Chained) /\ Len(<<>>) = 0
  BY EmptySeq DEF RecordLines
<1>2. disk.lines = <<>> /\ disk \in FileOfRecords /\ write.how = "none" /\ write.lines = <<>> /\ write \in [how : Hows, lines : RecordLines]
  BY <1>1 DEF Whole, NoWrite, FileOfRecords, Hows
<1>3. JournalTypes
  <2>1. 0 <= BufferSize /\ oldest \in 0..(BufferSize - 1) /\ seqNext \in 1..(MaxSeq + 1) /\ clears \in 0..MaxClears
    BY SizesAre
  <2>2. jstarts \in 1..MaxJStarts
    BY SizesAre, JournalBounds
  <2> QED
    BY <1>1, <1>2, <2>1, <2>2 DEF JournalTypes
<1>4. LinesRise
  BY <1>1, <1>2 DEF LinesRise, Rising, Less
<1>5. CountHolds
  <2>1. Coming = {} /\ ~ClearWaits
    BY <1>1 DEF Coming, ClearWaits
  <2>2. Cardinality(Coming) = 0
    BY <2>1, FS_EmptySet
  <2>3. LengthToBe = 0
    BY <1>1, <1>2, <2>1 DEF LengthToBe
  <2>4. CountIsEnough
    BY <2>2, <2>3 DEF CountIsEnough
  <2> QED
    BY <2>4, SizesAre DEF CountHolds, CompactComes
<1> QED
  BY <1>3, <1>4, <1>5 DEF JournalInv

(* What is less is less than more. *)
LEMMA LessStays == ASSUME NEW s \in RecordLines, NEW b \in Int, NEW c \in Int, Less(s, b), b <= c PROVE Less(s, c)
<1>1. \A i \in 1..Len(s) : s[i] \in Nat
  BY LinesAre
<1> QED
  BY <1>1 DEF Less

(* What is under way, as far as the count goes by it. *)
Appended == IF write.how = "append" THEN 1 ELSE 0

(* How long the file will be when the write under way has landed. *)
LEMMA LengthIs ==
  ASSUME JournalTypes
  PROVE  /\ Len(disk.lines) \in Nat /\ Appended \in {0, 1} /\ LengthToBe \in Nat
         /\ LengthToBe <= Len(disk.lines) + Appended
         /\ ~ClearWaits /\ write.how # "clear" => LengthToBe = Len(disk.lines) + Appended
         /\ ClearWaits \/ write.how = "clear" => LengthToBe = 0
<1>1. Len(disk.lines) \in Nat
  BY LinesAre DEF JournalTypes, FileOfRecords
<1>2. Appended \in {0, 1}
  BY DEF Appended
<1>3. ~ClearWaits /\ write.how # "clear" => LengthToBe = Len(disk.lines) + Appended
  BY DEF LengthToBe, Appended
<1>4. ClearWaits \/ write.how = "clear" => LengthToBe = 0
  BY DEF LengthToBe
<1> QED
  BY <1>1, <1>2, <1>3, <1>4

(* The chain with one or two operations more. *)
LEMMA ChainOneOrTwo ==
  ASSUME NEW T, NEW u \in Seq(T), NEW v \in Seq(T), Len(v) = 1 \/ Len(v) = 2
  PROVE  /\ u \o v \in Seq(T) /\ Len(u) \in Nat /\ Len(u \o v) = Len(u) + Len(v)
         /\ \A i \in 1..Len(u) : (u \o v)[i] = u[i] /\ i \in 1..Len(u \o v)
         /\ (u \o v)[Len(u) + 1] = v[1] /\ Len(u) + 1 \in 1..Len(u \o v)
         /\ Len(v) = 2 => (u \o v)[Len(u) + 2] = v[2] /\ Len(u) + 2 \in 1..Len(u \o v)
         /\ \A i \in 1..Len(u \o v) : i \in 1..Len(u) \/ i = Len(u) + 1 \/ (i = Len(u) + 2 /\ Len(v) = 2)
<1> DEFINE m == Len(u)
           n == Len(v)
           w == u \o v
<1>1. /\ w \in Seq(T) /\ Len(w) = m + n
      /\ \A i \in 1..(m + n) : w[i] = IF i <= m THEN u[i] ELSE v[i - m]
  BY ConcatProperties
<1>2. m \in Nat /\ (n = 1 \/ n = 2)
  BY LenProperties
<1> HIDE DEF m, n, w
<1>3. /\ \A i \in 1..m : i \in 1..(m + n) /\ i <= m
      /\ m + 1 \in 1..(m + n) /\ ~(m + 1 <= m) /\ (m + 1) - m = 1
      /\ (n = 2 => m + 2 \in 1..(m + n) /\ ~(m + 2 <= m) /\ (m + 2) - m = 2)
      /\ \A i \in 1..(m + n) : i \in 1..m \/ i = m + 1 \/ (i = m + 2 /\ n = 2)
  BY <1>2
<1>4. /\ \A i \in 1..m : w[i] = u[i]
      /\ w[m + 1] = v[1]
      /\ n = 2 => w[m + 2] = v[2]
  BY <1>1, <1>3
<1> QED
  BY <1>1, <1>2, <1>3, <1>4 DEF m, n, w

(* A record: it is counted at once, and asks for a compaction at most. *)
LEMMA RecordKeeps == ASSUME JournalInv, Record PROVE JournalInv'
<1> DEFINE m == Len(chain)
           r == seqNext
           s == IF counted' > 2 * Persisted THEN <<seqNext, Compact>> ELSE <<seqNext>>
<1>0. JournalTypes /\ LinesRise /\ CountHolds
  BY DEF JournalInv
<1>1. /\ seqNext <= MaxSeq /\ seqNext' = seqNext + 1 /\ PushRecord(seqNext) /\ counted' = counted + 1
      /\ chain' = chain \o s
      /\ write' = write /\ disk' = disk /\ gone' = gone /\ forgotten' = forgotten /\ short' = short
      /\ jstarts' = jstarts /\ clears' = clears
  BY DEF Record, Counts
<1>2. /\ r \in 1..MaxSeq /\ r \in Nat /\ r > 0 /\ counted \in Nat /\ chain \in Seq(Chained) /\ m \in Nat /\ r \in Chained /\ -2 \in Chained
      /\ Compact = -2
      /\ disk.lines \in RecordLines /\ write.lines \in RecordLines
  <2>1. r \in 1..(MaxSeq + 1) /\ r <= MaxSeq
    BY <1>0, <1>1 DEF JournalTypes
  <2>2. r \in 1..MaxSeq
    BY <2>1, SizesAre
  <2> QED
    BY <1>0, <2>2, LenProperties DEF JournalTypes, Chained, Compact, FileOfRecords
<1>3. /\ \A i \in 1..m : chain[i] \in Int /\ chain[i] # r /\ (chain[i] > 0 => chain[i] < r)
  <2>1. \A i \in 1..m : chain[i] \in Int /\ (chain[i] > 0 => chain[i] < r)
    BY <1>0, <1>2, ComingIs DEF LinesRise
  <2> QED
    BY <1>2, <2>1
<1>4. /\ s \in Seq(Chained) /\ s[1] = r
      /\ (Len(s) = 1 /\ ~(counted' > 2 * Persisted)) \/ (Len(s) = 2 /\ s[2] = -2)
  <2>1. CASE counted' > 2 * Persisted
    <3>1. s = <<r, -2>>
      BY <1>2, <2>1
    <3> HIDE DEF s
    <3> QED
      BY <1>2, <3>1
  <2>2. CASE ~(counted' > 2 * Persisted)
    <3>1. s = <<r>>
      BY <2>2
    <3> HIDE DEF s
    <3>2. s \in Seq(Chained) /\ s[1] = r /\ Len(s) = 1
      BY <1>2, <3>1
    <3> QED
      BY <2>2, <3>2
  <2> QED
    BY <2>1, <2>2
<1> HIDE DEF s
<1>5. /\ chain' \in Seq(Chained) /\ Len(chain') = m + Len(s) /\ (Len(s) = 1 \/ Len(s) = 2)
      /\ \A i \in 1..m : chain'[i] = chain[i] /\ i \in 1..Len(chain')
      /\ chain'[m + 1] = r /\ m + 1 \in 1..Len(chain')
      /\ Len(s) = 2 => chain'[m + 2] = -2 /\ m + 2 \in 1..Len(chain')
      /\ \A i \in 1..Len(chain') : i \in 1..m \/ i = m + 1 \/ (i = m + 2 /\ Len(s) = 2)
      /\ Len(chain') \in Nat
  <2>1. chain \in Seq(Chained) /\ s \in Seq(Chained) /\ chain' = chain \o s /\ (Len(s) = 1 \/ Len(s) = 2)
        /\ s[1] = r /\ (Len(s) = 2 => s[2] = -2)
    BY <1>1, <1>2, <1>4
  <2>2. Len(chain') \in Nat
    BY <2>1, ChainOneOrTwo, LenProperties
  <2> QED
    BY <2>1, <2>2, ChainOneOrTwo
<1> HIDE DEF m, r
<1>6. \A i \in 1..Len(chain') : \/ i \in 1..m /\ chain'[i] = chain[i]
                                \/ i = m + 1 /\ chain'[i] = r
                                \/ i = m + 2 /\ chain'[i] = -2 /\ Len(s) = 2
  <2> TAKE i \in 1..Len(chain')
  <2>1. i \in 1..m \/ i = m + 1 \/ (i = m + 2 /\ Len(s) = 2)
    BY <1>2, <1>5
  <2> QED
    BY <1>5, <2>1
<1>7. JournalTypes'
  <2>1. slots' \in Seq(1..MaxSeq) /\ Len(slots') <= BufferSize /\ oldest' \in 0..(BufferSize - 1) /\ held' = Len(slots')
    <3> DEFINE n == Len(slots)
               full == held >= BufferSize
               first == IF full THEN (oldest + 1) % n ELSE oldest
               lft == IF full THEN held - 1 ELSE held
               k == ((first + lft) % n) + 1
    <3>1. slots \in Seq(1..MaxSeq) /\ n \in Nat /\ n <= BufferSize /\ oldest \in 0..(BufferSize - 1) /\ held = n
      BY <1>0, LenProperties DEF JournalTypes
    <3>2. /\ oldest' = first /\ held' = lft + 1
          /\ slots' = IF n < BufferSize THEN Append(slots, r) ELSE [slots EXCEPT ![k] = r]
      BY <1>1 DEF PushRecord, r
    <3> HIDE DEF n, k
    <3>3. CASE n < BufferSize
      <4>1. ~full
        BY <3>1, <3>3, SizesAre
      <4>2. oldest' = oldest /\ held' = n + 1
        BY <3>1, <3>2, <4>1
      <4>3. slots' = Append(slots, r) /\ slots' \in Seq(1..MaxSeq) /\ Len(slots') = n + 1
        BY <1>2, <3>1, <3>2, <3>3, AppendProperties DEF n
      <4> QED
        BY <3>1, <3>3, <4>2, <4>3, SizesAre
    <3>4. CASE ~(n < BufferSize)
      <4>1. n = BufferSize /\ full
        BY <3>1, <3>4, SizesAre
      <4>2. (oldest + 1) % n \in 0..(n - 1)
        BY <3>1, <4>1, SizesAre
      <4>3. oldest' = (oldest + 1) % n /\ held' = n
        BY <3>1, <3>2, <4>1, SizesAre
      <4>4. slots' = [slots EXCEPT ![k] = r]
        BY <3>2, <3>4
      <4>5. k \in 1..n
        <5>1. first + lft \in Int
          BY <3>1, <4>1, SizesAre
        <5> DEFINE j == first + lft
        <5> HIDE DEF j
        <5>2. j \in Int /\ n \in Nat /\ n > 0
          BY <3>1, <4>1, <5>1, SizesAre DEF j
        <5>3. (j % n) + 1 \in 1..n
          BY <5>2
        <5> QED
          BY <5>3 DEF j, k
      <4>6. slots' \in Seq(1..MaxSeq) /\ Len(slots') = n
        BY <1>2, <3>1, <4>4, <4>5, ExceptSeq DEF n
      <4> QED
        BY <3>1, <4>1, <4>2, <4>3, <4>6
    <3> QED
      BY <3>3, <3>4
  <2>2. seqNext' \in 1..(MaxSeq + 1) /\ counted' \in Nat
    BY <1>1, <1>2, SizesAre DEF r
  <2> QED
    BY <1>0, <1>1, <1>5, <2>1, <2>2 DEF JournalTypes
<1>8. LinesRise'
  <2>a. Less(disk.lines, r) /\ Less(write.lines, r)
    BY <1>0 DEF LinesRise, r
  <2>b. r \in Int /\ r + 1 \in Int /\ r <= r + 1
    BY <1>2
  <2>c. Less(disk.lines, r + 1) /\ Less(write.lines, r + 1)
    BY <1>2, <2>a, <2>b, LessStays
  <2>1. Less(disk.lines, r) /\ Less(write.lines, r) /\ Less(disk.lines, r + 1) /\ Less(write.lines, r + 1)
    BY <2>a, <2>c
  <2>2. ASSUME NEW i \in 1..Len(chain'), chain'[i] > 0
        PROVE  /\ chain'[i] < r + 1
               /\ Less(disk.lines, chain'[i]) /\ Less(write.lines, chain'[i])
               /\ \A k \in 1..(i - 1) : chain'[k] < chain'[i]
    <3>1. CASE i \in 1..m /\ chain'[i] = chain[i]
      <4>1. \A k \in 1..(i - 1) : k \in 1..m
        BY <1>2, <3>1
      <4>2. chain[i] < r /\ chain[i] \in Int
        BY <1>3, <2>2, <3>1
      <4>3. /\ Less(disk.lines, chain[i]) /\ Less(write.lines, chain[i])
            /\ \A k \in 1..(i - 1) : chain[k] < chain[i]
        BY <1>0, <2>2, <3>1 DEF LinesRise, m
      <4> QED
        BY <1>2, <1>5, <3>1, <4>1, <4>2, <4>3
    <3>2. CASE i = m + 1 /\ chain'[i] = r
      <4>1. \A k \in 1..(i - 1) : k \in 1..m
        BY <1>2, <3>2
      <4>2. \A k \in 1..m : chain[k] < r
        <5> TAKE k \in 1..m
        <5> QED
          BY <1>2, <1>3
      <4> QED
        BY <1>2, <1>5, <2>1, <3>2, <4>1, <4>2
    <3> QED
      BY <1>6, <2>2, <3>1, <3>2
  <2> QED
    BY <1>0, <1>1, <2>1, <2>2 DEF LinesRise, r
<1>9. ASSUME jstarts = 1, ~short PROVE CountIsEnough' /\ CompactComes'
  <2>0. CountIsEnough /\ CompactComes
    BY <1>0, <1>9 DEF CountHolds
  <2>1. ClearWaits' <=> ClearWaits
    <3>1. ASSUME NEW i \in 1..Len(chain'), chain'[i] = -1 PROVE ClearWaits
      BY <1>2, <1>6, <3>1 DEF ClearWaits, m
    <3>2. ASSUME NEW i \in 1..m, chain[i] = -1 PROVE \E j \in 1..Len(chain') : chain'[j] = -1
      <4>1. i \in 1..Len(chain') /\ chain'[i] = -1
        BY <1>2, <1>5, <3>2
      <4> QED
        BY <4>1
    <3> QED
      BY <3>1, <3>2 DEF ClearWaits, m
  <2>2. Coming' = Coming \cup {r} /\ r \notin Coming
    <3>1. \A i \in 1..m : i \in 1..Len(chain') /\ chain'[i] = chain[i] /\ i # m + 1 /\ ~(i > m)
      BY <1>2, <1>5
    <3>2. m + 1 \in 1..Len(chain') /\ \A k \in 1..Len(chain') : k > m + 1 => chain'[k] # -1
      <4>1. m + 1 \in 1..Len(chain')
        BY <1>2, <1>5
      <4>2. ASSUME NEW k \in 1..Len(chain'), k > m + 1 PROVE chain'[k] # -1
        <5>1. k = m + 2 /\ chain'[k] = -2
          BY <1>2, <1>6, <4>2
        <5> QED
          BY <5>1
      <4> QED
        BY <4>1, <4>2
    <3>3. ASSUME NEW x \in Coming' PROVE x \in Coming \cup {r}
      <4>1. PICK i \in 1..Len(chain') : chain'[i] = x /\ \A k \in 1..Len(chain') : k > i => chain'[k] # -1
        BY <3>3 DEF Coming
      <4>2. x \in 1..MaxSeq
        BY <3>3 DEF Coming
      <4>3. CASE i \in 1..m /\ chain'[i] = chain[i]
        <5>1. \A k \in 1..m : k > i => chain[k] # -1
          BY <3>1, <4>1
        <5> QED
          BY <4>1, <4>2, <4>3, <5>1 DEF Coming, m
      <4>4. CASE chain'[i] = -2
        BY <4>1, <4>2, <4>4
      <4> QED
        BY <1>6, <4>1, <4>3, <4>4
    <3>4. ASSUME NEW x \in Coming PROVE x \in Coming'
      <4>1. PICK i \in 1..m : chain[i] = x /\ \A k \in 1..m : k > i => chain[k] # -1
        BY <3>4 DEF Coming, m
      <4>2. ASSUME NEW k \in 1..Len(chain'), k > i PROVE chain'[k] # -1
        BY <1>2, <1>6, <4>1, <4>2
      <4>3. i \in 1..Len(chain') /\ chain'[i] = x /\ x \in 1..MaxSeq
        BY <3>1, <3>4, <4>1 DEF Coming
      <4> QED
        BY <4>2, <4>3 DEF Coming
    <3>5. r \in Coming'
      BY <1>2, <1>5, <3>2 DEF Coming
    <3>6. r \notin Coming
      BY <1>3 DEF Coming, m
    <3> QED
      BY <3>3, <3>4, <3>5, <3>6
  <2>3. Cardinality(Coming') = Cardinality(Coming) + 1 /\ Cardinality(Coming) \in Nat
    <3>1. IsFiniteSet(Coming) /\ Cardinality(Coming) \in Nat
      BY <1>2, ComingIs
    <3> QED
      BY <2>2, <3>1, FS_AddElement
  <2>4. LengthToBe' = LengthToBe /\ LengthToBe \in Nat /\ forgotten \in Nat
    <3>1. LengthToBe' = LengthToBe
      BY <1>1, <2>1 DEF LengthToBe
    <3> QED
      BY <1>0, <3>1, LengthIs DEF JournalTypes
  <2>5. CountIsEnough'
    <3>1. LengthToBe + (Cardinality(Coming) + 1) <= (counted + 1) + forgotten
      BY <1>2, <2>0, <2>3, <2>4 DEF CountIsEnough
    <3> QED
      BY <1>1, <2>3, <2>4, <3>1 DEF CountIsEnough
  <2>6. CompactComes'
    <3> SUFFICES ASSUME counted' > 2 * Persisted PROVE \E i \in 1..Len(chain') : chain'[i] = -2
      BY DEF CompactComes
    <3>1. m + 2 \in 1..Len(chain') /\ chain'[m + 2] = -2
      BY <1>2, <1>4, <1>5
    <3> QED
      BY <3>1
  <2> QED
    BY <2>5, <2>6
<1>10. CountHolds'
  BY <1>1, <1>9 DEF CountHolds
<1> QED
  BY <1>7, <1>8, <1>10 DEF JournalInv

(* A clear: the count is zero, and the file will be. *)
LEMMA ClearAgentKeeps == ASSUME JournalInv, ClearAgent PROVE JournalInv'
<1> DEFINE m == Len(chain)
<1>0. JournalTypes /\ LinesRise /\ CountHolds
  BY DEF JournalInv
<1>1. /\ clears < MaxClears /\ clears' = clears + 1 /\ slots' = <<>> /\ oldest' = 0 /\ held' = 0 /\ counted' = 0
      /\ chain' = Append(chain, -1)
      /\ seqNext' = seqNext /\ write' = write /\ disk' = disk /\ gone' = gone /\ forgotten' = forgotten
      /\ short' = short /\ jstarts' = jstarts
  BY DEF ClearAgent, Clear
<1>2. chain \in Seq(Chained) /\ m \in Nat /\ -1 \in Chained /\ forgotten \in Nat
  BY <1>0, LenProperties DEF JournalTypes, Chained
<1>3. /\ chain' \in Seq(Chained) /\ Len(chain') = m + 1 /\ (\A i \in 1..m : chain'[i] = chain[i]) /\ chain'[m + 1] = -1
  BY <1>1, <1>2, AppendProperties
<1> HIDE DEF m
<1>4. \A i \in 1..(m + 1) : i \in 1..m \/ i = m + 1
  BY <1>2
<1>5. m + 1 \in 1..(m + 1) /\ \A i \in 1..m : m + 1 > i
  BY <1>2
<1>6. JournalTypes'
  <2>1. clears' \in 0..MaxClears
    <3>1. clears \in 0..MaxClears
      BY <1>0 DEF JournalTypes
    <3> QED
      BY <1>1, <3>1, SizesAre
  <2>2. slots' \in Seq(1..MaxSeq) /\ Len(slots') = 0 /\ 0 \in 0..(BufferSize - 1) /\ 0 <= BufferSize
    BY <1>1, EmptySeq, SizesAre
  <2> QED
    BY <1>0, <1>1, <1>3, <2>1, <2>2 DEF JournalTypes
<1>7. LinesRise'
  <2>1. ASSUME NEW i \in 1..(m + 1), chain'[i] > 0
        PROVE  /\ chain'[i] < seqNext
               /\ Less(disk.lines, chain'[i]) /\ Less(write.lines, chain'[i])
               /\ \A k \in 1..(i - 1) : chain'[k] < chain'[i]
    <3>1. i \in 1..m /\ chain'[i] = chain[i]
      BY <1>3, <1>4, <2>1
    <3>2. \A k \in 1..(i - 1) : k \in 1..m
      BY <1>2, <3>1
    <3>3. /\ chain[i] < seqNext /\ Less(disk.lines, chain[i]) /\ Less(write.lines, chain[i])
          /\ \A k \in 1..(i - 1) : chain[k] < chain[i]
      BY <1>0, <2>1, <3>1 DEF LinesRise, m
    <3> QED
      BY <1>3, <3>1, <3>2, <3>3
  <2> QED
    BY <1>0, <1>1, <1>3, <2>1 DEF LinesRise
<1>8. CountIsEnough' /\ CompactComes'
  <2>1. ClearWaits'
    BY <1>3, <1>5 DEF ClearWaits
  <2>2. Coming' = {}
    <3> SUFFICES ASSUME NEW x \in Coming' PROVE FALSE
      OBVIOUS
    <3>1. PICK i \in 1..(m + 1) : chain'[i] = x /\ \A k \in 1..(m + 1) : k > i => chain'[k] # -1
      BY <1>3 DEF Coming
    <3>2. x \in 1..MaxSeq
      BY DEF Coming
    <3>3. i \in 1..m
      BY <1>3, <1>4, <3>1, <3>2
    <3> QED
      BY <1>3, <1>5, <3>1, <3>3
  <2>3. Cardinality(Coming') = 0
    BY <2>2, FS_EmptySet
  <2>4. LengthToBe' = 0
    BY <2>1 DEF LengthToBe
  <2> QED
    BY <1>1, <1>2, <2>3, <2>4, SizesAre DEF CountIsEnough, CompactComes
<1> QED
  BY <1>6, <1>7, <1>8 DEF JournalInv, CountHolds

(* Teardown compacts past the chain. *)
LEMMA TearDownKeeps == ASSUME JournalInv, TearDownJournal PROVE JournalInv'
<1>0. JournalTypes /\ LinesRise /\ CountHolds
  BY DEF JournalInv
<1>1. /\ gone' = TRUE
      /\ slots' = slots /\ oldest' = oldest /\ held' = held /\ seqNext' = seqNext /\ chain' = chain /\ write' = write
      /\ short' = short /\ jstarts' = jstarts /\ clears' = clears
      /\ \/ /\ Len(disk.lines) > Persisted /\ disk' = Whole(Newer(disk.lines, Persisted))
            /\ counted' = Persisted /\ forgotten' = Waiting
         \/ disk' = disk /\ counted' = counted /\ forgotten' = forgotten
  BY DEF TearDownJournal, buffer
<1>2. ClearWaits' <=> ClearWaits
  BY <1>1 DEF ClearWaits
<1>3. Coming' = Coming
  BY <1>1 DEF Coming
<1>4. CASE disk' = disk /\ counted' = counted /\ forgotten' = forgotten
  <2>1. JournalTypes' /\ LinesRise'
    BY <1>0, <1>1, <1>4 DEF JournalTypes, LinesRise
  <2>2. LengthToBe' = LengthToBe
    BY <1>1, <1>2, <1>4 DEF LengthToBe
  <2>3. CountHolds'
    BY <1>0, <1>1, <1>3, <1>4, <2>2 DEF CountHolds, CountIsEnough, CompactComes
  <2> QED
    BY <2>1, <2>3 DEF JournalInv
<1>5. CASE /\ Len(disk.lines) > Persisted /\ disk' = Whole(Newer(disk.lines, Persisted))
           /\ counted' = Persisted /\ forgotten' = Waiting
  <2> DEFINE t == Newer(disk.lines, Persisted)
  <2>1. disk.lines \in RecordLines /\ Rising(disk.lines) /\ chain \in Seq(Chained)
    BY <1>0 DEF JournalTypes, LinesRise, FileOfRecords
  <2>2. /\ t \in RecordLines /\ Rising(t) /\ Len(t) \in Nat /\ Len(t) <= Persisted
        /\ \A b : Less(disk.lines, b) => Less(t, b)
    BY <2>1, NewerRises, SizesAre
  <2> HIDE DEF t
  <2>3. disk'.lines = t /\ disk' \in FileOfRecords
    BY <1>5, <2>2 DEF Whole, FileOfRecords, t
  <2>4. Waiting \in Nat /\ Cardinality(Coming) + Appended <= Waiting /\ Cardinality(Coming) \in Nat
    BY <2>1, ComingIs DEF Appended
  <2>5. JournalTypes'
    BY <1>0, <1>1, <1>5, <2>3, <2>4, SizesAre DEF JournalTypes
  <2>6. LinesRise'
    BY <1>0, <1>1, <2>2, <2>3 DEF LinesRise
  <2>7. LengthToBe' <= Len(t) + Appended /\ LengthToBe' \in Nat
    <3>1. LengthToBe' = IF ClearWaits \/ write.how = "clear" THEN 0 ELSE Len(t) + Appended
      BY <1>1, <1>2, <2>3 DEF LengthToBe, Appended
    <3>2. Appended \in {0, 1}
      BY DEF Appended
    <3> QED
      BY <2>2, <3>1, <3>2
  <2>8. CountIsEnough'
    <3>1. Appended \in {0, 1}
      BY DEF Appended
    <3>2. LengthToBe' + Cardinality(Coming) <= Persisted + Waiting
      BY <2>2, <2>4, <2>7, <3>1, SizesAre
    <3> QED
      BY <1>3, <1>5, <3>2 DEF CountIsEnough
  <2>9. CompactComes'
    BY <1>5, SizesAre DEF CompactComes
  <2> QED
    BY <2>5, <2>6, <2>8, <2>9 DEF JournalInv, CountHolds
<1> QED
  BY <1>1, <1>4, <1>5

(* The chain goes on: what waited is under way. *)
LEMMA BeginOperationKeeps == ASSUME JournalInv, BeginOperation PROVE JournalInv'
<1> DEFINE n == Len(chain')
           h == Head(chain)
<1>0. JournalTypes /\ LinesRise /\ CountHolds
  BY DEF JournalInv
<1>a. write' = (CASE h = -1 -> [how |-> "clear", lines |-> <<>>]
                  [] h = -2 -> [how |-> "read", lines |-> <<>>]
                  [] OTHER -> Appending(h))
  BY DEF BeginOperation, Clear, Compact
<1>1. /\ write = NoWrite /\ chain # <<>> /\ chain' = Tail(chain)
      /\ slots' = slots /\ oldest' = oldest /\ held' = held /\ seqNext' = seqNext /\ counted' = counted /\ disk' = disk
      /\ gone' = gone /\ forgotten' = forgotten /\ short' = short /\ jstarts' = jstarts /\ clears' = clears
  BY DEF BeginOperation, buffer
<1>2. /\ chain \in Seq(Chained) /\ chain' \in Seq(Chained) /\ n \in Nat /\ Len(chain) = n + 1
      /\ \A i \in 1..n : chain'[i] = chain[i + 1]
      /\ h = chain[1] /\ h \in Chained
  <2>1. chain \in Seq(Chained)
    BY <1>0 DEF JournalTypes
  <2> QED
    BY <1>1, <2>1, HeadTailProperties, LenProperties
<1>3. /\ \A i \in 1..Len(chain) : /\ chain[i] \in Int
                                  /\ chain[i] > 0 => chain[i] \in 1..MaxSeq
                                  /\ chain[i] \notin {-1, -2} => chain[i] > 0
      /\ IsFiniteSet(Coming) /\ Cardinality(Coming) \in Nat
  BY <1>2, ComingIs
<1> HIDE DEF n, h
<1>4. /\ 1 \in 1..Len(chain) /\ \A i \in 1..n : i + 1 \in 1..Len(chain) /\ i + 1 > 1 /\ 1 \in 1..((i + 1) - 1)
      /\ \A i \in 1..Len(chain) : i = 1 \/ (i - 1 \in 1..n /\ (i - 1) + 1 = i)
  BY <1>2
<1>5. /\ h \in Int /\ (h = -1 \/ h = -2 \/ (h > 0 /\ h \in 1..MaxSeq))
      /\ \/ h = -1 /\ write'.how = "clear" /\ write'.lines = <<>>
         \/ h = -2 /\ write'.how = "read" /\ write'.lines = <<>>
         \/ h > 0 /\ write'.how = "append" /\ write'.lines = <<h>>
      /\ write'.how \in Hows /\ write' = [how |-> write'.how, lines |-> write'.lines]
  <2>1. h \in Int /\ (h = -1 \/ h = -2 \/ (h > 0 /\ h \in 1..MaxSeq))
    BY <1>2, <1>3, <1>4
  <2>2. CASE h = -1
    BY <1>a, <2>1, <2>2 DEF Hows
  <2>3. CASE h = -2
    BY <1>a, <2>1, <2>3 DEF Hows
  <2>4. CASE h > 0 /\ h \in 1..MaxSeq
    <3>1. h # -1 /\ h # -2
      BY <2>4
    <3>2. write' = [how |-> "append", lines |-> <<h>>]
      BY <1>a, <3>1 DEF Appending
    <3> QED
      BY <2>1, <2>4, <3>2 DEF Hows
  <2> QED
    BY <2>1, <2>2, <2>3, <2>4
<1>6. write'.lines \in RecordLines /\ (h > 0 => Len(write'.lines) = 1 /\ write'.lines[1] = h)
  <2>1. CASE write'.lines = <<>>
    BY <1>5, <2>1, EmptySeq DEF RecordLines
  <2>2. CASE h > 0 /\ write'.lines = <<h>>
    <3>1. h \in 0..MaxSeq
      BY <1>5, <2>2, SizesAre
    <3> QED
      BY <2>2, <3>1 DEF RecordLines
  <2> QED
    BY <1>5, <2>1, <2>2
<1>7. JournalTypes'
  <2>1. write' \in [how : Hows, lines : RecordLines]
    BY <1>5, <1>6
  <2>2. /\ write'.how = "append" => Len(write'.lines) = 1 /\ write'.lines[1] # 0
        /\ ~(write'.how \in {"rewrite", "truncated"})
        /\ write'.how \in {"clear", "none"} => write'.lines = <<>>
    BY <1>5, <1>6
  <2> QED
    BY <1>0, <1>1, <1>2, <2>1, <2>2 DEF JournalTypes
<1>8. /\ write.lines = <<>> /\ write.how = "none"
  BY <1>1 DEF NoWrite
<1>9. LinesRise'
  <2>1. h > 0 => h < seqNext /\ Less(disk.lines, h)
    BY <1>0, <1>2, <1>4 DEF LinesRise
  <2>2. ASSUME NEW b \in Int, h > 0 => h < b PROVE Less(write'.lines, b)
    <3>1. CASE write'.lines = <<>>
      BY <3>1, EmptySeq DEF Less
    <3>2. CASE h > 0 /\ write'.lines = <<h>>
      <4>1. Len(write'.lines) = 1 /\ write'.lines[1] = h
        BY <1>6, <3>2
      <4> QED
        BY <2>2, <3>2, <4>1 DEF Less
    <3> QED
      BY <1>5, <3>1, <3>2
  <2>3. Rising(write'.lines)
    <3>1. Len(write'.lines) = 0 \/ Len(write'.lines) = 1
      BY <1>5, <1>6, EmptySeq
    <3>2. \A i, k \in 1..Len(write'.lines) : ~(i < k)
      BY <3>1
    <3> QED
      BY <3>2 DEF Rising
  <2>4. Less(write'.lines, seqNext)
    BY <1>0, <2>1, <2>2 DEF JournalTypes
  <2>5. write'.how = "append" => Less(disk.lines, write'.lines[1])
    BY <1>5, <1>6, <2>1
  <2>6. ASSUME NEW i \in 1..n, chain'[i] > 0
        PROVE  /\ chain'[i] < seqNext
               /\ Less(disk.lines, chain'[i]) /\ Less(write'.lines, chain'[i])
               /\ \A k \in 1..(i - 1) : chain'[k] < chain'[i]
    <3>1. chain'[i] = chain[i + 1] /\ i + 1 \in 1..Len(chain) /\ chain[i + 1] \in Int
      BY <1>2, <1>3, <1>4
    <3>2. /\ chain[i + 1] < seqNext /\ Less(disk.lines, chain[i + 1])
          /\ \A k \in 1..((i + 1) - 1) : chain[k] < chain[i + 1]
      BY <1>0, <2>6, <3>1 DEF LinesRise
    <3>3. h < chain[i + 1]
      BY <1>2, <1>4, <3>2
    <3>4. Less(write'.lines, chain[i + 1])
      BY <2>2, <3>1, <3>3
    <3>5. \A k \in 1..(i - 1) : k \in 1..n /\ k + 1 \in 1..((i + 1) - 1)
      BY <1>2
    <3> QED
      BY <1>2, <3>1, <3>2, <3>4, <3>5
  <2> QED
    BY <1>0, <1>1, <2>3, <2>4, <2>5, <2>6 DEF LinesRise, n
<1>10. ClearWaits <=> (h = -1 \/ ClearWaits')
  <2>1. ASSUME NEW i \in 1..Len(chain), chain[i] = -1 PROVE h = -1 \/ ClearWaits'
    <3>1. CASE i = 1
      BY <1>2, <2>1, <3>1
    <3>2. CASE i # 1
      <4>1. i - 1 \in 1..n /\ chain'[i - 1] = -1
        BY <1>2, <1>4, <2>1, <3>2
      <4> QED
        BY <4>1 DEF ClearWaits, n
    <3> QED
      BY <3>1, <3>2
  <2>2. ASSUME NEW i \in 1..n, chain'[i] = -1 PROVE ClearWaits
    BY <1>2, <1>4, <2>2 DEF ClearWaits
  <2>3. h = -1 => ClearWaits
    BY <1>2, <1>4 DEF ClearWaits
  <2> QED
    BY <2>1, <2>2, <2>3 DEF ClearWaits, n
<1>11. Coming' \subseteq Coming
  <2> SUFFICES ASSUME NEW x \in Coming' PROVE x \in Coming
    OBVIOUS
  <2>1. x \in 1..MaxSeq
    BY DEF Coming
  <2>2. PICK i \in 1..n : chain'[i] = x /\ \A k \in 1..n : k > i => chain'[k] # -1
    BY DEF Coming, n
  <2>3. ASSUME NEW k \in 1..Len(chain), k > i + 1 PROVE chain[k] # -1
    <3>1. k - 1 \in 1..n /\ (k - 1) + 1 = k /\ k - 1 > i
      BY <1>2, <2>3
    <3> QED
      BY <1>2, <2>2, <3>1
  <2>4. i + 1 \in 1..Len(chain) /\ chain[i + 1] = x
    BY <1>2, <1>4, <2>2
  <2> QED
    BY <2>1, <2>3, <2>4 DEF Coming
<1>12. IsFiniteSet(Coming') /\ Cardinality(Coming') \in Nat /\ Cardinality(Coming') <= Cardinality(Coming)
  BY <1>3, <1>11, FS_Subset, FS_CardinalityType
<1>13. ASSUME h > 0, ~ClearWaits' PROVE Cardinality(Coming) = Cardinality(Coming') + 1
  <2>1. h \notin Coming'
    <3> SUFFICES ASSUME NEW i \in 1..n, chain'[i] = h PROVE FALSE
      BY DEF Coming, n
    <3>1. chain[i + 1] = h /\ i + 1 \in 1..Len(chain) /\ 1 \in 1..((i + 1) - 1)
      BY <1>2, <1>4
    <3>2. chain[1] < chain[i + 1]
      BY <1>0, <1>13, <3>1 DEF LinesRise
    <3> QED
      BY <1>2, <1>5, <3>1, <3>2
  <2>2. Coming = Coming' \cup {h}
    <3>1. h \in Coming
      <4>1. ~ClearWaits
        BY <1>10, <1>13
      <4> QED
        BY <1>2, <1>4, <1>5, <1>13, <4>1 DEF Coming, ClearWaits
    <3>2. ASSUME NEW x \in Coming, x # h PROVE x \in Coming'
      <4>1. x \in 1..MaxSeq
        BY DEF Coming
      <4>2. PICK i \in 1..Len(chain) : chain[i] = x /\ \A k \in 1..Len(chain) : k > i => chain[k] # -1
        BY DEF Coming
      <4>3. i - 1 \in 1..n /\ (i - 1) + 1 = i
        BY <1>2, <1>4, <3>2, <4>2
      <4>4. ASSUME NEW k \in 1..n, k > i - 1 PROVE chain'[k] # -1
        <5>1. k + 1 \in 1..Len(chain) /\ k + 1 > i
          BY <1>2, <4>4
        <5> QED
          BY <1>2, <4>2, <5>1
      <4>5. chain'[i - 1] = x
        BY <1>2, <4>2, <4>3
      <4> QED
        BY <4>1, <4>3, <4>4, <4>5 DEF Coming, n
    <3> QED
      BY <1>11, <3>1, <3>2
  <2> QED
    BY <1>12, <2>1, <2>2, FS_AddElement
<1>14. ASSUME jstarts = 1, ~short PROVE CountIsEnough' /\ CompactComes'
  <2>0. CountIsEnough /\ CompactComes
    BY <1>0, <1>14 DEF CountHolds
  <2>1. counted \in Nat /\ forgotten \in Nat /\ Len(disk.lines) \in Nat /\ LengthToBe \in Nat
    BY <1>0, LengthIs DEF JournalTypes
  <2>2. ASSUME h = -1 \/ ClearWaits' PROVE CountIsEnough'
    <3>0. ClearWaits' \/ write'.how = "clear"
      BY <1>5, <2>2
    <3>1. LengthToBe' = 0
      BY <3>0 DEF LengthToBe
    <3>2. 0 + Cardinality(Coming') <= counted + forgotten
      BY <1>3, <1>12, <2>0, <2>1 DEF CountIsEnough
    <3> QED
      BY <1>1, <3>1, <3>2 DEF CountIsEnough
  <2>3. ASSUME h = -2 /\ ~ClearWaits' PROVE CountIsEnough'
    <3>0. ~ClearWaits /\ ~ClearWaits' /\ write'.how = "read" /\ disk' = disk
      BY <1>1, <1>5, <1>10, <2>3
    <3>1. LengthToBe' = LengthToBe
      BY <1>8, <3>0 DEF LengthToBe
    <3>2. LengthToBe + Cardinality(Coming') <= counted + forgotten
      BY <1>3, <1>12, <2>0, <2>1 DEF CountIsEnough
    <3> QED
      BY <1>1, <3>1, <3>2 DEF CountIsEnough
  <2>4. ASSUME h > 0 /\ ~ClearWaits' PROVE CountIsEnough'
    <3>0. ~ClearWaits /\ ~ClearWaits' /\ write'.how = "append" /\ disk' = disk
      BY <1>1, <1>5, <1>10, <2>4
    <3>1. LengthToBe' = Len(disk.lines) + 1 /\ LengthToBe = Len(disk.lines) + 0
      BY <1>8, <3>0 DEF LengthToBe
    <3>2. (Len(disk.lines) + 1) + Cardinality(Coming') <= counted + forgotten
      BY <1>3, <1>12, <1>13, <2>0, <2>1, <2>4, <3>1 DEF CountIsEnough
    <3> QED
      BY <1>1, <3>1, <3>2 DEF CountIsEnough
  <2>5. CountIsEnough'
    BY <1>5, <2>2, <2>3, <2>4
  <2>6. CompactComes'
    <3> SUFFICES ASSUME counted > 2 * Persisted
                 PROVE  (\E i \in 1..n : chain'[i] = -2) \/ write'.how \in {"read", "rewrite", "truncated"}
      BY <1>1 DEF CompactComes, n
    <3>1. PICK i \in 1..Len(chain) : chain[i] = -2
      BY <1>8, <2>0 DEF CompactComes
    <3>2. CASE i = 1
      BY <1>2, <1>5, <3>1, <3>2
    <3>3. CASE i # 1
      <4>1. i - 1 \in 1..n /\ chain'[i - 1] = -2
        BY <1>2, <1>4, <3>1, <3>3
      <4> QED
        BY <4>1
    <3> QED
      BY <3>2, <3>3
  <2> QED
    BY <2>5, <2>6
<1> QED
  BY <1>1, <1>7, <1>9, <1>14 DEF JournalInv, CountHolds

(* A compaction reads: the count that it will set has forgotten what waits. *)
LEMMA CompactionReadsKeeps == ASSUME JournalInv, CompactionReads PROVE JournalInv'
<1> DEFINE t == Newer(disk.lines, Persisted)
<1>0. JournalTypes /\ LinesRise /\ CountHolds
  BY DEF JournalInv
<1>1. /\ write.how = "read" /\ write' = [how |-> "rewrite", lines |-> t]
      /\ slots' = slots /\ oldest' = oldest /\ held' = held /\ seqNext' = seqNext /\ counted' = counted /\ disk' = disk
      /\ gone' = gone /\ forgotten' = forgotten /\ short' = short /\ jstarts' = jstarts /\ clears' = clears /\ chain' = chain
  BY DEF CompactionReads, buffer, Rewriting
<1>2. disk.lines \in RecordLines /\ Rising(disk.lines)
  BY <1>0 DEF JournalTypes, LinesRise, FileOfRecords
<1>3. /\ t \in RecordLines /\ Rising(t) /\ Len(t) \in Nat /\ Len(t) <= Persisted
      /\ \A b : Less(disk.lines, b) => Less(t, b)
  BY <1>2, NewerRises, SizesAre
<1> HIDE DEF t
<1>4. write'.how = "rewrite" /\ write'.lines = t /\ write' \in [how : Hows, lines : RecordLines]
  BY <1>1, <1>3 DEF Hows
<1>5. JournalTypes'
  BY <1>0, <1>1, <1>3, <1>4 DEF JournalTypes
<1>6. LinesRise'
  BY <1>0, <1>1, <1>3, <1>4 DEF LinesRise
<1>7. (ClearWaits' <=> ClearWaits) /\ Coming' = Coming
  BY <1>1 DEF ClearWaits, Coming
<1>8. LengthToBe' = LengthToBe
  BY <1>1, <1>4, <1>7 DEF LengthToBe
<1>9. CountHolds'
  BY <1>0, <1>1, <1>4, <1>7, <1>8 DEF CountHolds, CountIsEnough, CompactComes
<1> QED
  BY <1>5, <1>6, <1>9 DEF JournalInv

(* A rewrite empties the file. *)
LEMMA FileTruncatedKeeps == ASSUME JournalInv, FileTruncated PROVE JournalInv'
<1>0. JournalTypes /\ LinesRise /\ CountHolds
  BY DEF JournalInv
<1>1. /\ write.how = "rewrite" /\ write' = [write EXCEPT !.how = "truncated"] /\ disk' = Whole(<<>>)
      /\ slots' = slots /\ oldest' = oldest /\ held' = held /\ seqNext' = seqNext /\ counted' = counted
      /\ gone' = gone /\ forgotten' = forgotten /\ short' = short /\ jstarts' = jstarts /\ clears' = clears /\ chain' = chain
  BY DEF FileTruncated, buffer
<1>2. write'.how = "truncated" /\ write'.lines = write.lines /\ write' \in [how : Hows, lines : RecordLines]
  BY <1>0, <1>1 DEF JournalTypes, Hows
<1>3. disk'.lines = <<>> /\ disk' \in FileOfRecords /\ Len(disk'.lines) = 0
  BY <1>1, EmptySeq DEF Whole, FileOfRecords, RecordLines
<1>4. Rising(disk'.lines) /\ \A b : Less(disk'.lines, b)
  BY <1>3 DEF Rising, Less
<1>5. JournalTypes'
  BY <1>0, <1>1, <1>2, <1>3 DEF JournalTypes
<1>6. LinesRise'
  BY <1>0, <1>1, <1>2, <1>4 DEF LinesRise
<1>7. (ClearWaits' <=> ClearWaits) /\ Coming' = Coming
  BY <1>1 DEF ClearWaits, Coming
<1>8. LengthToBe' = 0 /\ LengthToBe \in Nat
  <2>1. LengthToBe \in Nat
    BY <1>0, LengthIs
  <2>2. CASE ClearWaits'
    BY <2>1, <2>2 DEF LengthToBe
  <2>3. CASE ~ClearWaits'
    <3>1. LengthToBe' = Len(disk'.lines) + 0
      BY <1>2, <2>3 DEF LengthToBe
    <3> QED
      BY <1>3, <2>1, <3>1
  <2> QED
    BY <2>2, <2>3
<1>9. CountHolds'
  <2> SUFFICES ASSUME jstarts = 1, ~short PROVE CountIsEnough' /\ CompactComes'
    BY <1>1 DEF CountHolds
  <2>1. CountIsEnough /\ CompactComes /\ counted \in Nat /\ forgotten \in Nat /\ Cardinality(Coming) \in Nat
    BY <1>0, ComingIs DEF CountHolds, JournalTypes
  <2>2. 0 + Cardinality(Coming) <= counted + forgotten
    BY <1>8, <2>1 DEF CountIsEnough
  <2> QED
    BY <1>1, <1>2, <1>7, <1>8, <2>2 DEF CountIsEnough, CompactComes
<1> QED
  BY <1>5, <1>6, <1>9 DEF JournalInv

(* The disk refuses a write. *)
LEMMA WriteIsRefusedKeeps == ASSUME JournalInv, WriteIsRefused PROVE JournalInv'
<1>0. JournalTypes /\ LinesRise
  BY DEF JournalInv
<1>1. /\ short' = TRUE /\ write' = NoWrite
      /\ slots' = slots /\ oldest' = oldest /\ held' = held /\ seqNext' = seqNext /\ counted' = counted /\ disk' = disk
      /\ gone' = gone /\ forgotten' = forgotten /\ jstarts' = jstarts /\ clears' = clears /\ chain' = chain
  BY DEF WriteIsRefused, buffer
<1>2. write'.how = "none" /\ write'.lines = <<>> /\ write' \in [how : Hows, lines : RecordLines] /\ Len(write'.lines) = 0
  BY <1>1, EmptySeq DEF NoWrite, Hows, RecordLines
<1>3. Rising(write'.lines) /\ \A b : Less(write'.lines, b)
  BY <1>2 DEF Rising, Less
<1>4. JournalTypes'
  BY <1>0, <1>1, <1>2 DEF JournalTypes
<1>5. LinesRise'
  BY <1>0, <1>1, <1>2, <1>3 DEF LinesRise
<1> QED
  BY <1>1, <1>4, <1>5 DEF JournalInv, CountHolds

(* An append to the file adds one line at most, and it is the greatest. *)
LEMMA AddedIs ==
  ASSUME NEW f \in FileOfRecords, NEW x \in 1..MaxSeq, Rising(f.lines), Less(f.lines, x)
  PROVE  /\ Added(f, x) \in FileOfRecords /\ Rising(Added(f, x).lines)
         /\ Len(Added(f, x).lines) \in Nat /\ Len(f.lines) \in Nat /\ Len(Added(f, x).lines) <= Len(f.lines) + 1
         /\ \A b : Less(f.lines, b) /\ x < b => Less(Added(f, x).lines, b)
<1>1. f.lines \in RecordLines /\ x \in 0..MaxSeq /\ Len(f.lines) \in Nat
  BY LinesAre, SizesAre DEF FileOfRecords
<1>2. CASE f.torn
  <2>1. Added(f, x).lines = f.lines /\ Added(f, x) \in FileOfRecords
    BY <1>1, <1>2 DEF Added, Whole, FileOfRecords
  <2> QED
    BY <1>1, <2>1
<1>3. CASE ~f.torn
  <2>1. Added(f, x) = Whole(Append(f.lines, x))
    BY <1>3 DEF Added
  <2>2. /\ Append(f.lines, x) \in RecordLines /\ Rising(Append(f.lines, x)) /\ Len(Append(f.lines, x)) = Len(f.lines) + 1
        /\ \A b : Less(f.lines, b) /\ x < b => Less(Append(f.lines, x), b)
    BY <1>1, AppendRises
  <2>3. Added(f, x).lines = Append(f.lines, x) /\ Added(f, x) \in FileOfRecords
    BY <2>1, <2>2 DEF Whole, FileOfRecords
  <2> QED
    BY <1>1, <2>2, <2>3
<1> QED
  BY <1>2, <1>3

(* What an append under way will add. *)
LEMMA AppendingIs ==
  ASSUME JournalTypes, LinesRise, write.how = "append"
  PROVE  /\ write.lines[1] \in 1..MaxSeq /\ Less(disk.lines, write.lines[1]) /\ write.lines[1] < seqNext
         /\ \A b : Less(write.lines, b) => write.lines[1] < b
<1>1. Len(write.lines) = 1 /\ write.lines[1] # 0 /\ write.lines \in RecordLines
  BY DEF JournalTypes
<1>2. 1 \in 1..Len(write.lines)
  BY <1>1
<1> DEFINE x == write.lines[1]
<1>3. x \in 0..MaxSeq /\ x # 0
  BY <1>1, <1>2, LinesAre
<1>4. Less(disk.lines, x) /\ x < seqNext /\ \A b : Less(write.lines, b) => x < b
  BY <1>2 DEF LinesRise, Less
<1> HIDE DEF x
<1>5. x \in 1..MaxSeq
  BY <1>3, SizesAre
<1> QED
  BY <1>4, <1>5 DEF x

(* A write lands. *)
LEMMA WriteLandsKeeps == ASSUME JournalInv, WriteLands PROVE JournalInv'
<1> DEFINE x == write.lines[1]
<1>0. JournalTypes /\ LinesRise /\ CountHolds
  BY DEF JournalInv
<1>1. /\ write.how \in {"append", "clear", "truncated"} /\ disk' = Written(disk, write) /\ write' = NoWrite
      /\ short' = (short \/ (write.how = "append" /\ disk.torn))
      /\ \/ write.how = "truncated" /\ counted' = Len(write.lines) /\ forgotten' = Waiting
         \/ write.how # "truncated" /\ counted' = counted /\ forgotten' = forgotten
      /\ slots' = slots /\ oldest' = oldest /\ held' = held /\ seqNext' = seqNext
      /\ gone' = gone /\ jstarts' = jstarts /\ clears' = clears /\ chain' = chain
  BY DEF WriteLands, buffer
<1>2. /\ disk \in FileOfRecords /\ disk.lines \in RecordLines /\ write.lines \in RecordLines /\ chain \in Seq(Chained)
      /\ Rising(disk.lines) /\ Rising(write.lines) /\ Len(disk.lines) \in Nat /\ Len(write.lines) \in Nat
      /\ disk.torn \in BOOLEAN /\ short \in BOOLEAN /\ counted \in Nat /\ forgotten \in Nat
  BY <1>0, LinesAre DEF JournalTypes, LinesRise, FileOfRecords
<1>3. write.how = "append" => x \in 1..MaxSeq /\ Less(disk.lines, x) /\ x < seqNext /\ \A b : Less(write.lines, b) => x < b
  BY <1>0, AppendingIs
<1> HIDE DEF x
<1>4. /\ write.how = "append" => disk' = Added(disk, x)
      /\ write.how # "append" => disk' = Whole(write.lines)
  <2>1. CASE write.how = "append"
    BY <1>1, <2>1 DEF Written, x
  <2>2. CASE write.how \in {"clear", "truncated"}
    BY <1>1, <2>2 DEF Written
  <2> QED
    BY <1>1, <2>1, <2>2
<1>5. /\ disk' \in FileOfRecords /\ Rising(disk'.lines) /\ Len(disk'.lines) \in Nat
      /\ \A b : Less(disk.lines, b) /\ Less(write.lines, b) => Less(disk'.lines, b)
      /\ write.how = "append" => Len(disk'.lines) <= Len(disk.lines) + 1
      /\ write.how # "append" => disk'.lines = write.lines
  <2>1. CASE write.how = "append"
    BY <1>2, <1>3, <1>4, <2>1, AddedIs
  <2>2. CASE write.how # "append"
    <3>1. disk'.lines = write.lines /\ disk' \in FileOfRecords
      <4>1. disk' = [lines |-> write.lines, torn |-> FALSE] /\ write.lines \in RecordLines
        BY <1>2, <1>4, <2>2 DEF Whole
      <4> QED
        BY <4>1 DEF FileOfRecords
    <3> QED
      BY <1>2, <2>2, <3>1
  <2> QED
    BY <2>1, <2>2
<1>6. write'.how = "none" /\ write'.lines = <<>> /\ write' \in [how : Hows, lines : RecordLines] /\ Len(write'.lines) = 0
  BY <1>1, EmptySeq DEF NoWrite, Hows, RecordLines
<1>7. Rising(write'.lines) /\ \A b : Less(write'.lines, b)
  BY <1>6 DEF Rising, Less
<1>8. /\ IsFiniteSet(Coming) /\ Cardinality(Coming) \in Nat /\ Waiting \in Nat
      /\ Cardinality(Coming) + (IF write.how = "append" THEN 1 ELSE 0) <= Waiting
  BY <1>2, ComingIs
<1>9. JournalTypes'
  <2>1. counted' \in Nat /\ forgotten' \in Nat /\ short' \in BOOLEAN
    BY <1>1, <1>2, <1>8
  <2> QED
    BY <1>0, <1>1, <1>5, <1>6, <2>1 DEF JournalTypes
<1>10. LinesRise'
  <2>1. Less(disk'.lines, seqNext)
    BY <1>0, <1>5 DEF LinesRise
  <2>2. \A i \in 1..Len(chain) : chain[i] > 0 =>
         chain[i] < seqNext /\ Less(disk'.lines, chain[i]) /\ \A k \in 1..(i - 1) : chain[k] < chain[i]
    BY <1>0, <1>5 DEF LinesRise
  <2> QED
    BY <1>1, <1>5, <1>6, <1>7, <2>1, <2>2 DEF LinesRise
<1>11. (ClearWaits' <=> ClearWaits) /\ Coming' = Coming
  BY <1>1 DEF ClearWaits, Coming
<1>12. LengthToBe' \in Nat /\ (ClearWaits => LengthToBe' = 0) /\ (~ClearWaits => LengthToBe' = Len(disk'.lines))
  <2>1. CASE ClearWaits
    <3>1. LengthToBe' = 0
      BY <1>11, <2>1 DEF LengthToBe
    <3> QED
      BY <2>1, <3>1
  <2>2. CASE ~ClearWaits
    <3>1. LengthToBe' = Len(disk'.lines) + 0
      BY <1>6, <1>11, <2>2 DEF LengthToBe
    <3> QED
      BY <1>5, <2>2, <3>1
  <2> QED
    BY <2>1, <2>2
<1>13. ASSUME jstarts = 1, ~short PROVE CountIsEnough' /\ CompactComes'
  <2>0. LengthToBe + Cardinality(Coming) <= counted + forgotten /\ CompactComes
    BY <1>0, <1>13 DEF CountHolds, CountIsEnough
  <2>1. CASE write.how = "append"
    <3>1. LengthToBe' <= LengthToBe /\ LengthToBe \in Nat
      <4>1. CASE ClearWaits
        BY <1>0, <1>12, <4>1, LengthIs
      <4>2. CASE ~ClearWaits
        <5>1. LengthToBe = Len(disk.lines) + 1
          BY <2>1, <4>2 DEF LengthToBe
        <5> QED
          BY <1>2, <1>5, <1>12, <2>1, <4>2, <5>1
      <4> QED
        BY <4>1, <4>2
    <3>2. LengthToBe' + Cardinality(Coming) <= counted + forgotten
      BY <1>2, <1>8, <1>12, <2>0, <3>1
    <3>3. counted' = counted /\ forgotten' = forgotten
      BY <1>1, <2>1
    <3>4. CountIsEnough'
      BY <1>11, <3>2, <3>3 DEF CountIsEnough
    <3>5. CompactComes'
      BY <1>1, <2>0, <2>1, <3>3 DEF CompactComes
    <3> QED
      BY <3>4, <3>5
  <2>2. CASE write.how = "clear"
    <3>1. write.lines = <<>>
      BY <1>0, <2>2 DEF JournalTypes
    <3>2. Len(disk'.lines) = 0
      BY <1>5, <2>2, <3>1, EmptySeq
    <3>3. LengthToBe' = 0 /\ LengthToBe \in Nat
      BY <1>0, <1>12, <3>2, LengthIs
    <3>4. LengthToBe' + Cardinality(Coming) <= counted + forgotten
      BY <1>2, <1>8, <2>0, <3>3
    <3>5. counted' = counted /\ forgotten' = forgotten
      BY <1>1, <2>2
    <3>6. CountIsEnough'
      BY <1>11, <3>4, <3>5 DEF CountIsEnough
    <3>7. CompactComes'
      BY <1>1, <2>0, <2>2, <3>5 DEF CompactComes
    <3> QED
      BY <3>6, <3>7
  <2>3. CASE write.how = "truncated"
    <3>1. counted' = Len(write.lines) /\ forgotten' = Waiting /\ Len(write.lines) <= Persisted
      BY <1>0, <1>1, <2>3 DEF JournalTypes
    <3>2. Cardinality(Coming) + 0 <= Waiting
      BY <1>8, <2>3
    <3>3. LengthToBe' <= Len(write.lines)
      BY <1>2, <1>5, <1>12, <2>3
    <3>4. LengthToBe' + Cardinality(Coming) <= Len(write.lines) + Waiting
      BY <1>2, <1>8, <1>12, <3>2, <3>3
    <3>5. CountIsEnough'
      BY <1>11, <3>1, <3>4 DEF CountIsEnough
    <3>6. CompactComes'
      BY <1>2, <3>1, SizesAre DEF CompactComes
    <3> QED
      BY <3>5, <3>6
  <2> QED
    BY <1>1, <2>1, <2>2, <2>3
<1>14. CountHolds'
  <2> SUFFICES ASSUME jstarts = 1, ~short' PROVE CountIsEnough' /\ CompactComes'
    BY <1>1 DEF CountHolds
  <2>1. ~short
    BY <1>1
  <2> QED
    BY <1>13, <2>1
<1> QED
  BY <1>9, <1>10, <1>14 DEF JournalInv

(* What a kill leaves of the file ascends. *)
LEMMA LeftoversAre ==
  ASSUME JournalTypes, LinesRise, NEW f \in Leftovers(disk, write)
  PROVE  f \in FileOfRecords /\ Rising(f.lines)
<1>1. disk \in FileOfRecords /\ disk.lines \in RecordLines /\ Rising(disk.lines) /\ write.lines \in RecordLines /\ Rising(write.lines)
      /\ 0 \in 0..MaxSeq
  BY SizesAre DEF JournalTypes, LinesRise, FileOfRecords
<1>2. CASE write.how = "append"
  <2>1. \/ f = disk
        \/ f = Added(disk, write.lines[1])
        \/ f = [lines |-> Append(disk.lines, 0), torn |-> TRUE]
    BY <1>2 DEF Leftovers
  <2>2. Added(disk, write.lines[1]) \in FileOfRecords /\ Rising(Added(disk, write.lines[1]).lines)
    BY <1>1, <1>2, AppendingIs, AddedIs
  <2>3. Append(disk.lines, 0) \in RecordLines /\ Rising(Append(disk.lines, 0))
    BY <1>1, AppendRises
  <2>4. CASE f = [lines |-> Append(disk.lines, 0), torn |-> TRUE]
    BY <2>3, <2>4 DEF FileOfRecords
  <2> QED
    BY <1>1, <2>1, <2>2, <2>4
<1>3. CASE write.how = "truncated"
  <2>1. \/ f = Whole(write.lines)
        \/ \E n \in 0..(Len(write.lines) - 1) :
             \/ f = Whole(SubSeq(write.lines, 1, n))
             \/ f = [lines |-> Append(SubSeq(write.lines, 1, n), 0), torn |-> TRUE]
    BY <1>3 DEF Leftovers
  <2>2. CASE f = Whole(write.lines)
    BY <1>1, <2>2 DEF Whole, FileOfRecords
  <2>3. ASSUME NEW n \in 0..(Len(write.lines) - 1),
               \/ f = Whole(SubSeq(write.lines, 1, n))
               \/ f = [lines |-> Append(SubSeq(write.lines, 1, n), 0), torn |-> TRUE]
        PROVE  f \in FileOfRecords /\ Rising(f.lines)
    <3> DEFINE s == SubSeq(write.lines, 1, n)
    <3>1. s \in RecordLines /\ Rising(s)
      BY <1>1, BeginningRises
    <3>2. Append(s, 0) \in RecordLines /\ Rising(Append(s, 0))
      BY <1>1, <3>1, AppendRises
    <3>3. f = Whole(s) \/ f = [lines |-> Append(s, 0), torn |-> TRUE]
      BY <2>3
    <3> HIDE DEF s
    <3>4. CASE f = Whole(s)
      BY <3>1, <3>4 DEF Whole, FileOfRecords
    <3>5. CASE f = [lines |-> Append(s, 0), torn |-> TRUE]
      BY <3>2, <3>5 DEF FileOfRecords
    <3> QED
      BY <3>3, <3>4, <3>5
  <2> QED
    BY <2>1, <2>2, <2>3
<1>4. CASE write.how \notin {"append", "truncated"}
  <2>1. f = disk
    BY <1>4 DEF Leftovers
  <2> QED
    BY <1>1, <2>1
<1> QED
  BY <1>2, <1>3, <1>4

(* The process starts again. *)
LEMMA JRestartKeeps == ASSUME JournalInv, JRestart PROVE JournalInv'
<1>0. JournalTypes /\ LinesRise
  BY DEF JournalInv
<1>1. /\ jstarts < MaxJStarts /\ jstarts' = jstarts + 1 /\ disk' \in Leftovers(disk, write)
      /\ chain' = <<>> /\ write' = NoWrite /\ gone' = FALSE /\ forgotten' = 0 /\ short' = FALSE /\ clears' = clears
  BY DEF JRestart
<1>2. PICK expired \in 0..Persisted : LoadFrom(disk', expired)
  BY DEF JRestart
<1> DEFINE all == Readable(disk')
           recent == Newer(all, Persisted)
           window == SubSeq(recent, expired + 1, Len(recent))
<1>3. /\ expired \in 0..Len(recent)
      /\ slots' = Newer(window, BufferSize) /\ oldest' = 0 /\ held' = Len(slots')
      /\ seqNext' = 1 + Max(ToSet(all) \cup {0}) /\ counted' = Len(all)
  BY <1>2 DEF LoadFrom, SeedSeq
<1>4. disk' \in FileOfRecords /\ Rising(disk'.lines)
  BY <1>0, <1>1, LeftoversAre
<1>5. /\ all \in Seq(1..MaxSeq) /\ Len(all) \in Nat
      /\ \A i \in 1..Len(disk'.lines) : disk'.lines[i] # 0 => \E n \in 1..Len(all) : all[n] = disk'.lines[i]
  BY <1>4, ReadableIs
<1> HIDE DEF all
<1>6. recent \in Seq(1..MaxSeq) /\ Len(recent) \in Nat
  BY <1>5, NewerIs, LenProperties, SizesAre
<1> HIDE DEF recent
<1>7. window \in Seq(1..MaxSeq)
  <2>1. \A i \in (expired + 1)..Len(recent) : i \in 1..Len(recent)
    BY <1>6
  <2>2. \A i \in (expired + 1)..Len(recent) : recent[i] \in 1..MaxSeq
    BY <1>6, <2>1, ElementOfSeq
  <2>3. expired + 1 \in Int /\ Len(recent) \in Int
    BY <1>6
  <2> QED
    BY <2>2, <2>3, SubSeqProperties
<1> HIDE DEF window
<1>8. slots' \in Seq(1..MaxSeq) /\ Len(slots') <= BufferSize
  <2> DEFINE t == Newer(window, BufferSize)
  <2>1. BufferSize \in Nat
    BY SizesAre
  <2>2. t \in Seq(1..MaxSeq) /\ Len(window) \in Nat /\ Len(t) = (IF Len(window) > BufferSize THEN BufferSize ELSE Len(window))
    BY <1>7, <2>1, NewerIs
  <2>3. Len(t) <= BufferSize
    BY <2>1, <2>2
  <2> QED
    BY <1>3, <2>2, <2>3
<1>9. seqNext' \in 1..(MaxSeq + 1) /\ Less(disk'.lines, seqNext')
  <2> DEFINE S == ToSet(all) \cup {0}
             g == Max(S)
  <2>1. ToSet(all) = {all[n] : n \in 1..Len(all)} /\ \A n \in 1..Len(all) : all[n] \in 1..MaxSeq
    BY <1>5, LenProperties, ElementOfSeq DEF ToSet
  <2>2. S \in SUBSET (0..MaxSeq) /\ S # {} /\ 0 \in S
    BY <2>1, SizesAre
  <2>3. \A n \in 1..Len(all) : all[n] \in S
    BY <2>1
  <2> HIDE DEF S
  <2>4. g \in S /\ \A y \in S : y <= g
    BY <2>2, SizesAre, GreatestOf
  <2>5. seqNext' = 1 + g
    BY <1>3 DEF S
  <2> HIDE DEF g
  <2>6. g \in 0..MaxSeq
    BY <2>2, <2>4
  <2>7. ASSUME NEW i \in 1..Len(disk'.lines) PROVE disk'.lines[i] < 1 + g
    <3>1. disk'.lines[i] \in Nat
      BY <1>4, LinesAre DEF FileOfRecords
    <3>2. disk'.lines[i] \in S
      BY <1>5, <2>2, <2>3
    <3> QED
      BY <2>4, <2>6, <3>1, <3>2
  <2> QED
    BY <2>5, <2>6, <2>7, SizesAre DEF Less
<1>10. write'.how = "none" /\ write'.lines = <<>> /\ write' \in [how : Hows, lines : RecordLines] /\ Len(write'.lines) = 0
  BY <1>1, EmptySeq DEF NoWrite, Hows, RecordLines
<1>11. Rising(write'.lines) /\ \A b : Less(write'.lines, b)
  BY <1>10 DEF Rising, Less
<1>12. chain' \in Seq(Chained) /\ Len(chain') = 0
  BY <1>1, EmptySeq
<1>13. jstarts' \in 1..MaxJStarts /\ jstarts' # 1
  <2>1. jstarts \in 1..MaxJStarts
    BY <1>0 DEF JournalTypes
  <2> QED
    BY <1>1, <2>1, SizesAre
<1>14. JournalTypes'
  <2>1. oldest' \in 0..(BufferSize - 1) /\ held' = Len(slots') /\ counted' \in Nat /\ forgotten' \in Nat
    BY <1>1, <1>3, <1>5, SizesAre
  <2> QED
    BY <1>0, <1>1, <1>4, <1>8, <1>9, <1>10, <1>12, <1>13, <2>1 DEF JournalTypes
<1>15. LinesRise'
  BY <1>4, <1>9, <1>10, <1>11, <1>12 DEF LinesRise
<1> QED
  BY <1>13, <1>14, <1>15 DEF JournalInv, CountHolds

(* Every step keeps the journal's invariant. *)
LEMMA JournalKeeps ==
  ASSUME JournalInv, JNext \/ UNCHANGED jvars
  PROVE  JournalInv'
<1>1. CASE UNCHANGED jvars
  BY <1>1 DEF jvars, buffer, JournalInv, JournalTypes, LinesRise, CountHolds, CountIsEnough, CompactComes, LengthToBe,
              ClearWaits, Coming
<1> QED
  BY <1>1, RecordKeeps, ClearAgentKeeps, TearDownKeeps, BeginOperationKeeps, CompactionReadsKeeps, FileTruncatedKeeps,
     WriteLandsKeeps, WriteIsRefusedKeeps, JRestartKeeps DEF JNext

(***************************************************************************)
(* What the journal's file will have.                                      *)

(* The lines of the file once the write under way has landed, a compaction *)
(* that is about to read included; of them, those that no clear removes;   *)
(* and the records that will be among the lines when the chain has run, if *)
(* its compactions leave them.                                             *)
BegunOf(d, w) ==
  CASE w.how = "append" -> Append(d.lines, w.lines[1])
    [] w.how = "read"   -> Newer(d.lines, Persisted)
    [] w.how = "none"   -> d.lines
    [] OTHER            -> w.lines
BegunLines == BegunOf(disk, write)
Uncleared == IF ClearWaits THEN <<>> ELSE BegunLines
AtLast(r) == r \in Coming \/ \E i \in 1..Len(Uncleared) : Uncleared[i] = r
InSlots(r) == \E i \in 1..Len(slots) : slots[i] = r

(* The slots ascend from the oldest on, around.                            *)
RingRises ==
  /\ Len(slots) < BufferSize => oldest = 0
  /\ \A p, q \in 1..Len(slots) : p < q =>
       IF p <= oldest /\ oldest < q THEN slots[q] < slots[p] ELSE slots[p] < slots[q]
  /\ \A i \in 1..Len(slots) : slots[i] < seqNext

TornLine == disk.torn => Len(disk.lines) > 0 /\ disk.lines[Len(disk.lines)] = 0

(* What only one of the buffer and the file has is older than all that the *)
(* other has; and the file is not left with less than it may keep, if the  *)
(* buffer has that much.                                                   *)
BothEndAlike ==
  \A x, y \in 1..MaxSeq : AtLast(x) /\ InSlots(y) => (InSlots(x) \/ x < y) /\ (AtLast(y) \/ y < x)
EnoughIsLeft ==
  \/ Len(Uncleared) + Cardinality(Coming) >= Persisted
  \/ Len(Uncleared) + Cardinality(Coming) >= Len(slots)

JournalReplayInv == RingRises /\ TornLine /\ (~short => BothEndAlike /\ EnoughIsLeft)

(* One sequence is the end of another. *)
IsEnd(t, s) == Len(t) <= Len(s) /\ \A i \in 1..Len(t) : t[i] = s[i + (Len(s) - Len(t))]

(* The newest are the end. *)
LEMMA NewerIsEnd ==
  ASSUME NEW s \in RecordLines, NEW n \in Nat
  PROVE  /\ Newer(s, n) \in RecordLines /\ IsEnd(Newer(s, n), s) /\ Len(Newer(s, n)) \in Nat
         /\ Len(Newer(s, n)) = Len(s) \/ Len(Newer(s, n)) = n
<1> DEFINE t == Newer(s, n)
<1>1. /\ Len(s) \in Nat /\ t \in Seq(0..MaxSeq)
      /\ Len(t) = (IF Len(s) > n THEN n ELSE Len(s))
      /\ \A i \in 1..Len(t) : i + (Len(s) - Len(t)) \in 1..Len(s) /\ t[i] = s[i + (Len(s) - Len(t))]
  BY NewerIs DEF RecordLines
<1> HIDE DEF t
<1>2. Len(t) \in Nat /\ Len(t) <= Len(s) /\ (Len(t) = Len(s) \/ Len(t) = n)
  BY <1>1
<1> QED
  BY <1>1, <1>2 DEF t, IsEnd, RecordLines

(* So it is of the same line added to both. *)
LEMMA EndWithMore ==
  ASSUME NEW s \in RecordLines, NEW t \in RecordLines, NEW x \in 0..MaxSeq, IsEnd(t, s)
  PROVE  /\ IsEnd(Append(t, x), Append(s, x)) /\ Append(s, x) \in RecordLines /\ Append(t, x) \in RecordLines
         /\ Len(Append(s, x)) = Len(s) + 1 /\ Len(Append(t, x)) = Len(t) + 1
<1> DEFINE u == Append(s, x)
           v == Append(t, x)
           m == Len(s)
           n == Len(t)
<1>1. m \in Nat /\ n \in Nat /\ n <= m /\ \A i \in 1..n : t[i] = s[i + (m - n)]
  BY LinesAre DEF IsEnd
<1>2. /\ u \in RecordLines /\ Len(u) = m + 1 /\ (\A i \in 1..m : u[i] = s[i]) /\ u[m + 1] = x
      /\ v \in RecordLines /\ Len(v) = n + 1 /\ (\A i \in 1..n : v[i] = t[i]) /\ v[n + 1] = x
  BY AppendProperties DEF RecordLines
<1> HIDE DEF u, v, m, n
<1>3. ASSUME NEW i \in 1..(n + 1) PROVE v[i] = u[i + ((m + 1) - (n + 1))]
  <2>1. CASE i = n + 1
    <3>1. i + ((m + 1) - (n + 1)) = m + 1
      BY <1>1, <2>1
    <3> QED
      BY <1>2, <2>1, <3>1
  <2>2. CASE i # n + 1
    <3>1. i \in 1..n /\ i + (m - n) \in 1..m /\ i + ((m + 1) - (n + 1)) = i + (m - n)
      BY <1>1, <2>2
    <3> QED
      BY <1>1, <1>2, <3>1
  <2> QED
    BY <2>1, <2>2
<1>4. n + 1 <= m + 1
  BY <1>1
<1> QED
  BY <1>2, <1>3, <1>4 DEF u, v, m, n, IsEnd

(* What the end has the whole has; what only the whole has comes before.   *)
LEMMA EndIs ==
  ASSUME NEW s \in RecordLines, NEW t \in RecordLines, IsEnd(t, s), Rising(s)
  PROVE  /\ Len(s) \in Nat /\ Len(t) \in Nat
         /\ \A i \in 1..Len(t) : \E k \in 1..Len(s) : s[k] = t[i]
         /\ \A k \in 1..Len(s) : s[k] # 0 =>
              (\E i \in 1..Len(t) : t[i] = s[k]) \/ \A i \in 1..Len(t) : t[i] # 0 => s[k] < t[i]
<1> DEFINE m == Len(s)
           n == Len(t)
           d == m - n
<1>1. m \in Nat /\ n \in Nat /\ n <= m /\ \A i \in 1..n : t[i] = s[i + d]
  BY LinesAre DEF IsEnd
<1>2. \A i, k \in 1..m : i < k /\ s[i] # 0 /\ s[k] # 0 => s[i] < s[k]
  BY DEF Rising
<1> HIDE DEF m, n
<1>3. \A i \in 1..n : i + d \in 1..m
  BY <1>1
<1>4. ASSUME NEW k \in 1..m, s[k] # 0 PROVE (\E i \in 1..n : t[i] = s[k]) \/ \A i \in 1..n : t[i] # 0 => s[k] < t[i]
  <2>1. CASE k > d
    <3>1. k - d \in 1..n /\ (k - d) + d = k
      BY <1>1, <2>1
    <3> QED
      BY <1>1, <3>1
  <2>2. CASE ~(k > d)
    <3> SUFFICES ASSUME NEW i \in 1..n, t[i] # 0 PROVE s[k] < t[i]
      OBVIOUS
    <3>1. i + d \in 1..m /\ k < i + d
      BY <1>1, <1>3, <2>2
    <3> QED
      BY <1>1, <1>2, <1>4, <3>1
  <2> QED
    BY <2>1, <2>2
<1> HIDE DEF d
<1> QED
  BY <1>1, <1>3, <1>4 DEF m, n

(* The lines begun are lines, ascend, and are older than what waits.       *)
LEMMA BegunIs ==
  ASSUME JournalTypes, LinesRise
  PROVE  /\ BegunLines \in RecordLines /\ Rising(BegunLines) /\ Less(BegunLines, seqNext)
         /\ \A i \in 1..Len(chain) : chain[i] > 0 => Less(BegunLines, chain[i])
         /\ Uncleared \in RecordLines /\ Rising(Uncleared) /\ Less(Uncleared, seqNext)
         /\ Len(Uncleared) \in Nat
         /\ \A i \in 1..Len(chain) : chain[i] > 0 => Less(Uncleared, chain[i])
<1>1. /\ disk.lines \in RecordLines /\ write.lines \in RecordLines /\ Rising(disk.lines) /\ Rising(write.lines)
      /\ Less(disk.lines, seqNext) /\ Less(write.lines, seqNext)
      /\ \A i \in 1..Len(chain) : chain[i] > 0 => Less(disk.lines, chain[i]) /\ Less(write.lines, chain[i])
  BY DEF JournalTypes, LinesRise, FileOfRecords
<1> DEFINE b == BegunLines
           Good(t) == /\ t \in RecordLines /\ Rising(t) /\ Less(t, seqNext)
                      /\ \A i \in 1..Len(chain) : chain[i] > 0 => Less(t, chain[i])
<1>2. ASSUME write.how = "append" PROVE Good(b)
  <2> DEFINE x == write.lines[1]
  <2>1. /\ x \in 1..MaxSeq /\ Less(disk.lines, x) /\ x < seqNext
        /\ \A c : Less(write.lines, c) => x < c
    BY <1>2, AppendingIs
  <2>2. x \in 0..MaxSeq
    BY <2>1, SizesAre
  <2>3. b = Append(disk.lines, x)
    BY <1>2 DEF BegunLines, BegunOf
  <2> HIDE DEF x, b
  <2>4. /\ Append(disk.lines, x) \in RecordLines /\ Rising(Append(disk.lines, x))
        /\ \A c : Less(disk.lines, c) /\ x < c => Less(Append(disk.lines, x), c)
    BY <1>1, <2>1, <2>2, AppendRises
  <2> QED
    BY <1>1, <2>1, <2>3, <2>4
<1>3. ASSUME write.how = "read" PROVE Good(b)
  <2>1. b = Newer(disk.lines, Persisted)
    BY <1>3 DEF BegunLines, BegunOf
  <2> HIDE DEF b
  <2>2. /\ Newer(disk.lines, Persisted) \in RecordLines /\ Rising(Newer(disk.lines, Persisted))
        /\ \A c : Less(disk.lines, c) => Less(Newer(disk.lines, Persisted), c)
    BY <1>1, SizesAre, NewerRises
  <2> QED
    BY <1>1, <2>1, <2>2
<1>4. ASSUME write.how = "none" PROVE Good(b)
  <2>1. b = disk.lines
    BY <1>4 DEF BegunLines, BegunOf
  <2> QED
    BY <1>1, <2>1
<1>5. ASSUME write.how \notin {"append", "read", "none"} PROVE Good(b)
  <2>1. b = write.lines
    BY <1>5 DEF BegunLines, BegunOf
  <2> QED
    BY <1>1, <2>1
<1>6. Good(b)
  BY <1>2, <1>3, <1>4, <1>5
<1>7. Good(<<>>)
  <2>1. <<>> \in RecordLines /\ Len(<<>>) = 0
    BY EmptySeq DEF RecordLines
  <2> QED
    BY <2>1 DEF Rising, Less
<1>8. Good(Uncleared)
  BY <1>6, <1>7 DEF Uncleared
<1>9. Len(Uncleared) \in Nat
  BY <1>8, LinesAre
<1> QED
  BY <1>6, <1>8, <1>9

(* The records that are to come are later than those begun.                *)
LEMMA ComingIsLate ==
  ASSUME JournalTypes, LinesRise
  PROVE  /\ \A r \in Coming : r \in 1..MaxSeq /\ r < seqNext /\ \A i \in 1..Len(Uncleared) : Uncleared[i] < r
         /\ \A r \in 1..MaxSeq : AtLast(r) => r < seqNext
<1>1. \A r \in Coming : r \in 1..MaxSeq /\ \E i \in 1..Len(chain) : chain[i] = r /\ chain[i] > 0
  BY DEF Coming
<1>2. \A r \in Coming : r < seqNext
  BY <1>1 DEF LinesRise
<1>3. \A r \in Coming : \A i \in 1..Len(Uncleared) : Uncleared[i] < r
  BY <1>1, BegunIs DEF Less
<1>4. \A i \in 1..Len(Uncleared) : Uncleared[i] < seqNext
  BY BegunIs DEF Less
<1> QED
  BY <1>1, <1>2, <1>3, <1>4 DEF AtLast

(* A step that leaves the end of what was there, enough of it, changes     *)
(* nothing.                                                                *)
LEMMA EndStays ==
  ASSUME JournalTypes, LinesRise, BothEndAlike, EnoughIsLeft,
         slots' = slots, Coming' = Coming, Uncleared' \in RecordLines, IsEnd(Uncleared', Uncleared),
         Len(Uncleared') = Len(Uncleared) \/ Len(Uncleared') >= Persisted
  PROVE  BothEndAlike' /\ EnoughIsLeft'
<1> DEFINE u == Uncleared
           v == Uncleared'
<1>1. /\ u \in RecordLines /\ Rising(u) /\ v \in RecordLines /\ IsEnd(v, u)
      /\ \A r \in Coming : \A i \in 1..Len(u) : u[i] < r
  BY BegunIs, ComingIsLate
<1>2. \A r : (AtLast(r))' <=> (r \in Coming \/ \E i \in 1..Len(v) : v[i] = r)
  BY DEF AtLast
<1>3. \A r : AtLast(r) <=> (r \in Coming \/ \E i \in 1..Len(u) : u[i] = r)
  BY DEF AtLast
<1> HIDE DEF u, v
<1>4. /\ Len(u) \in Nat /\ Len(v) \in Nat
      /\ \A i \in 1..Len(v) : \E k \in 1..Len(u) : u[k] = v[i]
      /\ \A k \in 1..Len(u) : u[k] # 0 =>
           (\E i \in 1..Len(v) : v[i] = u[k]) \/ \A i \in 1..Len(v) : v[i] # 0 => u[k] < v[i]
  BY <1>1, EndIs
<1>5. BothEndAlike'
  <2> SUFFICES ASSUME NEW x \in 1..MaxSeq, NEW y \in 1..MaxSeq, (AtLast(x))', (InSlots(y))'
               PROVE  ((InSlots(x))' \/ x < y) /\ ((AtLast(y))' \/ y < x)
    BY DEF BothEndAlike
  <2>1. \A r : (InSlots(r))' <=> InSlots(r)
    BY DEF InSlots
  <2>2. AtLast(x)
    BY <1>2, <1>3, <1>4
  <2>3. (InSlots(x) \/ x < y) /\ (AtLast(y) \/ y < x)
    BY <2>1, <2>2 DEF BothEndAlike
  <2>4. ASSUME AtLast(y), ~(AtLast(y))' PROVE y < x
    <3>1. PICK k \in 1..Len(u) : u[k] = y
      BY <1>2, <1>3, <2>4
    <3>2. y # 0 /\ x # 0
      BY SizesAre
    <3>3. ~(\E i \in 1..Len(v) : v[i] = y) /\ \A i \in 1..Len(v) : v[i] # 0 => y < v[i]
      BY <1>2, <1>4, <2>4, <3>1, <3>2
    <3>4. x \in Coming \/ \E i \in 1..Len(v) : v[i] = x
      BY <1>2
    <3> QED
      BY <1>1, <3>1, <3>2, <3>3, <3>4
  <2> QED
    BY <2>1, <2>3, <2>4
<1>6. EnoughIsLeft'
  <2> DEFINE c == Cardinality(Coming)
  <2>1. c \in Nat /\ Persisted \in Nat
    BY ComingIs, SizesAre DEF JournalTypes
  <2>2. Len(u) + c >= Persisted \/ Len(u) + c >= Len(slots)
    BY DEF EnoughIsLeft, u
  <2> HIDE DEF c
  <2>3. Len(v) = Len(u) \/ Len(v) >= Persisted
    BY DEF u, v
  <2>4. Len(v) + c >= Persisted \/ Len(v) + c >= Len(slots)
    BY <1>4, <2>1, <2>2, <2>3
  <2> QED
    BY <2>4 DEF EnoughIsLeft, v, c
<1> QED
  BY <1>5, <1>6

(* The same lines are an end.                                              *)
LEMMA SameIsEnd == ASSUME NEW s \in RecordLines PROVE IsEnd(s, s) /\ Len(s) \in Nat
<1>1. Len(s) \in Nat
  BY LinesAre
<1>2. \A i \in 1..Len(s) : i + (Len(s) - Len(s)) = i
  BY <1>1
<1> QED
  BY <1>1, <1>2 DEF IsEnd

(* Of the chain, if it is the same, the same is to come.                   *)
LEMMA SameChain ==
  ASSUME chain' = chain
  PROVE  /\ Coming' = Coming /\ (ClearWaits' <=> ClearWaits)
         /\ Uncleared' = IF ClearWaits THEN <<>> ELSE BegunLines'
BY DEF Coming, ClearWaits, Uncleared

(* Teardown cuts the file at its beginning.                                *)
LEMMA TearDownReplays ==
  ASSUME JournalInv, JournalReplayInv, TearDownJournal
  PROVE  JournalReplayInv'
<1>0. JournalTypes /\ LinesRise
  BY DEF JournalInv
<1>1. /\ slots' = slots /\ oldest' = oldest /\ held' = held /\ seqNext' = seqNext /\ chain' = chain /\ write' = write
      /\ short' = short
      /\ \/ disk' = Whole(Newer(disk.lines, Persisted))
         \/ disk' = disk
  BY DEF TearDownJournal, buffer
<1> DEFINE t == Newer(disk.lines, Persisted)
<1>2. disk.lines \in RecordLines /\ Persisted \in Nat
  BY <1>0, SizesAre DEF JournalTypes, FileOfRecords
<1>3. /\ t \in RecordLines /\ IsEnd(t, disk.lines) /\ Len(t) \in Nat
      /\ Len(t) = Len(disk.lines) \/ Len(t) = Persisted
  BY <1>2, NewerIsEnd
<1>4. ~(Len(t) > Persisted) => Newer(t, Persisted) = t
  BY DEF Newer
<1>5. RingRises'
  BY <1>1 DEF JournalReplayInv, RingRises
<1>6. TornLine'
  BY <1>1 DEF JournalReplayInv, TornLine, Whole
<1>7. ASSUME ~short PROVE BothEndAlike' /\ EnoughIsLeft'
  <2>1. BothEndAlike /\ EnoughIsLeft
    BY <1>7 DEF JournalReplayInv
  <2>2. BegunLines \in RecordLines /\ <<>> \in RecordLines /\ Uncleared = (IF ClearWaits THEN <<>> ELSE BegunLines)
    BY <1>0, BegunIs, EmptySeq DEF RecordLines, Uncleared
  <2>3. /\ BegunLines' \in RecordLines /\ IsEnd(BegunLines', BegunLines)
        /\ Len(BegunLines') = Len(BegunLines) \/ Len(BegunLines') >= Persisted
    <3>1. CASE disk' = disk
      BY <1>1, <2>2, <3>1, SameIsEnd DEF BegunLines
    <3>2. CASE disk' = Whole(t)
      <4>1. disk'.lines = t
        BY <3>2 DEF Whole
      <4> HIDE DEF t
      <4>2. CASE write.how = "append"
        <5> DEFINE x == write.lines[1]
        <5>1. x \in 0..MaxSeq
          BY <1>0, <4>2, AppendingIs, SizesAre
        <5>2. BegunLines = Append(disk.lines, x) /\ BegunLines' = Append(t, x)
          BY <1>1, <4>1, <4>2 DEF BegunLines, BegunOf
        <5> HIDE DEF x
        <5>3. /\ IsEnd(Append(t, x), Append(disk.lines, x)) /\ Append(t, x) \in RecordLines
              /\ Len(Append(disk.lines, x)) = Len(disk.lines) + 1 /\ Len(Append(t, x)) = Len(t) + 1
          BY <1>2, <1>3, <5>1, EndWithMore
        <5>4. Len(t) + 1 = Len(disk.lines) + 1 \/ Len(t) + 1 >= Persisted
          BY <1>2, <1>3
        <5> QED
          BY <5>2, <5>3, <5>4
      <4>3. CASE write.how = "none"
        <5>1. BegunLines = disk.lines /\ BegunLines' = t
          BY <1>1, <4>1, <4>3 DEF BegunLines, BegunOf
        <5> QED
          BY <1>2, <1>3, <5>1
      <4>4. CASE write.how = "read"
        <5>1. BegunLines = t /\ BegunLines' = Newer(t, Persisted)
          BY <1>1, <4>1, <4>4 DEF BegunLines, BegunOf, t
        <5>2. /\ Newer(t, Persisted) \in RecordLines /\ IsEnd(Newer(t, Persisted), t)
              /\ Len(Newer(t, Persisted)) \in Nat
              /\ Len(Newer(t, Persisted)) = Len(t) \/ Len(Newer(t, Persisted)) = Persisted
          BY <1>2, <1>3, NewerIsEnd
        <5> QED
          BY <1>2, <5>1, <5>2
      <4>5. CASE write.how \notin {"append", "none", "read"}
        <5>1. BegunLines' = BegunLines
          BY <1>1, <4>5 DEF BegunLines, BegunOf
        <5> QED
          BY <2>2, <5>1, SameIsEnd
      <4> QED
        BY <4>2, <4>3, <4>4, <4>5
    <3> QED
      BY <1>1, <3>1, <3>2
  <2> HIDE DEF t
  <2>4. /\ Uncleared' \in RecordLines /\ IsEnd(Uncleared', Uncleared)
        /\ Len(Uncleared') = Len(Uncleared) \/ Len(Uncleared') >= Persisted
    BY <1>1, <2>2, <2>3, SameChain, SameIsEnd
  <2> QED
    BY <1>0, <1>1, <2>1, <2>4, SameChain, EndStays
<1> QED
  BY <1>1, <1>5, <1>6, <1>7 DEF JournalReplayInv

(* What the compaction and the disk do leaves what was begun.              *)
LEMMA JournalDiskReplays ==
  ASSUME JournalInv, JournalReplayInv, CompactionReads \/ FileTruncated \/ WriteLands \/ WriteIsRefused
  PROVE  JournalReplayInv'
<1>0. JournalTypes /\ LinesRise
  BY DEF JournalInv
<1>1. /\ slots' = slots /\ oldest' = oldest /\ held' = held /\ seqNext' = seqNext /\ chain' = chain
  BY DEF CompactionReads, FileTruncated, WriteLands, WriteIsRefused, buffer
<1>2. RingRises'
  BY <1>1 DEF JournalReplayInv, RingRises
<1>3. ASSUME TornLine', ~short' => ~short /\ BegunLines' = BegunLines PROVE JournalReplayInv'
  <2> SUFFICES ASSUME ~short' PROVE BothEndAlike' /\ EnoughIsLeft'
    BY <1>2, <1>3 DEF JournalReplayInv
  <2>1. BothEndAlike /\ EnoughIsLeft
    BY <1>3 DEF JournalReplayInv
  <2>2. Uncleared \in RecordLines /\ Uncleared' = Uncleared
    BY <1>0, <1>1, <1>3, BegunIs, SameChain DEF Uncleared
  <2>3. IsEnd(Uncleared', Uncleared)
    BY <2>2, SameIsEnd
  <2> QED
    BY <1>0, <1>1, <2>1, <2>2, <2>3, SameChain, EndStays
<1>4. CASE CompactionReads
  <2>1. write.how = "read" /\ write' = Rewriting(Newer(disk.lines, Persisted)) /\ disk' = disk /\ short' = short
    BY <1>4 DEF CompactionReads
  <2>2. write'.how = "rewrite" /\ write'.lines = Newer(disk.lines, Persisted)
    BY <2>1 DEF Rewriting
  <2>3. BegunLines' = BegunLines
    BY <2>1, <2>2 DEF BegunLines, BegunOf
  <2>4. TornLine'
    BY <2>1 DEF JournalReplayInv, TornLine
  <2> QED
    BY <1>3, <2>1, <2>3, <2>4
<1>5. CASE FileTruncated
  <2>1. write.how = "rewrite" /\ write' = [write EXCEPT !.how = "truncated"] /\ disk' = Whole(<<>>) /\ short' = short
    BY <1>5 DEF FileTruncated
  <2>2. write'.how = "truncated" /\ write'.lines = write.lines
    BY <1>0, <2>1 DEF JournalTypes
  <2>3. BegunLines' = BegunLines
    BY <2>1, <2>2 DEF BegunLines, BegunOf
  <2>4. TornLine'
    BY <2>1 DEF TornLine, Whole
  <2> QED
    BY <1>3, <2>1, <2>3, <2>4
<1>6. CASE WriteLands
  <2>1. /\ write.how \in {"append", "clear", "truncated"} /\ disk' = Written(disk, write) /\ write' = NoWrite
        /\ short' = (short \/ (write.how = "append" /\ disk.torn))
    BY <1>6 DEF WriteLands
  <2>2. write'.how = "none"
    BY <2>1 DEF NoWrite
  <2>3. BegunLines' = disk'.lines
    BY <2>2 DEF BegunLines, BegunOf
  <2>4. TornLine'
    <3>1. ~disk'.torn
      BY <2>1 DEF Written, Added, Whole
    <3> QED
      BY <3>1 DEF TornLine
  <2>5. ASSUME ~short' PROVE ~short /\ BegunLines' = BegunLines
    <3>1. ~short /\ ~(write.how = "append" /\ disk.torn)
      BY <2>1, <2>5
    <3>2. CASE write.how = "append"
      <4>1. disk' = Whole(Append(disk.lines, write.lines[1]))
        BY <2>1, <3>1, <3>2 DEF Written, Added
      <4>2. disk'.lines = Append(disk.lines, write.lines[1])
        BY <4>1 DEF Whole
      <4> QED
        BY <2>3, <3>1, <3>2, <4>2 DEF BegunLines, BegunOf
    <3>3. CASE write.how \in {"clear", "truncated"}
      <4>1. disk' = Whole(write.lines)
        BY <2>1, <3>3 DEF Written
      <4>2. disk'.lines = write.lines
        BY <4>1 DEF Whole
      <4>3. BegunLines = write.lines
        BY <3>3 DEF BegunLines, BegunOf
      <4> QED
        BY <2>3, <3>1, <4>2, <4>3
    <3> QED
      BY <2>1, <3>2, <3>3
  <2> QED
    BY <1>3, <2>4, <2>5
<1>7. CASE WriteIsRefused
  <2>1. short' = TRUE /\ disk' = disk
    BY <1>7 DEF WriteIsRefused
  <2>2. TornLine'
    BY <2>1 DEF JournalReplayInv, TornLine
  <2> QED
    BY <1>3, <2>1, <2>2
<1> QED
  BY <1>4, <1>5, <1>6, <1>7

(* What the head of the chain leaves to come when it is begun.             *)
LEMMA ChainBegins ==
  ASSUME JournalTypes, LinesRise, BeginOperation
  PROVE  LET h == Head(chain) IN
         /\ write.how = "none" /\ disk' = disk /\ short' = short /\ seqNext' = seqNext
         /\ slots' = slots /\ oldest' = oldest /\ held' = held
         /\ \/ h = -1 /\ write'.how = "clear" /\ write'.lines = <<>>
            \/ h = -2 /\ write'.how = "read"
            \/ h > 0 /\ h \in 1..MaxSeq /\ write'.how = "append" /\ write'.lines[1] = h
         /\ ClearWaits <=> (h = -1 \/ ClearWaits')
         /\ h = -1 \/ h = -2 \/ ClearWaits' => Coming' = Coming
         /\ h > 0 /\ ~ClearWaits' => Coming = Coming' \cup {h} /\ h \notin Coming'
         /\ IsFiniteSet(Coming') /\ Cardinality(Coming') \in Nat /\ Cardinality(Coming) \in Nat
<1> DEFINE n == Len(chain')
           h == Head(chain)
<1>0. JournalTypes /\ LinesRise
  OBVIOUS
<1>a. write' = (CASE h = -1 -> [how |-> "clear", lines |-> <<>>]
                  [] h = -2 -> [how |-> "read", lines |-> <<>>]
                  [] OTHER -> Appending(h))
  BY DEF BeginOperation, Clear, Compact
<1>1. /\ write = NoWrite /\ chain # <<>> /\ chain' = Tail(chain)
      /\ slots' = slots /\ oldest' = oldest /\ held' = held /\ seqNext' = seqNext /\ counted' = counted /\ disk' = disk
      /\ gone' = gone /\ forgotten' = forgotten /\ short' = short /\ jstarts' = jstarts /\ clears' = clears
  BY DEF BeginOperation, buffer
<1>2. /\ chain \in Seq(Chained) /\ chain' \in Seq(Chained) /\ n \in Nat /\ Len(chain) = n + 1
      /\ \A i \in 1..n : chain'[i] = chain[i + 1]
      /\ h = chain[1] /\ h \in Chained
  <2>1. chain \in Seq(Chained)
    BY <1>0 DEF JournalTypes
  <2> QED
    BY <1>1, <2>1, HeadTailProperties, LenProperties
<1>3. /\ \A i \in 1..Len(chain) : /\ chain[i] \in Int
                                  /\ chain[i] > 0 => chain[i] \in 1..MaxSeq
                                  /\ chain[i] \notin {-1, -2} => chain[i] > 0
      /\ IsFiniteSet(Coming) /\ Cardinality(Coming) \in Nat
  BY <1>2, ComingIs
<1> HIDE DEF n, h
<1>4. /\ 1 \in 1..Len(chain) /\ \A i \in 1..n : i + 1 \in 1..Len(chain) /\ i + 1 > 1 /\ 1 \in 1..((i + 1) - 1)
      /\ \A i \in 1..Len(chain) : i = 1 \/ (i - 1 \in 1..n /\ (i - 1) + 1 = i)
  BY <1>2
<1>5. /\ h \in Int /\ (h = -1 \/ h = -2 \/ (h > 0 /\ h \in 1..MaxSeq))
      /\ \/ h = -1 /\ write'.how = "clear" /\ write'.lines = <<>>
         \/ h = -2 /\ write'.how = "read" /\ write'.lines = <<>>
         \/ h > 0 /\ write'.how = "append" /\ write'.lines = <<h>>
      /\ write'.how \in Hows /\ write' = [how |-> write'.how, lines |-> write'.lines]
  <2>1. h \in Int /\ (h = -1 \/ h = -2 \/ (h > 0 /\ h \in 1..MaxSeq))
    BY <1>2, <1>3, <1>4
  <2>2. CASE h = -1
    BY <1>a, <2>1, <2>2 DEF Hows
  <2>3. CASE h = -2
    BY <1>a, <2>1, <2>3 DEF Hows
  <2>4. CASE h > 0 /\ h \in 1..MaxSeq
    <3>1. h # -1 /\ h # -2
      BY <2>4
    <3>2. write' = [how |-> "append", lines |-> <<h>>]
      BY <1>a, <3>1 DEF Appending
    <3> QED
      BY <2>1, <2>4, <3>2 DEF Hows
  <2> QED
    BY <2>1, <2>2, <2>3, <2>4
<1>6. write'.lines \in RecordLines /\ (h > 0 => Len(write'.lines) = 1 /\ write'.lines[1] = h)
  <2>1. CASE write'.lines = <<>>
    BY <1>5, <2>1, EmptySeq DEF RecordLines
  <2>2. CASE h > 0 /\ write'.lines = <<h>>
    <3>1. h \in 0..MaxSeq
      BY <1>5, <2>2, SizesAre
    <3> QED
      BY <2>2, <3>1 DEF RecordLines
  <2> QED
    BY <1>5, <2>1, <2>2
<1>8. /\ write.lines = <<>> /\ write.how = "none"
  BY <1>1 DEF NoWrite
<1>10. ClearWaits <=> (h = -1 \/ ClearWaits')
  <2>1. ASSUME NEW i \in 1..Len(chain), chain[i] = -1 PROVE h = -1 \/ ClearWaits'
    <3>1. CASE i = 1
      BY <1>2, <2>1, <3>1
    <3>2. CASE i # 1
      <4>1. i - 1 \in 1..n /\ chain'[i - 1] = -1
        BY <1>2, <1>4, <2>1, <3>2
      <4> QED
        BY <4>1 DEF ClearWaits, n
    <3> QED
      BY <3>1, <3>2
  <2>2. ASSUME NEW i \in 1..n, chain'[i] = -1 PROVE ClearWaits
    BY <1>2, <1>4, <2>2 DEF ClearWaits
  <2>3. h = -1 => ClearWaits
    BY <1>2, <1>4 DEF ClearWaits
  <2> QED
    BY <2>1, <2>2, <2>3 DEF ClearWaits, n
<1>11. Coming' \subseteq Coming
  <2> SUFFICES ASSUME NEW x \in Coming' PROVE x \in Coming
    OBVIOUS
  <2>1. x \in 1..MaxSeq
    BY DEF Coming
  <2>2. PICK i \in 1..n : chain'[i] = x /\ \A k \in 1..n : k > i => chain'[k] # -1
    BY DEF Coming, n
  <2>3. ASSUME NEW k \in 1..Len(chain), k > i + 1 PROVE chain[k] # -1
    <3>1. k - 1 \in 1..n /\ (k - 1) + 1 = k /\ k - 1 > i
      BY <1>2, <2>3
    <3> QED
      BY <1>2, <2>2, <3>1
  <2>4. i + 1 \in 1..Len(chain) /\ chain[i + 1] = x
    BY <1>2, <1>4, <2>2
  <2> QED
    BY <2>1, <2>3, <2>4 DEF Coming
<1>12. IsFiniteSet(Coming') /\ Cardinality(Coming') \in Nat /\ Cardinality(Coming') <= Cardinality(Coming)
  BY <1>3, <1>11, FS_Subset, FS_CardinalityType
<1>13. ASSUME NEW x \in Coming, ~(x = h /\ ~ClearWaits') PROVE x \in Coming'
  <2>1. x \in 1..MaxSeq
    BY DEF Coming
  <2>2. PICK i \in 1..Len(chain) : chain[i] = x /\ \A k \in 1..Len(chain) : k > i => chain[k] # -1
    BY DEF Coming
  <2>3. i # 1
    <3> SUFFICES ASSUME i = 1 PROVE FALSE
      OBVIOUS
    <3>1. x = h /\ ClearWaits'
      BY <1>2, <1>13, <2>2
    <3>2. PICK k \in 1..n : chain'[k] = -1
      BY <3>1 DEF ClearWaits, n
    <3>3. k + 1 \in 1..Len(chain) /\ k + 1 > 1 /\ chain[k + 1] = -1
      BY <1>2, <1>4, <3>2
    <3> QED
      BY <2>2, <3>3
  <2>4. i - 1 \in 1..n /\ (i - 1) + 1 = i
    BY <1>2, <1>4, <2>2, <2>3
  <2>5. ASSUME NEW k \in 1..n, k > i - 1 PROVE chain'[k] # -1
    <3>1. k + 1 \in 1..Len(chain) /\ k + 1 > i
      BY <1>2, <2>5
    <3> QED
      BY <1>2, <2>2, <3>1
  <2>6. chain'[i - 1] = x
    BY <1>2, <2>2, <2>4
  <2> QED
    BY <2>1, <2>4, <2>5, <2>6 DEF Coming, n
<1>14. h = -1 \/ h = -2 \/ ClearWaits' => Coming' = Coming
  <2> SUFFICES ASSUME h = -1 \/ h = -2 \/ ClearWaits', NEW x \in Coming PROVE x \in Coming'
    BY <1>11
  <2>1. x # -1 /\ x # -2
    BY DEF Coming
  <2> QED
    BY <1>13, <2>1
<1>15. ASSUME h > 0, ~ClearWaits' PROVE Coming = Coming' \cup {h} /\ h \notin Coming'
  <2>1. h \notin Coming'
    <3> SUFFICES ASSUME NEW i \in 1..n, chain'[i] = h PROVE FALSE
      BY DEF Coming, n
    <3>1. chain[i + 1] = h /\ i + 1 \in 1..Len(chain) /\ 1 \in 1..((i + 1) - 1)
      BY <1>2, <1>4
    <3>2. chain[1] < chain[i + 1]
      BY <1>0, <1>15, <3>1 DEF LinesRise
    <3> QED
      BY <1>2, <1>5, <3>1, <3>2
  <2>2. h \in Coming
    <3>1. ~ClearWaits
      BY <1>10, <1>15
    <3> QED
      BY <1>2, <1>4, <1>5, <1>15, <3>1 DEF Coming, ClearWaits
  <2> QED
    BY <1>11, <1>13, <1>15, <2>1, <2>2
<1> QED
  BY <1>1, <1>3, <1>5, <1>6, <1>8, <1>10, <1>12, <1>14, <1>15 DEF h

(* What waited is under way.                                               *)
LEMMA BeginOperationReplays ==
  ASSUME JournalInv, JournalReplayInv, BeginOperation
  PROVE  JournalReplayInv'
<1> DEFINE h == Head(chain)
<1>0. JournalTypes /\ LinesRise
  BY DEF JournalInv
<1>1. /\ write.how = "none" /\ disk' = disk /\ short' = short /\ seqNext' = seqNext
      /\ slots' = slots /\ oldest' = oldest /\ held' = held
      /\ \/ h = -1 /\ write'.how = "clear" /\ write'.lines = <<>>
         \/ h = -2 /\ write'.how = "read"
         \/ h > 0 /\ h \in 1..MaxSeq /\ write'.how = "append" /\ write'.lines[1] = h
      /\ ClearWaits <=> (h = -1 \/ ClearWaits')
      /\ h = -1 \/ h = -2 \/ ClearWaits' => Coming' = Coming
      /\ h > 0 /\ ~ClearWaits' => Coming = Coming' \cup {h} /\ h \notin Coming'
      /\ IsFiniteSet(Coming') /\ Cardinality(Coming') \in Nat /\ Cardinality(Coming) \in Nat
  BY <1>0, ChainBegins
<1> HIDE DEF h
<1>2. RingRises' /\ TornLine'
  BY <1>1 DEF JournalReplayInv, RingRises, TornLine
<1>3. BegunLines = disk.lines /\ disk.lines \in RecordLines /\ <<>> \in RecordLines
  <2>1. BegunLines = disk.lines
    BY <1>1 DEF BegunLines, BegunOf
  <2> QED
    BY <1>0, <2>1, BegunIs, EmptySeq DEF RecordLines
<1> SUFFICES ASSUME ~short PROVE BothEndAlike' /\ EnoughIsLeft'
  BY <1>1, <1>2 DEF JournalReplayInv
<1>4. BothEndAlike /\ EnoughIsLeft
  BY DEF JournalReplayInv
<1>5. ASSUME Coming' = Coming, Uncleared' \in RecordLines, IsEnd(Uncleared', Uncleared),
             Len(Uncleared') = Len(Uncleared) \/ Len(Uncleared') >= Persisted
      PROVE  BothEndAlike' /\ EnoughIsLeft'
  BY <1>0, <1>1, <1>4, <1>5, EndStays
<1>6. CASE ClearWaits'
  <2>1. Uncleared = <<>> /\ Uncleared' = <<>>
    BY <1>1, <1>6 DEF Uncleared
  <2> QED
    BY <1>1, <1>3, <1>5, <1>6, <2>1, SameIsEnd
<1>7. CASE h = -1 /\ ~ClearWaits'
  <2>1. BegunLines' = <<>>
    <3>1. write'.how = "clear" /\ write'.lines = <<>>
      BY <1>1, <1>7
    <3> QED
      BY <3>1 DEF BegunLines, BegunOf
  <2>2. Uncleared = <<>> /\ Uncleared' = <<>>
    BY <1>1, <1>7, <2>1 DEF Uncleared
  <2> QED
    BY <1>1, <1>3, <1>5, <1>7, <2>2, SameIsEnd
<1>8. CASE h = -2 /\ ~ClearWaits'
  <2> DEFINE t == Newer(disk.lines, Persisted)
  <2>1. BegunLines' = t
    <3>1. write'.how = "read"
      BY <1>1, <1>8
    <3> QED
      BY <1>1, <3>1 DEF BegunLines, BegunOf
  <2>2. Uncleared = disk.lines /\ Uncleared' = t
    BY <1>1, <1>3, <1>8, <2>1 DEF Uncleared
  <2>3. /\ t \in RecordLines /\ IsEnd(t, disk.lines) /\ Len(t) \in Nat
        /\ Len(t) = Len(disk.lines) \/ Len(t) = Persisted
    BY <1>3, NewerIsEnd, SizesAre
  <2> HIDE DEF t
  <2>4. Len(t) = Len(disk.lines) \/ Len(t) >= Persisted
    BY <2>3, SizesAre
  <2> QED
    BY <1>1, <1>5, <1>8, <2>2, <2>3, <2>4
<1>9. CASE h > 0 /\ ~ClearWaits'
  <2> DEFINE d == disk.lines
             a == Append(disk.lines, h)
  <2>1. /\ h \in 1..MaxSeq /\ write'.how = "append" /\ write'.lines[1] = h
        /\ Coming = Coming' \cup {h} /\ h \notin Coming' /\ ~ClearWaits
    BY <1>1, <1>9
  <2>2. Uncleared = d /\ Uncleared' = a
    BY <1>1, <1>3, <1>9, <2>1 DEF Uncleared, BegunLines, BegunOf
  <2>3. Len(a) = Len(d) + 1 /\ (\A i \in 1..Len(d) : a[i] = d[i]) /\ a[Len(d) + 1] = h /\ Len(d) \in Nat
    BY <1>3, <2>1, SizesAre, AppendProperties, LinesAre DEF RecordLines
  <2> HIDE DEF a, d
  <2>4. Cardinality(Coming) = Cardinality(Coming') + 1
    BY <1>1, <2>1, FS_AddElement
  <2>5. \A r : (AtLast(r))' <=> AtLast(r)
    <3>1. \A r : (AtLast(r))' <=> (r \in Coming' \/ \E i \in 1..(Len(d) + 1) : a[i] = r)
      BY <2>2, <2>3 DEF AtLast
    <3>2. \A r : AtLast(r) <=> (r \in Coming \/ \E i \in 1..Len(d) : d[i] = r)
      BY <2>2 DEF AtLast
    <3>3. /\ \A i \in 1..(Len(d) + 1) : i \in 1..Len(d) \/ i = Len(d) + 1
          /\ \A i \in 1..Len(d) : i \in 1..(Len(d) + 1)
          /\ Len(d) + 1 \in 1..(Len(d) + 1)
      BY <2>3
    <3>4. \A r : (\E i \in 1..(Len(d) + 1) : a[i] = r) <=> (r = h \/ \E i \in 1..Len(d) : d[i] = r)
      BY <2>3, <3>3
    <3> QED
      BY <2>1, <3>1, <3>2, <3>4
  <2>6. BothEndAlike'
    BY <1>1, <1>4, <2>5 DEF BothEndAlike, InSlots
  <2>7. EnoughIsLeft'
    <3>1. Len(a) + Cardinality(Coming') = Len(d) + Cardinality(Coming)
      BY <1>1, <2>3, <2>4
    <3> QED
      BY <1>1, <1>4, <2>2, <3>1 DEF EnoughIsLeft
  <2> QED
    BY <2>6, <2>7
<1> QED
  BY <1>1, <1>6, <1>7, <1>8, <1>9

(* A record is to come; whether a clear waits is as before.                *)
LEMMA RecordComes ==
  ASSUME JournalTypes, LinesRise, Record
  PROVE  /\ seqNext \in 1..MaxSeq /\ seqNext' = seqNext + 1 /\ PushRecord(seqNext)
         /\ write' = write /\ disk' = disk /\ short' = short
         /\ ClearWaits' <=> ClearWaits
         /\ Coming' = Coming \cup {seqNext} /\ seqNext \notin Coming
         /\ Cardinality(Coming') = Cardinality(Coming) + 1 /\ Cardinality(Coming) \in Nat
<1> DEFINE m == Len(chain)
           r == seqNext
           s == IF counted' > 2 * Persisted THEN <<seqNext, Compact>> ELSE <<seqNext>>
<1>0. JournalTypes /\ LinesRise
  OBVIOUS
<1>1. /\ seqNext <= MaxSeq /\ seqNext' = seqNext + 1 /\ PushRecord(seqNext) /\ counted' = counted + 1
      /\ chain' = chain \o s
      /\ write' = write /\ disk' = disk /\ gone' = gone /\ forgotten' = forgotten /\ short' = short
      /\ jstarts' = jstarts /\ clears' = clears
  BY DEF Record, Counts
<1>2. /\ r \in 1..MaxSeq /\ r \in Nat /\ r > 0 /\ counted \in Nat /\ chain \in Seq(Chained) /\ m \in Nat /\ r \in Chained /\ -2 \in Chained
      /\ Compact = -2
      /\ disk.lines \in RecordLines /\ write.lines \in RecordLines
  <2>1. r \in 1..(MaxSeq + 1) /\ r <= MaxSeq
    BY <1>0, <1>1 DEF JournalTypes
  <2>2. r \in 1..MaxSeq
    BY <2>1, SizesAre
  <2> QED
    BY <1>0, <2>2, LenProperties DEF JournalTypes, Chained, Compact, FileOfRecords
<1>3. /\ \A i \in 1..m : chain[i] \in Int /\ chain[i] # r /\ (chain[i] > 0 => chain[i] < r)
  <2>1. \A i \in 1..m : chain[i] \in Int /\ (chain[i] > 0 => chain[i] < r)
    BY <1>0, <1>2, ComingIs DEF LinesRise
  <2> QED
    BY <1>2, <2>1
<1>4. /\ s \in Seq(Chained) /\ s[1] = r
      /\ (Len(s) = 1 /\ ~(counted' > 2 * Persisted)) \/ (Len(s) = 2 /\ s[2] = -2)
  <2>1. CASE counted' > 2 * Persisted
    <3>1. s = <<r, -2>>
      BY <1>2, <2>1
    <3> HIDE DEF s
    <3> QED
      BY <1>2, <3>1
  <2>2. CASE ~(counted' > 2 * Persisted)
    <3>1. s = <<r>>
      BY <2>2
    <3> HIDE DEF s
    <3>2. s \in Seq(Chained) /\ s[1] = r /\ Len(s) = 1
      BY <1>2, <3>1
    <3> QED
      BY <2>2, <3>2
  <2> QED
    BY <2>1, <2>2
<1> HIDE DEF s
<1>5. /\ chain' \in Seq(Chained) /\ Len(chain') = m + Len(s) /\ (Len(s) = 1 \/ Len(s) = 2)
      /\ \A i \in 1..m : chain'[i] = chain[i] /\ i \in 1..Len(chain')
      /\ chain'[m + 1] = r /\ m + 1 \in 1..Len(chain')
      /\ Len(s) = 2 => chain'[m + 2] = -2 /\ m + 2 \in 1..Len(chain')
      /\ \A i \in 1..Len(chain') : i \in 1..m \/ i = m + 1 \/ (i = m + 2 /\ Len(s) = 2)
      /\ Len(chain') \in Nat
  <2>1. chain \in Seq(Chained) /\ s \in Seq(Chained) /\ chain' = chain \o s /\ (Len(s) = 1 \/ Len(s) = 2)
        /\ s[1] = r /\ (Len(s) = 2 => s[2] = -2)
    BY <1>1, <1>2, <1>4
  <2>2. Len(chain') \in Nat
    BY <2>1, ChainOneOrTwo, LenProperties
  <2> QED
    BY <2>1, <2>2, ChainOneOrTwo
<1> HIDE DEF m, r
<1>6. \A i \in 1..Len(chain') : \/ i \in 1..m /\ chain'[i] = chain[i]
                                \/ i = m + 1 /\ chain'[i] = r
                                \/ i = m + 2 /\ chain'[i] = -2 /\ Len(s) = 2
  <2> TAKE i \in 1..Len(chain')
  <2>1. i \in 1..m \/ i = m + 1 \/ (i = m + 2 /\ Len(s) = 2)
    BY <1>2, <1>5
  <2> QED
    BY <1>5, <2>1
<1>7. ClearWaits' <=> ClearWaits
  <2>1. ASSUME NEW i \in 1..Len(chain'), chain'[i] = -1 PROVE ClearWaits
    BY <1>2, <1>6, <2>1 DEF ClearWaits, m
  <2>2. ASSUME NEW i \in 1..m, chain[i] = -1 PROVE \E j \in 1..Len(chain') : chain'[j] = -1
    <3>1. i \in 1..Len(chain') /\ chain'[i] = -1
      BY <1>2, <1>5, <2>2
    <3> QED
      BY <3>1
  <2> QED
    BY <2>1, <2>2 DEF ClearWaits, m
<1>8. Coming' = Coming \cup {r} /\ r \notin Coming
  <2>1. \A i \in 1..m : i \in 1..Len(chain') /\ chain'[i] = chain[i] /\ i # m + 1 /\ ~(i > m)
    BY <1>2, <1>5
  <2>2. m + 1 \in 1..Len(chain') /\ \A k \in 1..Len(chain') : k > m + 1 => chain'[k] # -1
    <3>1. m + 1 \in 1..Len(chain')
      BY <1>2, <1>5
    <3>2. ASSUME NEW k \in 1..Len(chain'), k > m + 1 PROVE chain'[k] # -1
      <4>1. k = m + 2 /\ chain'[k] = -2
        BY <1>2, <1>6, <3>2
      <4> QED
        BY <4>1
    <3> QED
      BY <3>1, <3>2
  <2>3. ASSUME NEW x \in Coming' PROVE x \in Coming \cup {r}
    <3>1. PICK i \in 1..Len(chain') : chain'[i] = x /\ \A k \in 1..Len(chain') : k > i => chain'[k] # -1
      BY <2>3 DEF Coming
    <3>2. x \in 1..MaxSeq
      BY <2>3 DEF Coming
    <3>3. CASE i \in 1..m /\ chain'[i] = chain[i]
      <4>1. \A k \in 1..m : k > i => chain[k] # -1
        BY <2>1, <3>1
      <4> QED
        BY <3>1, <3>2, <3>3, <4>1 DEF Coming, m
    <3>4. CASE chain'[i] = -2
      BY <3>1, <3>2, <3>4
    <3> QED
      BY <1>6, <3>1, <3>3, <3>4
  <2>4. ASSUME NEW x \in Coming PROVE x \in Coming'
    <3>1. PICK i \in 1..m : chain[i] = x /\ \A k \in 1..m : k > i => chain[k] # -1
      BY <2>4 DEF Coming, m
    <3>2. ASSUME NEW k \in 1..Len(chain'), k > i PROVE chain'[k] # -1
      BY <1>2, <1>6, <3>1, <3>2
    <3>3. i \in 1..Len(chain') /\ chain'[i] = x /\ x \in 1..MaxSeq
      BY <2>1, <2>4, <3>1 DEF Coming
    <3> QED
      BY <3>2, <3>3 DEF Coming
  <2>5. r \in Coming'
    BY <1>2, <1>5, <2>2 DEF Coming
  <2>6. r \notin Coming
    BY <1>3 DEF Coming, m
  <2> QED
    BY <2>3, <2>4, <2>5, <2>6
<1>9. Cardinality(Coming') = Cardinality(Coming) + 1 /\ Cardinality(Coming) \in Nat
  <2>1. IsFiniteSet(Coming) /\ Cardinality(Coming) \in Nat
    BY <1>2, ComingIs
  <2> QED
    BY <1>8, <2>1, FS_AddElement
<1> QED
  BY <1>1, <1>2, <1>7, <1>8, <1>9 DEF r

(* Around a ring of n.                                                     *)
LEMMA Around ==
  ASSUME NEW n \in Nat, n > 0, NEW a \in 0..(n - 1)
  PROVE  a % n = a /\ (a + n) % n = a /\ (a + 1) % n = IF a + 1 = n THEN 0 ELSE a + 1
<1>1. a % n = a
  OBVIOUS
<1>2. (a + n) % n = a
  OBVIOUS
<1>3. CASE a + 1 = n
  <2>1. n % n = 0
    OBVIOUS
  <2> QED
    BY <1>1, <1>2, <1>3, <2>1
<1>4. CASE a + 1 # n
  <2>1. a + 1 \in 0..(n - 1)
    BY <1>4
  <2>2. (a + 1) % n = a + 1
    BY <2>1
  <2> QED
    BY <1>1, <1>2, <1>4, <2>2
<1> QED
  BY <1>3, <1>4

(* A record takes the oldest's place, if the buffer is full.               *)
LEMMA RingTurns ==
  ASSUME JournalTypes, RingRises, seqNext \in 1..MaxSeq, PushRecord(seqNext), seqNext' = seqNext + 1
  PROVE  /\ RingRises'
         /\ \E i \in 1..Len(slots') : slots'[i] = seqNext
         /\ \A x \in 1..MaxSeq : (\E i \in 1..Len(slots') : slots'[i] = x) => x = seqNext \/ InSlots(x)
         /\ \A x \in 1..MaxSeq : InSlots(x) => x < seqNext
         /\ \A x, y \in 1..MaxSeq :
              /\ InSlots(x) /\ ~(\E i \in 1..Len(slots') : slots'[i] = x)
              /\ \E i \in 1..Len(slots') : slots'[i] = y
              => x < y
         /\ Len(slots') \in Nat /\ Len(slots) \in Nat /\ Len(slots') <= Len(slots) + 1
<1> DEFINE n == Len(slots)
           r == seqNext
           s == slots'
<1>1. /\ slots \in Seq(1..MaxSeq) /\ n \in Nat /\ n <= BufferSize /\ oldest \in 0..(BufferSize - 1) /\ held = n
      /\ BufferSize \in Nat /\ BufferSize > 0
  BY SizesAre, LenProperties DEF JournalTypes
<1>2. /\ n < BufferSize => oldest = 0
      /\ \A p, q \in 1..n : p < q =>
           IF p <= oldest /\ oldest < q THEN slots[q] < slots[p] ELSE slots[p] < slots[q]
      /\ \A i \in 1..n : slots[i] < r
  BY DEF RingRises
<1>3. \A i \in 1..n : slots[i] \in 1..MaxSeq /\ slots[i] \in Nat
  BY <1>1, ElementOfSeq, SizesAre
<1>4. r \in 1..MaxSeq /\ r \in Nat /\ seqNext' = r + 1
  BY SizesAre
<1>5. \A x : InSlots(x) <=> \E i \in 1..n : slots[i] = x
  BY DEF InSlots
<1>6. CASE n < BufferSize
  <2>1. oldest = 0 /\ oldest' = 0 /\ s = Append(slots, r)
    <3>1. ~(held >= BufferSize)
      BY <1>1, <1>6
    <3> QED
      BY <1>2, <1>6, <3>1 DEF PushRecord
  <2>2. Len(s) = n + 1 /\ (\A i \in 1..n : s[i] = slots[i]) /\ s[n + 1] = r
    BY <1>1, <1>4, <2>1, AppendProperties
  <2> HIDE DEF n, r, s
  <2>3. /\ n + 1 \in 1..(n + 1) /\ \A i \in 1..n : i \in 1..(n + 1)
        /\ \A i \in 1..(n + 1) : i \in 1..n \/ i = n + 1
    BY <1>1
  <2>4. ASSUME NEW p \in 1..(n + 1), NEW q \in 1..(n + 1), p < q PROVE s[p] < s[q]
    <3>1. p \in 1..n /\ s[p] = slots[p]
      BY <1>1, <2>2, <2>4
    <3>2. CASE q = n + 1
      BY <1>2, <2>2, <3>1, <3>2
    <3>3. CASE q \in 1..n
      <4>1. ~(p <= oldest)
        BY <2>1, <3>1
      <4> QED
        BY <1>2, <2>2, <2>4, <3>1, <3>3, <4>1
    <3> QED
      BY <2>3, <3>2, <3>3
  <2>5. \A i \in 1..(n + 1) : s[i] < r + 1
    <3> SUFFICES ASSUME NEW i \in 1..(n + 1) PROVE s[i] < r + 1
      OBVIOUS
    <3>1. CASE i = n + 1
      BY <1>4, <2>2, <3>1
    <3>2. CASE i \in 1..n
      BY <1>2, <1>3, <1>4, <2>2, <3>2
    <3> QED
      BY <2>3, <3>1, <3>2
  <2>6. RingRises'
    <3>1. \A p, q \in 1..(n + 1) : p < q => IF p <= 0 /\ 0 < q THEN s[q] < s[p] ELSE s[p] < s[q]
      <4> SUFFICES ASSUME NEW p \in 1..(n + 1), NEW q \in 1..(n + 1), p < q
                   PROVE  IF p <= 0 /\ 0 < q THEN s[q] < s[p] ELSE s[p] < s[q]
        OBVIOUS
      <4>1. ~(p <= 0)
        BY <1>1
      <4> QED
        BY <2>4, <4>1
    <3> QED
      BY <1>4, <2>1, <2>2, <2>5, <3>1 DEF RingRises, s
  <2>7. \A x : (\E i \in 1..(n + 1) : s[i] = x) <=> (x = r \/ \E i \in 1..n : slots[i] = x)
    BY <2>2, <2>3
  <2>8. \A x : (InSlots(x))' <=> \E i \in 1..(n + 1) : s[i] = x
    BY <2>2 DEF InSlots, s
  <2>9. \A x \in 1..MaxSeq : InSlots(x) => x < r
    BY <1>2, <1>5
  <2> QED
    BY <1>1, <1>5, <2>2, <2>6, <2>7, <2>9 DEF n, r, s
<1>7. CASE ~(n < BufferSize)
  <2> DEFINE k == oldest + 1
  <2>1. n = BufferSize /\ n > 0 /\ oldest \in 0..(n - 1) /\ held >= BufferSize /\ k \in 1..n
    BY <1>1, <1>7
  <2>2. oldest' = IF k = n THEN 0 ELSE k
    <3>1. oldest' = (oldest + 1) % n
      BY <2>1 DEF PushRecord
    <3> HIDE DEF n
    <3> QED
      BY <1>1, <2>1, <3>1, Around
  <2>3. s = [slots EXCEPT ![k] = r]
    <3>1. s = [slots EXCEPT ![((((oldest + 1) % n) + (n - 1)) % n) + 1] = r]
      BY <1>1, <1>7, <2>1 DEF PushRecord
    <3> HIDE DEF n, s, r
    <3>2. (((oldest + 1) % n) + (n - 1)) % n = oldest
      <4>1. CASE oldest + 1 = n
        <5>1. (oldest + 1) % n = 0 /\ 0 + (n - 1) = oldest /\ oldest % n = oldest
          BY <1>1, <2>1, <4>1, Around
        <5> QED
          BY <5>1
      <4>2. CASE oldest + 1 # n
        <5>1. (oldest + 1) % n = oldest + 1 /\ (oldest + 1) + (n - 1) = oldest + n /\ (oldest + n) % n = oldest
          BY <1>1, <2>1, <4>2, Around
        <5> QED
          BY <5>1
      <4> QED
        BY <4>1, <4>2
    <3> QED
      BY <3>1, <3>2
  <2>4. Len(s) = n /\ \A i \in 1..n : s[i] = IF i = k THEN r ELSE slots[i]
    BY <1>1, <1>4, <2>1, <2>3, ExceptSeq
  <2> HIDE DEF n, r, s
  <2>5. \A i \in 1..n : i # k => s[i] = slots[i] /\ s[i] < r /\ slots[k] < slots[i]
    <3> SUFFICES ASSUME NEW i \in 1..n, i # k PROVE s[i] = slots[i] /\ s[i] < r /\ slots[k] < slots[i]
      OBVIOUS
    <3>1. slots[k] < slots[i]
      <4>1. CASE i < k
        <5>1. i <= oldest /\ oldest < k
          BY <1>1, <4>1
        <5> QED
          BY <1>2, <2>1, <4>1, <5>1
      <4>2. CASE k < i
        <5>1. ~(k <= oldest)
          BY <1>1
        <5> QED
          BY <1>2, <2>1, <4>2, <5>1
      <4>3. i < k \/ k < i
        BY <2>1
      <4> QED
        BY <4>1, <4>2, <4>3
    <3> QED
      BY <1>2, <2>4, <3>1
  <2>6. s[k] = r
    BY <2>1, <2>4
  <2>7. ASSUME NEW p \in 1..n, NEW q \in 1..n, p < q
        PROVE  IF p <= oldest' /\ oldest' < q THEN s[q] < s[p] ELSE s[p] < s[q]
    <3>1. (oldest' = k /\ k < n) \/ (oldest' = 0 /\ k = n)
      BY <1>1, <2>1, <2>2
    <3>2. p \in Int /\ q \in Int /\ k \in Int /\ k = oldest + 1 /\ oldest \in Int
      BY <1>1
    <3> HIDE DEF k
    <3>3. CASE p = k
      <4>1. q # k /\ s[q] < s[p] /\ p <= k /\ k < q
        BY <2>5, <2>6, <2>7, <3>2, <3>3
      <4>2. k # n /\ oldest' = k
        BY <3>1, <3>2, <3>3, <2>7, <4>1
      <4> QED
        BY <4>1, <4>2
    <3>4. CASE q = k
      <4>1. p # k /\ s[p] < s[q]
        BY <2>5, <2>6, <2>7, <3>2, <3>4
      <4>2. ~(p <= oldest' /\ oldest' < q)
        BY <2>7, <3>1, <3>2, <3>4
      <4> QED
        BY <4>1, <4>2
    <3>5. CASE p # k /\ q # k
      <4>1. s[p] = slots[p] /\ s[q] = slots[q]
        BY <2>5, <3>5
      <4>2. (p <= oldest' /\ oldest' < q) <=> (p <= oldest /\ oldest < q)
        BY <2>1, <2>7, <3>1, <3>2, <3>5
      <4> QED
        BY <1>2, <2>7, <4>1, <4>2
    <3> QED
      BY <3>3, <3>4, <3>5
  <2>8. \A i \in 1..n : s[i] < r + 1 /\ s[i] <= r
    <3> SUFFICES ASSUME NEW i \in 1..n PROVE s[i] < r + 1 /\ s[i] <= r
      OBVIOUS
    <3>1. CASE i = k
      BY <1>4, <2>6, <3>1
    <3>2. CASE i # k
      BY <1>3, <1>4, <2>5, <3>2
    <3> QED
      BY <3>1, <3>2
  <2>9. RingRises'
    <3>1. ~(Len(s) < BufferSize)
      BY <1>7, <2>4
    <3> QED
      BY <1>4, <2>4, <2>7, <2>8, <3>1 DEF RingRises, s
  <2>10. \A x : (\E i \in 1..n : s[i] = x) => x = r \/ \E i \in 1..n : slots[i] = x
    BY <2>5, <2>6
  <2>11. \A x \in 1..MaxSeq : InSlots(x) => x < r
    BY <1>2, <1>5
  <2>12. ASSUME NEW x \in 1..MaxSeq, NEW y \in 1..MaxSeq, InSlots(x), ~(\E i \in 1..n : s[i] = x), \E i \in 1..n : s[i] = y
         PROVE  x < y
    <3>1. PICK i \in 1..n : slots[i] = x
      BY <1>5, <2>12
    <3>2. i = k
      BY <2>5, <2>12, <3>1
    <3>3. PICK j \in 1..n : s[j] = y
      BY <2>12
    <3>4. CASE j = k
      BY <1>2, <2>6, <3>1, <3>3, <3>4
    <3>5. CASE j # k
      BY <2>5, <3>1, <3>2, <3>3, <3>5
    <3> QED
      BY <3>4, <3>5
  <2>13. k \in 1..n
    BY <2>1
  <2> QED
    BY <1>1, <1>5, <2>4, <2>6, <2>9, <2>10, <2>11, <2>12, <2>13 DEF n, r, s
<1> QED
  BY <1>6, <1>7

(* A record is in the buffer, and will be in the file.                     *)
LEMMA RecordReplays ==
  ASSUME JournalInv, JournalReplayInv, Record
  PROVE  JournalReplayInv'
<1> DEFINE r == seqNext
           In(x) == \E i \in 1..Len(slots') : slots'[i] = x
<1>0. JournalTypes /\ LinesRise /\ RingRises
  BY DEF JournalInv, JournalReplayInv
<1>1. /\ r \in 1..MaxSeq /\ seqNext' = r + 1 /\ PushRecord(r)
      /\ write' = write /\ disk' = disk /\ short' = short
      /\ ClearWaits' <=> ClearWaits
      /\ Coming' = Coming \cup {r} /\ r \notin Coming
      /\ Cardinality(Coming') = Cardinality(Coming) + 1 /\ Cardinality(Coming) \in Nat
  BY <1>0, RecordComes
<1>2. /\ RingRises' /\ In(r)
      /\ \A x \in 1..MaxSeq : In(x) => x = r \/ InSlots(x)
      /\ \A x \in 1..MaxSeq : InSlots(x) => x < r
      /\ \A x, y \in 1..MaxSeq : InSlots(x) /\ ~In(x) /\ In(y) => x < y
      /\ Len(slots') \in Nat /\ Len(slots) \in Nat /\ Len(slots') <= Len(slots) + 1
  BY <1>0, <1>1, RingTurns DEF InSlots
<1>3. \A x : (InSlots(x))' <=> In(x)
  BY DEF InSlots
<1>4. Uncleared' = Uncleared /\ Len(Uncleared) \in Nat
  BY <1>0, <1>1, BegunIs DEF Uncleared, BegunLines
<1>5. \A x : (AtLast(x))' <=> (AtLast(x) \/ x = r)
  BY <1>1, <1>4 DEF AtLast
<1>6. \A x \in 1..MaxSeq : AtLast(x) => x < r
  BY <1>0, ComingIsLate
<1>7. TornLine'
  BY <1>1 DEF JournalReplayInv, TornLine
<1> HIDE DEF In, r
<1>8. ASSUME ~short PROVE BothEndAlike' /\ EnoughIsLeft'
  <2>1. BothEndAlike /\ EnoughIsLeft
    BY <1>8 DEF JournalReplayInv
  <2>2. BothEndAlike'
    <3> SUFFICES ASSUME NEW x \in 1..MaxSeq, NEW y \in 1..MaxSeq, AtLast(x) \/ x = r, In(y)
                 PROVE  (In(x) \/ x < y) /\ (AtLast(y) \/ y = r \/ y < x)
      BY <1>3, <1>5 DEF BothEndAlike
    <3>1. CASE x = r
      BY <1>2, <3>1
    <3>2. CASE x # r /\ y = r
      BY <1>6, <3>2
    <3>3. CASE x # r /\ y # r
      <4>1. AtLast(x) /\ InSlots(y)
        BY <1>2, <3>3
      <4>2. (InSlots(x) \/ x < y) /\ (AtLast(y) \/ y < x)
        BY <2>1, <4>1 DEF BothEndAlike
      <4> QED
        BY <1>2, <4>2
    <3> QED
      BY <3>1, <3>2, <3>3
  <2>3. EnoughIsLeft'
    <3>1. Len(Uncleared) + Cardinality(Coming) >= Persisted \/ Len(Uncleared) + Cardinality(Coming) >= Len(slots)
      BY <2>1 DEF EnoughIsLeft
    <3>2. \/ Len(Uncleared) + (Cardinality(Coming) + 1) >= Persisted
          \/ Len(Uncleared) + (Cardinality(Coming) + 1) >= Len(slots')
      BY <1>1, <1>2, <1>4, <3>1, SizesAre
    <3> QED
      BY <1>1, <1>4, <3>2 DEF EnoughIsLeft
  <2> QED
    BY <2>2, <2>3
<1> QED
  BY <1>1, <1>2, <1>7, <1>8 DEF JournalReplayInv

(* After a clear there is nothing to agree on.                             *)
LEMMA ClearAgentReplays ==
  ASSUME JournalInv, JournalReplayInv, ClearAgent
  PROVE  JournalReplayInv'
<1>1. slots' = <<>> /\ oldest' = 0 /\ disk' = disk
  BY DEF ClearAgent
<1>2. Len(slots') = 0
  BY <1>1, EmptySeq
<1>3. RingRises' /\ BothEndAlike'
  BY <1>1, <1>2 DEF RingRises, BothEndAlike, InSlots
<1>4. TornLine'
  BY <1>1 DEF JournalReplayInv, TornLine
<1>5. EnoughIsLeft'
  <2>1. Uncleared' = <<>> /\ Coming' = {}
    <3>1. chain \in Seq(Chained) /\ -1 \in Chained /\ chain' = Append(chain, -1)
      BY DEF JournalInv, JournalTypes, Chained, ClearAgent, Clear
    <3> DEFINE m == Len(chain)
    <3>2. Len(chain') = m + 1 /\ chain'[m + 1] = -1 /\ m \in Nat
      BY <3>1, AppendProperties, LenProperties
    <3> HIDE DEF m
    <3>3. m + 1 \in 1..(m + 1) /\ \A i \in 1..(m + 1) : i = m + 1 \/ m + 1 > i
      BY <3>2
    <3>4. ClearWaits'
      BY <3>2, <3>3 DEF ClearWaits
    <3>5. Coming' = {}
      <4> SUFFICES ASSUME NEW x \in Coming' PROVE FALSE
        OBVIOUS
      <4>1. PICK i \in 1..(m + 1) : chain'[i] = x /\ \A k \in 1..(m + 1) : k > i => chain'[k] # -1
        BY <3>2 DEF Coming
      <4>2. x \in 1..MaxSeq
        BY DEF Coming
      <4> QED
        BY <3>2, <3>3, <4>1, <4>2
    <3> QED
      BY <3>4, <3>5 DEF Uncleared
  <2>2. Len(Uncleared') = 0 /\ Cardinality(Coming') = 0
    BY <2>1, EmptySeq, FS_EmptySet
  <2> QED
    BY <1>2, <2>2 DEF EnoughIsLeft
<1> QED
  BY <1>3, <1>4, <1>5 DEF JournalReplayInv

(* An empty journal has nothing to agree on.                               *)
LEMMA JournalReplayStarts == JInit => JournalReplayInv
<1> SUFFICES ASSUME JInit PROVE JournalReplayInv
  OBVIOUS
<1>1. slots = <<>> /\ oldest = 0 /\ disk = Whole(<<>>) /\ chain = <<>> /\ write = NoWrite
  BY DEF JInit
<1>2. Len(slots) = 0 /\ Len(chain) = 0 /\ ~disk.torn /\ disk.lines = <<>> /\ write.how = "none"
  BY <1>1, EmptySeq DEF Whole, NoWrite
<1>3. RingRises /\ BothEndAlike /\ TornLine
  BY <1>1, <1>2 DEF RingRises, BothEndAlike, InSlots, TornLine
<1>4. Coming = {} /\ Uncleared = <<>>
  BY <1>2 DEF Coming, Uncleared, BegunLines, BegunOf
<1>5. Len(Uncleared) = 0 /\ Cardinality(Coming) = 0
  BY <1>4, EmptySeq, FS_EmptySet
<1> QED
  BY <1>2, <1>3, <1>5 DEF JournalReplayInv, EnoughIsLeft

(* What can be read is no more than what there is.                         *)
LEMMA ReadableAreLines ==
  ASSUME NEW f \in FileOfRecords
  PROVE  /\ Len(Readable(f)) <= Len(f.lines)
         /\ \A n \in 1..Len(Readable(f)) : \E i \in 1..Len(f.lines) : f.lines[i] = Readable(f)[n]
<1> DEFINE s == f.lines
           P == {i \in DOMAIN s : s[i] # 0}
<1>1. s \in Seq(0..MaxSeq)
  BY DEF FileOfRecords, RecordLines
<1>2. Readable(f) = Picked(s, P) /\ P \in SUBSET (1..Len(s))
  BY <1>1, LenProperties DEF Readable
<1> HIDE DEF s, P
<1>3. /\ Len(s) \in Nat /\ Len(Picked(s, P)) = Cardinality(P) /\ Cardinality(P) \in 0..Len(s)
      /\ Nth(P) \in [1..Cardinality(P) -> P]
      /\ \A n \in 1..Cardinality(P) : Picked(s, P)[n] = s[Nth(P)[n]]
  BY <1>1, <1>2, PickedIs
<1>4. \A n \in 1..Cardinality(P) : Nth(P)[n] \in 1..Len(s) /\ Picked(s, P)[n] = s[Nth(P)[n]]
  BY <1>2, <1>3
<1> QED
  BY <1>2, <1>3, <1>4 DEF s

(* What a kill leaves: a torn line is the last.                            *)
LEMMA LeftoversTorn ==
  ASSUME JournalTypes, LinesRise, TornLine, NEW f \in Leftovers(disk, write)
  PROVE  f.torn => Len(f.lines) > 0 /\ f.lines[Len(f.lines)] = 0
<1> DEFINE Good(g) == g.torn => Len(g.lines) > 0 /\ g.lines[Len(g.lines)] = 0
<1>0. disk.lines \in RecordLines /\ write.lines \in RecordLines /\ Rising(write.lines) /\ 0 \in 0..MaxSeq
  BY SizesAre DEF JournalTypes, LinesRise, FileOfRecords
<1>1. Good(disk)
  BY DEF TornLine
<1>2. \A s : Good(Whole(s))
  BY DEF Whole
<1>3. ASSUME NEW s \in RecordLines PROVE Good([lines |-> Append(s, 0), torn |-> TRUE])
  <2> DEFINE t == Append(s, 0)
             m == Len(s)
  <2>1. Len(t) = m + 1 /\ t[m + 1] = 0 /\ m \in Nat
    BY <1>0, AppendProperties, LenProperties DEF RecordLines
  <2> HIDE DEF t, m
  <2>2. Len(t) > 0 /\ t[Len(t)] = 0
    BY <2>1
  <2> QED
    BY <2>2 DEF t
<1>4. CASE write.how = "append"
  <2>1. \/ f = disk
        \/ f = Added(disk, write.lines[1])
        \/ f = [lines |-> Append(disk.lines, 0), torn |-> TRUE]
    BY <1>4 DEF Leftovers
  <2>2. Good(Added(disk, write.lines[1]))
    BY <1>2 DEF Added
  <2>3. Good([lines |-> Append(disk.lines, 0), torn |-> TRUE])
    BY <1>0, <1>3
  <2> HIDE DEF Good
  <2>4. Good(f)
    BY <1>1, <2>1, <2>2, <2>3
  <2> QED
    BY <2>4 DEF Good
<1>5. CASE write.how = "truncated"
  <2>1. \/ f = Whole(write.lines)
        \/ \E n \in 0..(Len(write.lines) - 1) :
             \/ f = Whole(SubSeq(write.lines, 1, n))
             \/ f = [lines |-> Append(SubSeq(write.lines, 1, n), 0), torn |-> TRUE]
    BY <1>5 DEF Leftovers
  <2>2. ASSUME NEW n \in 0..(Len(write.lines) - 1)
        PROVE  Good([lines |-> Append(SubSeq(write.lines, 1, n), 0), torn |-> TRUE])
    <3> DEFINE s == SubSeq(write.lines, 1, n)
    <3>1. s \in RecordLines
      BY <1>0, BeginningRises
    <3> HIDE DEF s
    <3>2. Good([lines |-> Append(s, 0), torn |-> TRUE])
      BY <1>3, <3>1
    <3> QED
      BY <3>2 DEF s
  <2> HIDE DEF Good
  <2>3. Good(f)
    BY <1>2, <2>1, <2>2
  <2> QED
    BY <2>3 DEF Good
<1>6. CASE write.how \notin {"append", "truncated"}
  <2>1. f = disk
    BY <1>6 DEF Leftovers
  <2> QED
    BY <1>1, <2>1
<1> QED
  BY <1>4, <1>5, <1>6

(* After a start the buffer is the end of what can be read of the file.    *)
LEMMA JRestartReplays ==
  ASSUME JournalInv, JournalReplayInv, JRestart
  PROVE  JournalReplayInv'
<1>0. JournalTypes /\ LinesRise /\ TornLine
  BY DEF JournalInv, JournalReplayInv
<1>1. disk' \in Leftovers(disk, write) /\ chain' = <<>> /\ write' = NoWrite
  BY DEF JRestart
<1>2. PICK expired \in 0..Persisted : LoadFrom(disk', expired)
  BY DEF JRestart
<1> DEFINE all == Readable(disk')
           recent == Newer(all, Persisted)
           window == SubSeq(recent, expired + 1, Len(recent))
           a == Len(all)
           b == Len(recent)
           c == Len(window)
           d == Len(slots')
<1>3. /\ expired \in 0..b /\ slots' = Newer(window, BufferSize) /\ oldest' = 0 /\ held' = d
      /\ seqNext' = 1 + Max(ToSet(all) \cup {0})
  BY <1>2 DEF LoadFrom, SeedSeq
<1>4. disk' \in FileOfRecords /\ Rising(disk'.lines)
  BY <1>0, <1>1, LeftoversAre
<1>5. /\ all \in Seq(1..MaxSeq) /\ a \in Nat
      /\ \A i \in 1..Len(disk'.lines) : disk'.lines[i] # 0 => \E n \in 1..a : all[n] = disk'.lines[i]
      /\ \A n \in 1..a : \E i \in 1..Len(disk'.lines) : disk'.lines[i] = all[n]
      /\ \A n, m \in 1..a : n < m => all[n] < all[m]
      /\ a <= Len(disk'.lines)
  BY <1>4, ReadableIs, ReadableAreLines
<1> HIDE DEF all
<1>6. /\ recent \in Seq(1..MaxSeq) /\ b \in Nat /\ b <= a
      /\ \A i \in 1..b : i + (a - b) \in 1..a /\ recent[i] = all[i + (a - b)]
  <2>1. /\ recent \in Seq(1..MaxSeq) /\ b = (IF a > Persisted THEN Persisted ELSE a)
        /\ \A i \in 1..b : i + (a - b) \in 1..a /\ recent[i] = all[i + (a - b)]
    BY <1>5, NewerIs, SizesAre
  <2> HIDE DEF recent
  <2>2. b \in Nat /\ b <= a
    BY <1>5, <2>1, SizesAre
  <2> QED
    BY <2>1, <2>2
<1> HIDE DEF recent
<1>7. /\ window \in Seq(1..MaxSeq) /\ c \in Nat /\ c <= b
      /\ \A i \in 1..c : i + (b - c) \in 1..b /\ window[i] = recent[i + (b - c)]
  <2>1. \A i \in (expired + 1)..b : i \in 1..b
    BY <1>6
  <2>2. \A i \in (expired + 1)..b : recent[i] \in 1..MaxSeq
    BY <1>6, <2>1, ElementOfSeq
  <2>3. expired + 1 \in Int /\ b \in Int /\ expired \in Nat /\ expired <= b
    BY <1>3, <1>6
  <2>4. /\ window \in Seq(1..MaxSeq)
        /\ c = IF expired + 1 <= b THEN b - (expired + 1) + 1 ELSE 0
        /\ \A i \in 1..(b - (expired + 1) + 1) : window[i] = recent[(expired + 1) + i - 1]
    BY <2>2, <2>3, SubSeqProperties
  <2> HIDE DEF window
  <2>5. c = b - expired
    BY <2>3, <2>4
  <2>6. \A i \in 1..c : i + (b - c) \in 1..b /\ i \in 1..(b - (expired + 1) + 1) /\ (expired + 1) + i - 1 = i + (b - c)
    BY <2>3, <2>5
  <2>7. c \in Nat /\ c <= b
    BY <2>3, <2>5
  <2> QED
    BY <2>4, <2>6, <2>7
<1> HIDE DEF window
<1>8. /\ slots' \in Seq(1..MaxSeq) /\ d \in Nat /\ d <= c
      /\ \A i \in 1..d : i + (c - d) \in 1..c /\ slots'[i] = window[i + (c - d)]
  <2> DEFINE t == Newer(window, BufferSize)
  <2>1. /\ t \in Seq(1..MaxSeq) /\ Len(t) = (IF c > BufferSize THEN BufferSize ELSE c)
        /\ \A i \in 1..Len(t) : i + (c - Len(t)) \in 1..c /\ t[i] = window[i + (c - Len(t))]
    BY <1>7, NewerIs, SizesAre
  <2> HIDE DEF t
  <2>2. Len(t) \in Nat /\ Len(t) <= c
    BY <1>7, <2>1, SizesAre
  <2>3. slots' = t
    BY <1>3 DEF t
  <2> QED
    BY <2>1, <2>2, <2>3
<1> HIDE DEF a, b, c, d
<1>9. d <= a /\ \A i \in 1..d : i + (a - d) \in 1..a /\ slots'[i] = all[i + (a - d)]
  <2>1. d <= a
    BY <1>5, <1>6, <1>7, <1>8
  <2>2. ASSUME NEW i \in 1..d PROVE i + (a - d) \in 1..a /\ slots'[i] = all[i + (a - d)]
    <3>1. i + (c - d) \in 1..c /\ slots'[i] = window[i + (c - d)]
      BY <1>8
    <3>2. (i + (c - d)) + (b - c) \in 1..b /\ window[i + (c - d)] = recent[(i + (c - d)) + (b - c)]
      BY <1>7, <3>1
    <3>3. (i + (c - d)) + (b - c) = i + (b - d)
      BY <1>6, <1>7, <1>8
    <3>4. (i + (b - d)) + (a - b) \in 1..a /\ recent[i + (b - d)] = all[(i + (b - d)) + (a - b)]
      BY <1>6, <3>2, <3>3
    <3>5. (i + (b - d)) + (a - b) = i + (a - d)
      BY <1>5, <1>6, <1>7, <1>8
    <3> QED
      BY <3>1, <3>2, <3>3, <3>4, <3>5
  <2> QED
    BY <2>1, <2>2
<1>10. \A i \in 1..a : all[i] < seqNext'
  <2> DEFINE S == ToSet(all) \cup {0}
             g == Max(S)
  <2>1. DOMAIN all = 1..a /\ \A n \in 1..a : all[n] \in 1..MaxSeq
    BY <1>5, LenProperties, ElementOfSeq DEF a
  <2>2. ToSet(all) = {all[n] : n \in 1..a}
    BY <2>1 DEF ToSet
  <2>3. S \in SUBSET (0..MaxSeq) /\ S # {}
    BY <2>1, <2>2, SizesAre
  <2>4. \A n \in 1..a : all[n] \in S
    BY <2>2
  <2> HIDE DEF S
  <2>5. g \in S /\ \A y \in S : y <= g
    BY <2>3, SizesAre, GreatestOf
  <2>6. seqNext' = 1 + g
    BY <1>3 DEF S
  <2> HIDE DEF g
  <2>7. g \in 0..MaxSeq
    BY <2>3, <2>5
  <2> SUFFICES ASSUME NEW i \in 1..a PROVE all[i] < seqNext'
    OBVIOUS
  <2>8. all[i] <= g /\ all[i] \in 1..MaxSeq
    BY <2>1, <2>4, <2>5
  <2> QED
    BY <2>6, <2>7, <2>8, SizesAre
<1>11. RingRises'
  <2>1. ASSUME NEW p \in 1..d, NEW q \in 1..d, p < q
        PROVE  IF p <= 0 /\ 0 < q THEN slots'[q] < slots'[p] ELSE slots'[p] < slots'[q]
    <3>1. ~(p <= 0) /\ p + (a - d) < q + (a - d)
      BY <1>5, <1>8, <2>1
    <3>2. slots'[p] < slots'[q]
      BY <1>5, <1>9, <3>1
    <3> QED
      BY <3>1, <3>2
  <2>2. \A i \in 1..d : slots'[i] < seqNext'
    BY <1>9, <1>10
  <2> QED
    BY <1>3, <2>1, <2>2 DEF RingRises, d
<1>12. TornLine'
  BY <1>0, <1>1, LeftoversTorn DEF TornLine
<1>13. Uncleared' = disk'.lines /\ Coming' = {}
  <2>1. Len(chain') = 0 /\ write'.how = "none"
    BY <1>1, EmptySeq DEF NoWrite
  <2> QED
    BY <2>1 DEF Uncleared, BegunLines, BegunOf, Coming, ClearWaits
<1>14. \A x : (AtLast(x))' <=> \E i \in 1..Len(disk'.lines) : disk'.lines[i] = x
  BY <1>13 DEF AtLast
<1>15. \A x : (InSlots(x))' <=> \E i \in 1..d : slots'[i] = x
  BY DEF InSlots, d
<1>16. BothEndAlike'
  <2> SUFFICES ASSUME NEW x \in 1..MaxSeq, NEW y \in 1..MaxSeq, (AtLast(x))', (InSlots(y))'
               PROVE  ((InSlots(x))' \/ x < y) /\ (AtLast(y))'
    BY DEF BothEndAlike
  <2>1. PICK k \in 1..d : slots'[k] = y
    BY <1>15
  <2>2. k + (a - d) \in 1..a /\ all[k + (a - d)] = y
    BY <1>9, <2>1
  <2>3. (AtLast(y))'
    BY <1>5, <1>14, <2>2
  <2>4. PICK n \in 1..a : all[n] = x
    <3>1. x # 0
      BY SizesAre
    <3> QED
      BY <1>5, <1>14, <3>1
  <2>5. CASE n > a - d
    <3>1. n - (a - d) \in 1..d /\ (n - (a - d)) + (a - d) = n
      BY <1>5, <1>8, <1>9, <2>5
    <3>2. slots'[n - (a - d)] = x
      BY <1>9, <2>4, <3>1
    <3> QED
      BY <1>15, <2>3, <3>1, <3>2
  <2>6. CASE ~(n > a - d)
    <3>1. n < k + (a - d)
      BY <1>5, <1>8, <2>6
    <3> QED
      BY <1>5, <2>2, <2>3, <2>4, <3>1
  <2> QED
    BY <2>5, <2>6
<1>17. EnoughIsLeft'
  <2>1. Cardinality(Coming') = 0 /\ Len(disk'.lines) \in Nat
    BY <1>4, <1>13, FS_EmptySet, LinesAre DEF FileOfRecords
  <2>2. Len(disk'.lines) + 0 >= d
    BY <1>5, <1>8, <1>9, <2>1
  <2> QED
    BY <1>13, <2>1, <2>2 DEF EnoughIsLeft, d
<1> QED
  BY <1>11, <1>12, <1>16, <1>17 DEF JournalReplayInv

(* Every step leaves the two alike.                                        *)
LEMMA JournalReplayStays ==
  ASSUME JournalInv, JournalReplayInv, JNext \/ UNCHANGED jvars
  PROVE  JournalReplayInv'
<1>1. CASE UNCHANGED jvars
  <2>1. /\ slots' = slots /\ oldest' = oldest /\ seqNext' = seqNext /\ chain' = chain /\ write' = write
        /\ disk' = disk /\ short' = short
    BY <1>1 DEF jvars, buffer
  <2>2. Coming' = Coming /\ Uncleared' = Uncleared
    BY <2>1, SameChain DEF Uncleared, BegunLines
  <2> QED
    BY <2>1, <2>2 DEF JournalReplayInv, RingRises, TornLine, BothEndAlike, EnoughIsLeft, AtLast, InSlots
<1> QED
  BY <1>1, RecordReplays, ClearAgentReplays, TearDownReplays, BeginOperationReplays, JournalDiskReplays, JRestartReplays
     DEF JNext

(* Of two ascending lists, if what only the first has is older than all of *)
(* the second: from where they are equal on, the first is no greater.      *)
LEMMA NotGreater ==
  ASSUME NEW A \in Seq(1..MaxSeq), NEW S \in Seq(1..MaxSeq),
         Ascending(A, Len(A)), Ascending(S, Len(S)),
         \A i \in 1..Len(A), k \in 1..Len(S) : (\E j \in 1..Len(S) : S[j] = A[i]) \/ A[i] < S[k],
         NEW n \in Nat, n <= Len(A), n <= Len(S), NEW p \in 1..n,
         \A i \in (p + 1)..n : A[i + (Len(A) - n)] = S[i + (Len(S) - n)]
  PROVE  A[p + (Len(A) - n)] <= S[p + (Len(S) - n)]
<1> DEFINE la == Len(A)
           ls == Len(S)
<1>1. la \in Nat /\ ls \in Nat /\ (\A i \in 1..la : A[i] \in 1..MaxSeq) /\ (\A i \in 1..ls : S[i] \in 1..MaxSeq)
  BY LenProperties, ElementOfSeq
<1>2. /\ \A i, k \in 1..la : i < k => A[i] < A[k]
      /\ \A i, k \in 1..ls : i < k => S[i] < S[k]
      /\ \A i \in 1..la, k \in 1..ls : (\E j \in 1..ls : S[j] = A[i]) \/ A[i] < S[k]
      /\ n <= la /\ n <= ls
      /\ \A i \in (p + 1)..n : A[i + (la - n)] = S[i + (ls - n)]
  BY DEF Ascending
<1> HIDE DEF la, ls
<1> SUFFICES ASSUME ~(A[p + (la - n)] <= S[p + (ls - n)]) PROVE FALSE
  BY DEF la, ls
<1>3. p + (la - n) \in 1..la /\ p + (ls - n) \in 1..ls
  BY <1>1, <1>2
<1> DEFINE a == A[p + (la - n)]
           s == S[p + (ls - n)]
<1>4. a \in Nat /\ s \in Nat /\ s < a
  <2>1. a \in 1..MaxSeq /\ s \in 1..MaxSeq /\ ~(a <= s)
    BY <1>1, <1>3
  <2> HIDE DEF a, s
  <2> QED
    BY <2>1, SizesAre
<1>5. PICK j \in 1..ls : S[j] = a
  BY <1>2, <1>3, <1>4
<1>6. j > p + (ls - n)
  <2>1. CASE j = p + (ls - n)
    BY <1>4, <1>5, <2>1
  <2>2. CASE j < p + (ls - n)
    BY <1>2, <1>3, <1>4, <1>5, <2>2
  <2> QED
    BY <1>1, <1>3, <2>1, <2>2
<1> DEFINE q == j - (ls - n)
<1>7. q \in (p + 1)..n /\ q + (ls - n) = j /\ q + (la - n) \in 1..la /\ p + (la - n) < q + (la - n)
  BY <1>1, <1>2, <1>6
<1> HIDE DEF q
<1>8. A[q + (la - n)] = a /\ a < A[q + (la - n)]
  BY <1>2, <1>3, <1>5, <1>7
<1> QED
  BY <1>4, <1>8

(* Of two ascending lists of which each has but older ones for itself, the *)
(* newest are the same.                                                    *)
LEMMA AlikeEnds ==
  ASSUME NEW A \in Seq(1..MaxSeq), NEW S \in Seq(1..MaxSeq),
         Ascending(A, Len(A)), Ascending(S, Len(S)),
         \A i \in 1..Len(A), k \in 1..Len(S) : (\E j \in 1..Len(S) : S[j] = A[i]) \/ A[i] < S[k],
         \A i \in 1..Len(S), k \in 1..Len(A) : (\E j \in 1..Len(A) : A[j] = S[i]) \/ S[i] < A[k],
         NEW n \in Nat, n <= Len(A), n <= Len(S)
  PROVE  Newer(A, n) = Newer(S, n)
<1> DEFINE la == Len(A)
           ls == Len(S)
           t == Newer(A, n)
           u == Newer(S, n)
           D == {i \in 1..n : A[i + (la - n)] # S[i + (ls - n)]}
<1>1. la \in Nat /\ ls \in Nat /\ n <= la /\ n <= ls
      /\ (\A i \in 1..la : A[i] \in 1..MaxSeq) /\ (\A i \in 1..ls : S[i] \in 1..MaxSeq)
  BY LenProperties, ElementOfSeq
<1>2. /\ t \in Seq(1..MaxSeq) /\ Len(t) = (IF la > n THEN n ELSE la)
      /\ \A i \in 1..Len(t) : t[i] = A[i + (la - Len(t))]
      /\ u \in Seq(1..MaxSeq) /\ Len(u) = (IF ls > n THEN n ELSE ls)
      /\ \A i \in 1..Len(u) : u[i] = S[i + (ls - Len(u))]
  BY NewerIs
<1> HIDE DEF t, u
<1>3. Len(t) = n /\ Len(u) = n
  BY <1>1, <1>2
<1>4. D = {}
  <2> SUFFICES ASSUME D # {} PROVE FALSE
    OBVIOUS
  <2> DEFINE p == Max(D)
  <2>1. D \in SUBSET (0..n)
    OBVIOUS
  <2> HIDE DEF D
  <2>2. p \in D /\ \A y \in D : y <= p
    BY <2>1, GreatestOf
  <2> HIDE DEF p
  <2>3. p \in 1..n /\ A[p + (la - n)] # S[p + (ls - n)]
    BY <2>2 DEF D
  <2>4. \A i \in (p + 1)..n : A[i + (la - n)] = S[i + (ls - n)]
    <3> SUFFICES ASSUME NEW i \in (p + 1)..n PROVE A[i + (la - n)] = S[i + (ls - n)]
      OBVIOUS
    <3>1. i \in 1..n /\ ~(i <= p)
      BY <2>3
    <3> QED
      BY <2>2, <3>1 DEF D
  <2>5. A[p + (la - n)] <= S[p + (ls - n)]
    BY <1>1, <2>3, <2>4, NotGreater
  <2>6. S[p + (ls - n)] <= A[p + (la - n)]
    <3>1. \A i \in (p + 1)..n : S[i + (ls - n)] = A[i + (la - n)]
      BY <2>4
    <3> QED
      BY <1>1, <2>3, <3>1, NotGreater
  <2>7. p + (la - n) \in 1..la /\ p + (ls - n) \in 1..ls
    BY <1>1, <2>3
  <2>8. A[p + (la - n)] \in 1..MaxSeq /\ S[p + (ls - n)] \in 1..MaxSeq
    BY <1>1, <2>7
  <2> QED
    BY <2>3, <2>5, <2>6, <2>8, SizesAre
<1>5. \A i \in 1..n : t[i] = u[i]
  <2> SUFFICES ASSUME NEW i \in 1..n PROVE t[i] = u[i]
    OBVIOUS
  <2>1. A[i + (la - n)] = S[i + (ls - n)]
    BY <1>4
  <2>2. t[i] = A[i + (la - n)] /\ u[i] = S[i + (ls - n)]
    BY <1>2, <1>3
  <2> QED
    BY <2>1, <2>2
<1>6. t = u
  BY <1>2, <1>3, <1>5, SeqEqual
<1> QED
  BY <1>6 DEF t, u

(* Where the i-th of what the buffer holds is.                             *)
SlotOf(i) == IF oldest + i <= Len(slots) THEN oldest + i ELSE oldest + i - Len(slots)

(* What the dashboard shows: the slots, ascending.                         *)
LEMMA RingShows ==
  ASSUME JournalTypes, RingRises
  PROVE  /\ Snapshot \in Seq(1..MaxSeq) /\ Len(Snapshot) = held /\ held = Len(slots) /\ held \in Nat
         /\ Ascending(Snapshot, held)
         /\ \A x : InSlots(x) <=> \E i \in 1..held : Snapshot[i] = x
<1> DEFINE n == Len(slots)
<1>1. /\ slots \in Seq(1..MaxSeq) /\ n \in Nat /\ n <= BufferSize /\ oldest \in 0..(BufferSize - 1) /\ held = n
      /\ (\A i \in 1..n : slots[i] \in 1..MaxSeq) /\ BufferSize \in Nat /\ BufferSize > 0
  BY SizesAre, LenProperties, ElementOfSeq DEF JournalTypes
<1>2. /\ n < BufferSize => oldest = 0
      /\ \A p, q \in 1..n : p < q =>
           IF p <= oldest /\ oldest < q THEN slots[q] < slots[p] ELSE slots[p] < slots[q]
  BY DEF RingRises
<1>3. Snapshot = [i \in 1..n |-> slots[((oldest + i - 1) % n) + 1]]
  BY <1>1 DEF Snapshot
<1>a. \A i : SlotOf(i) = IF oldest + i <= n THEN oldest + i ELSE oldest + i - n
  BY DEF SlotOf
<1> HIDE DEF n
<1>4. \A i \in 1..n : ((oldest + i - 1) % n) + 1 = SlotOf(i) /\ SlotOf(i) \in 1..n
  <2> SUFFICES ASSUME NEW i \in 1..n PROVE ((oldest + i - 1) % n) + 1 = SlotOf(i) /\ SlotOf(i) \in 1..n
    OBVIOUS
  <2>1. oldest \in 0..(n - 1) /\ n > 0
    BY <1>1, <1>2
  <2>2. CASE oldest + i <= n
    <3>1. oldest + i - 1 \in 0..(n - 1)
      BY <1>1, <2>1, <2>2
    <3>2. (oldest + i - 1) % n = oldest + i - 1
      BY <1>1, <2>1, <3>1, Around
    <3>3. SlotOf(i) = oldest + i
      BY <1>a, <2>2
    <3> QED
      BY <1>1, <2>1, <2>2, <3>2, <3>3
  <2>3. CASE ~(oldest + i <= n)
    <3> DEFINE j == oldest + i - 1 - n
    <3>1. j \in 0..(n - 1) /\ j + n = oldest + i - 1
      BY <1>1, <2>1, <2>3
    <3> HIDE DEF j
    <3>2. (oldest + i - 1) % n = j
      BY <1>1, <2>1, <3>1, Around
    <3>3. SlotOf(i) = oldest + i - n
      BY <1>a, <2>3
    <3> QED
      BY <1>1, <2>1, <2>3, <3>1, <3>2, <3>3
  <2> QED
    BY <2>2, <2>3
<1>5. DOMAIN Snapshot = 1..n /\ \A i \in 1..n : Snapshot[i] = slots[SlotOf(i)]
  BY <1>3, <1>4
<1>6. Snapshot \in [1..n -> 1..MaxSeq]
  BY <1>1, <1>3, <1>4
<1>7. Snapshot \in Seq(1..MaxSeq) /\ Len(Snapshot) = n
  <2>1. Snapshot \in Seq(1..MaxSeq)
    BY <1>1, <1>6, SeqDef
  <2> QED
    BY <1>1, <1>5, <2>1, LenProperties
<1>8. ASSUME NEW i \in 1..n, NEW k \in 1..n, i < k PROVE Snapshot[i] < Snapshot[k]
  <2>1. SlotOf(i) \in 1..n /\ SlotOf(k) \in 1..n /\ Snapshot[i] = slots[SlotOf(i)] /\ Snapshot[k] = slots[SlotOf(k)]
    BY <1>4, <1>5
  <2>2. CASE SlotOf(i) < SlotOf(k)
    <3>1. ~(SlotOf(i) <= oldest /\ oldest < SlotOf(k))
      BY <1>1, <1>a, <1>8, <2>2
    <3> QED
      BY <1>2, <2>1, <2>2, <3>1
  <2>3. CASE SlotOf(k) < SlotOf(i)
    <3>1. SlotOf(k) <= oldest /\ oldest < SlotOf(i)
      BY <1>1, <1>a, <1>8, <2>3
    <3> QED
      BY <1>2, <2>1, <2>3, <3>1
  <2>4. SlotOf(i) # SlotOf(k)
    BY <1>1, <1>a, <1>8
  <2> QED
    BY <2>1, <2>2, <2>3, <2>4
<1>9. \A x : InSlots(x) <=> \E i \in 1..n : Snapshot[i] = x
  <2> SUFFICES ASSUME NEW x PROVE InSlots(x) <=> \E i \in 1..n : Snapshot[i] = x
    OBVIOUS
  <2>1. InSlots(x) <=> \E i \in 1..n : slots[i] = x
    BY DEF InSlots, n
  <2>2. ASSUME NEW k \in 1..n PROVE \E i \in 1..n : SlotOf(i) = k
    <3>1. oldest \in 0..(n - 1) /\ n > 0
      BY <1>1, <1>2
    <3>2. CASE k > oldest
      <4>1. k - oldest \in 1..n /\ SlotOf(k - oldest) = k
        BY <1>1, <1>a, <3>1, <3>2
      <4> QED
        BY <4>1
    <3>3. CASE ~(k > oldest)
      <4>1. k + n - oldest \in 1..n /\ SlotOf(k + n - oldest) = k
        BY <1>1, <1>a, <3>1, <3>3
      <4> QED
        BY <4>1
    <3> QED
      BY <3>2, <3>3
  <2> QED
    BY <1>4, <1>5, <2>1, <2>2
<1>10. Ascending(Snapshot, n)
  BY <1>8 DEF Ascending
<1>11. held = n /\ n = Len(slots)
  BY <1>1 DEF n
<1> QED
  BY <1>1, <1>7, <1>9, <1>10, <1>11

(* Where the last clear or the last compaction of the chain is.            *)
LEMMA LastOfIs ==
  ASSUME chain \in Seq(Chained), NEW o \in Int
  PROVE  /\ Len(chain) \in Nat /\ LastOf(o) \in 0..Len(chain)
         /\ LastOf(o) > 0 => chain[LastOf(o)] = o
         /\ \A i \in 1..Len(chain) : chain[i] = o => i <= LastOf(o)
<1> DEFINE m == Len(chain)
           S == {0} \cup {i \in DOMAIN chain : chain[i] = o}
<1>1. m \in Nat /\ DOMAIN chain = 1..m
  BY LenProperties
<1> HIDE DEF m
<1>2. S \in SUBSET (0..m) /\ S # {}
  BY <1>1
<1>3. (\A i \in S : i = 0 \/ chain[i] = o) /\ \A i \in 1..m : chain[i] = o => i \in S
  BY <1>1
<1>4. LastOf(o) = Max(S)
  BY DEF LastOf
<1> HIDE DEF S
<1>5. Max(S) \in S /\ \A y \in S : y <= Max(S)
  BY <1>1, <1>2, GreatestOf
<1>6. LastOf(o) \in 0..m /\ LastOf(o) \in S
  BY <1>2, <1>4, <1>5
<1>7. LastOf(o) > 0 => chain[LastOf(o)] = o
  BY <1>3, <1>6
<1>8. \A i \in 1..m : chain[i] = o => i <= LastOf(o)
  BY <1>3, <1>4, <1>5
<1> QED
  BY <1>1, <1>6, <1>7, <1>8 DEF m

(* What waits to be appended is what is to come, in order.                 *)
LEMMA AwaitedIs ==
  ASSUME JournalTypes, LinesRise
  PROVE  /\ Awaited \in RecordLines /\ Rising(Awaited) /\ Len(Awaited) \in Nat /\ Len(Awaited) = Cardinality(Coming)
         /\ \A r : r \in Coming <=> \E n \in 1..Len(Awaited) : Awaited[n] = r
         /\ ClearWaits <=> LastOf(Clear) > 0
<1> DEFINE m == Len(chain)
           l == LastOf(Clear)
           P == {i \in (l + 1)..m : chain[i] # Compact}
           c == Cardinality(P)
<1>1. /\ chain \in Seq(Chained) /\ m \in Nat
      /\ \A i \in 1..m : /\ chain[i] \in Int /\ (chain[i] > 0 => chain[i] \in 1..MaxSeq)
                         /\ (chain[i] \notin {-1, -2} => chain[i] > 0)
  BY ComingIs DEF JournalTypes
<1>2. \A i, k \in 1..m : k < i /\ chain[i] > 0 => chain[k] < chain[i]
  <2> SUFFICES ASSUME NEW i \in 1..m, NEW k \in 1..m, k < i, chain[i] > 0 PROVE chain[k] < chain[i]
    OBVIOUS
  <2>1. k \in 1..(i - 1)
    BY <1>1
  <2> QED
    BY <2>1 DEF LinesRise
<1>3. l \in 0..m /\ (l > 0 => chain[l] = -1) /\ \A i \in 1..m : chain[i] = -1 => i <= l
  <2>1. Clear = -1 /\ -1 \in Int
    BY DEF Clear
  <2> QED
    BY <1>1, <2>1, LastOfIs
<1>4. ClearWaits <=> \E i \in 1..m : chain[i] = -1
  BY DEF ClearWaits
<1>5. \A r : r \in Coming <=> r \in 1..MaxSeq /\ \E i \in 1..m : chain[i] = r /\ \A k \in 1..m : k > i => chain[k] # -1
  BY DEF Coming
<1>6. Awaited = Picked(chain, P)
  BY DEF Awaited
<1>7. /\ P \in SUBSET (1..m) /\ P \in SUBSET (1..Len(chain))
      /\ \A i : i \in P <=> i \in (l + 1)..m /\ chain[i] # -2
  BY <1>1, <1>3 DEF Compact
<1> HIDE DEF m, l, P, c
<1>8. /\ Awaited \in Seq(Chained) /\ Len(Awaited) = c /\ c \in Nat
      /\ Nth(P) \in [1..c -> P]
      /\ Ascending(Nth(P), c)
      /\ \A i \in P : \E n \in 1..c : Nth(P)[n] = i
      /\ \A n \in 1..c : Awaited[n] = chain[Nth(P)[n]]
  BY <1>1, <1>6, <1>7, PickedIs DEF c
<1>9. \A i \in P : i \in 1..m /\ chain[i] > 0 /\ chain[i] \in 1..MaxSeq /\ chain[i] \in Coming
  <2> SUFFICES ASSUME NEW i \in P PROVE i \in 1..m /\ chain[i] > 0 /\ chain[i] \in 1..MaxSeq /\ chain[i] \in Coming
    OBVIOUS
  <2>1. i \in (l + 1)..m /\ i \in 1..m /\ chain[i] # -2
    BY <1>7
  <2>2. chain[i] # -1
    BY <1>3, <2>1
  <2>3. chain[i] > 0 /\ chain[i] \in 1..MaxSeq
    BY <1>1, <2>1, <2>2
  <2>4. \A k \in 1..m : k > i => chain[k] # -1
    BY <1>1, <1>3, <2>1
  <2> QED
    BY <1>5, <2>1, <2>3, <2>4
<1>10. \A r \in Coming : r \in 1..MaxSeq /\ \E i \in P : chain[i] = r
  <2> SUFFICES ASSUME NEW r \in Coming PROVE r \in 1..MaxSeq /\ \E i \in P : chain[i] = r
    OBVIOUS
  <2>1. PICK i \in 1..m : chain[i] = r /\ \A k \in 1..m : k > i => chain[k] # -1
    BY <1>5
  <2>2. r \in 1..MaxSeq /\ r # -2
    BY <1>5
  <2>3. ~(l >= i)
    <3> SUFFICES ASSUME l >= i PROVE FALSE
      OBVIOUS
    <3>1. l \in 1..m /\ chain[l] = -1
      BY <1>1, <1>3
    <3>2. l # i
      BY <2>1, <2>2, <3>1
    <3> QED
      BY <1>1, <2>1, <3>1, <3>2
  <2>4. i \in (l + 1)..m
    BY <1>1, <1>3, <2>3
  <2> QED
    BY <1>7, <2>1, <2>2, <2>4
<1>11. \A n \in 1..c : Nth(P)[n] \in P /\ Awaited[n] \in Coming /\ Awaited[n] \in 1..MaxSeq
  BY <1>8, <1>9
<1>12. \A i, k \in 1..c : i < k => Awaited[i] < Awaited[k]
  <2> SUFFICES ASSUME NEW i \in 1..c, NEW k \in 1..c, i < k PROVE Awaited[i] < Awaited[k]
    OBVIOUS
  <2>1. Nth(P)[i] < Nth(P)[k] /\ Nth(P)[i] \in P /\ Nth(P)[k] \in P
    BY <1>8, <1>11 DEF Ascending
  <2> QED
    BY <1>2, <1>8, <1>9, <2>1
<1>13. \A r : r \in Coming <=> \E n \in 1..c : Awaited[n] = r
  <2>1. ASSUME NEW r \in Coming PROVE \E n \in 1..c : Awaited[n] = r
    <3>1. PICK i \in P : chain[i] = r
      BY <1>10
    <3> QED
      BY <1>8, <3>1
  <2> QED
    BY <1>11, <2>1
<1>14. Awaited \in RecordLines
  <2>1. DOMAIN Awaited = 1..c /\ Awaited = [n \in 1..c |-> Awaited[n]]
    BY <1>8, LenProperties
  <2>2. \A n \in 1..c : Awaited[n] \in 0..MaxSeq
    <3> TAKE n \in 1..c
    <3>1. Awaited[n] \in 1..MaxSeq
      BY <1>11
    <3> QED
      BY <3>1, SizesAre
  <2>3. Awaited \in [1..c -> 0..MaxSeq]
    BY <2>1, <2>2
  <2>4. c \in Nat /\ Seq(0..MaxSeq) = UNION {[1..n -> 0..MaxSeq] : n \in Nat}
    BY <1>8, SeqDef
  <2>5. Awaited \in Seq(0..MaxSeq)
    BY <2>3, <2>4
  <2> QED
    BY <2>5 DEF RecordLines
<1>15. c = Cardinality(Coming)
  <2> DEFINE f == [n \in 1..c |-> Awaited[n]]
  <2>1. f \in [1..c -> Coming]
    BY <1>11
  <2>2. \A i, k \in 1..c : f[i] = f[k] => i = k
    <3> SUFFICES ASSUME NEW i \in 1..c, NEW k \in 1..c, Awaited[i] = Awaited[k] PROVE i = k
      OBVIOUS
    <3>1. Awaited[i] \in Int /\ Awaited[k] \in Int
      BY <1>11, SizesAre
    <3>2. ~(i < k) /\ ~(k < i)
      BY <1>12, <3>1
    <3> QED
      BY <3>2
  <2>3. \A r \in Coming : \E n \in 1..c : f[n] = r
    BY <1>13
  <2> HIDE DEF f
  <2>4. f \in Bijection(1..c, Coming)
    BY <2>1, <2>2, <2>3 DEF Bijection, Injection, Surjection, IsInjective
  <2> QED
    BY <1>8, <2>4, FS_CountingElements DEF ExistsBijection
<1>16. Rising(Awaited)
  BY <1>8, <1>12 DEF Rising
<1>17. ClearWaits <=> l > 0
  <2>1. ASSUME NEW i \in 1..m, chain[i] = -1 PROVE l > 0
    BY <1>3, <2>1
  <2>2. ASSUME l > 0 PROVE l \in 1..m /\ chain[l] = -1
    BY <1>3, <2>2
  <2> QED
    BY <1>4, <2>1, <2>2
<1> QED
  BY <1>8, <1>13, <1>14, <1>15, <1>16, <1>17 DEF l

(* All that no clear removes, in order.                                    *)
LEMMA AllIs ==
  ASSUME JournalTypes, LinesRise
  PROVE  LET all == Uncleared \o Awaited IN
         /\ all \in RecordLines /\ Rising(all)
         /\ Len(all) = Len(Uncleared) + Cardinality(Coming) /\ Len(all) \in Nat
         /\ \A r : AtLast(r) <=> \E i \in 1..Len(all) : all[i] = r
<1> DEFINE u == Uncleared
           v == Awaited
           all == u \o v
           m == Len(u)
           n == Len(v)
<1>1. /\ u \in RecordLines /\ Rising(u) /\ m \in Nat
      /\ v \in RecordLines /\ Rising(v) /\ n \in Nat /\ n = Cardinality(Coming)
      /\ \A r : r \in Coming <=> \E i \in 1..n : v[i] = r
      /\ \A r \in Coming : \A i \in 1..m : u[i] < r
  BY BegunIs, AwaitedIs, ComingIsLate
<1>2. \A r : AtLast(r) <=> r \in Coming \/ \E i \in 1..m : u[i] = r
  BY DEF AtLast
<1> HIDE DEF u, v
<1>3. all \in RecordLines /\ Len(all) = m + n /\ \A i \in 1..(m + n) : all[i] = IF i <= m THEN u[i] ELSE v[i - m]
  BY <1>1, ConcatProperties DEF RecordLines
<1> HIDE DEF all
<1>4. (\A i, k \in 1..m : i < k /\ u[i] # 0 /\ u[k] # 0 => u[i] < u[k])
      /\ \A i, k \in 1..n : i < k /\ v[i] # 0 /\ v[k] # 0 => v[i] < v[k]
  BY <1>1 DEF Rising
<1> HIDE DEF m, n
<1>5. /\ \A i \in 1..(m + n) : (i \in 1..m /\ all[i] = u[i]) \/ (i > m /\ i - m \in 1..n /\ all[i] = v[i - m])
      /\ \A i \in 1..m : i \in 1..(m + n) /\ all[i] = u[i]
      /\ \A i \in 1..n : i + m \in 1..(m + n) /\ all[i + m] = v[i]
  <2>1. ASSUME NEW i \in 1..(m + n)
        PROVE  (i \in 1..m /\ all[i] = u[i]) \/ (i > m /\ i - m \in 1..n /\ all[i] = v[i - m])
    <3>1. CASE i <= m
      <4>1. i \in 1..m
        BY <1>1, <3>1
      <4> QED
        BY <1>3, <3>1, <4>1
    <3>2. CASE ~(i <= m)
      <4>1. i > m /\ i - m \in 1..n
        BY <1>1, <3>2
      <4> QED
        BY <1>3, <3>2, <4>1
    <3> QED
      BY <3>1, <3>2
  <2>2. ASSUME NEW i \in 1..m PROVE i \in 1..(m + n) /\ all[i] = u[i]
    <3>1. i \in 1..(m + n) /\ i <= m
      BY <1>1
    <3> QED
      BY <1>3, <3>1
  <2>3. ASSUME NEW i \in 1..n PROVE i + m \in 1..(m + n) /\ all[i + m] = v[i]
    <3>1. i + m \in 1..(m + n) /\ ~(i + m <= m) /\ (i + m) - m = i
      BY <1>1
    <3> QED
      BY <1>3, <3>1
  <2> QED
    BY <2>1, <2>2, <2>3
<1>6. \A r : AtLast(r) <=> \E i \in 1..(m + n) : all[i] = r
  <2> SUFFICES ASSUME NEW r PROVE AtLast(r) <=> \E i \in 1..(m + n) : all[i] = r
    OBVIOUS
  <2>1. (\E i \in 1..(m + n) : all[i] = r) <=> (\E i \in 1..n : v[i] = r) \/ \E i \in 1..m : u[i] = r
    BY <1>5
  <2> QED
    BY <1>1, <1>2, <2>1
<1>7. ASSUME NEW i \in 1..(m + n), NEW k \in 1..(m + n), i < k, all[i] # 0, all[k] # 0 PROVE all[i] < all[k]
  <2>1. CASE i \in 1..m /\ k \in 1..m
    <3>1. all[i] = u[i] /\ all[k] = u[k]
      BY <1>5, <2>1
    <3> QED
      BY <1>4, <1>7, <2>1, <3>1
  <2>2. CASE i \in 1..m /\ k - m \in 1..n /\ all[k] = v[k - m]
    <3>1. all[i] = u[i] /\ all[k] \in Coming
      BY <1>1, <1>5, <2>2
    <3> QED
      BY <1>1, <2>2, <3>1
  <2>3. CASE i > m /\ i - m \in 1..n /\ all[i] = v[i - m]
    <3>1. k > m /\ ~(k \in 1..m)
      BY <1>1, <1>7, <2>3
    <3>2. k - m \in 1..n /\ all[k] = v[k - m]
      BY <1>5, <3>1
    <3>3. i - m < k - m
      BY <1>1, <1>7
    <3> QED
      BY <1>4, <1>7, <2>3, <3>2, <3>3
  <2> QED
    BY <1>5, <2>1, <2>2, <2>3
<1>8. Rising(all)
  BY <1>3, <1>7 DEF Rising
<1>9. m + n \in Nat /\ Len(u) = m
  BY <1>1 DEF m
<1> QED
  BY <1>1, <1>3, <1>6, <1>8, <1>9 DEF u, v, all

(* The end of an end is an end, and ascends as the whole does. *)
LEMMA EndOfEnd ==
  ASSUME NEW s \in RecordLines, NEW t \in RecordLines, NEW u \in RecordLines, IsEnd(t, s), IsEnd(u, t), Rising(s)
  PROVE  IsEnd(u, s) /\ Rising(u)
<1> DEFINE l == Len(s)
           m == Len(t)
           n == Len(u)
<1>1. /\ l \in Nat /\ m \in Nat /\ n \in Nat /\ n <= m /\ m <= l
      /\ (\A i \in 1..m : t[i] = s[i + (l - m)]) /\ \A i \in 1..n : u[i] = t[i + (m - n)]
  BY LinesAre DEF IsEnd
<1>2. \A i, k \in 1..l : i < k /\ s[i] # 0 /\ s[k] # 0 => s[i] < s[k]
  BY DEF Rising
<1> HIDE DEF l, m, n
<1>3. ASSUME NEW i \in 1..n PROVE u[i] = s[i + (l - n)] /\ i + (l - n) \in 1..l
  <2>1. i + (m - n) \in 1..m /\ (i + (m - n)) + (l - m) = i + (l - n) /\ i + (l - n) \in 1..l
    BY <1>1
  <2> QED
    BY <1>1, <2>1
<1>4. ASSUME NEW i \in 1..n, NEW k \in 1..n, i < k, u[i] # 0, u[k] # 0 PROVE u[i] < u[k]
  <2>1. i + (l - n) < k + (l - n)
    BY <1>1, <1>4
  <2> QED
    BY <1>2, <1>3, <1>4, <2>1
<1>5. n <= l
  BY <1>1
<1> QED
  BY <1>3, <1>4, <1>5 DEF IsEnd, Rising, l, n

(* What no clear removes of a file that is not torn is what it will have. *)
LEMMA OfFileIs ==
  ASSUME JournalTypes, LinesRise, ~disk.torn
  PROVE  OfFile = Uncleared
<1>1. ClearWaits <=> LastOf(Clear) > 0
  BY AwaitedIs
<1>2. write.how \in Hows
  BY DEF JournalTypes
<1>3. CASE ClearWaits
  BY <1>1, <1>3 DEF OfFile, Uncleared
<1>4. CASE ~ClearWaits /\ write.how = "read"
  BY <1>1, <1>4 DEF OfFile, Uncleared, BegunLines, BegunOf
<1>5. CASE ~ClearWaits /\ write.how = "append"
  <2>1. Written(disk, write) = Whole(Append(disk.lines, write.lines[1]))
    BY <1>5 DEF Written, Added
  <2>2. Written(disk, write).lines = Append(disk.lines, write.lines[1])
    BY <2>1 DEF Whole
  <2> QED
    BY <1>1, <1>5, <2>2 DEF OfFile, Uncleared, BegunLines, BegunOf
<1>6. CASE ~ClearWaits /\ write.how = "none"
  BY <1>1, <1>6 DEF OfFile, Uncleared, BegunLines, BegunOf, Written
<1>7. CASE ~ClearWaits /\ write.how \in {"clear", "rewrite", "truncated"}
  <2>1. Written(disk, write).lines = write.lines
    BY <1>7 DEF Written, Whole
  <2> QED
    BY <1>1, <1>7, <2>1 DEF OfFile, Uncleared, BegunLines, BegunOf
<1> QED
  BY <1>2, <1>3, <1>4, <1>5, <1>6, <1>7 DEF Hows

(* The file ends as all that no clear removes, if not shorter than it may. *)
LEMMA AfterChainIs ==
  ASSUME JournalTypes, LinesRise, ~disk.torn
  PROVE  /\ AfterChain \in RecordLines /\ Len(AfterChain) \in Nat /\ IsEnd(AfterChain, Uncleared \o Awaited)
         /\ Len(AfterChain) = Len(Uncleared \o Awaited) \/ Len(AfterChain) >= Persisted
<1> DEFINE all == Uncleared \o Awaited
           k == Persisted + Len(chain) - LastOf(Compact)
<1>1. all \in RecordLines /\ Len(all) \in Nat
  BY AllIs
<1>2. OfFile \o Awaited = all
  BY OfFileIs
<1>3. k \in Nat /\ k >= Persisted
  <2>1. Compact \in Int /\ chain \in Seq(Chained)
    BY DEF Compact, JournalTypes
  <2>2. Len(chain) \in Nat /\ LastOf(Compact) \in 0..Len(chain)
    BY <2>1, LastOfIs
  <2> QED
    BY <2>2, SizesAre
<1> HIDE DEF all, k
<1>4. AfterChain = all \/ AfterChain = Newer(all, k)
  BY <1>2 DEF AfterChain, k
<1>5. CASE AfterChain = all
  BY <1>1, <1>5, SameIsEnd DEF all
<1>6. CASE AfterChain = Newer(all, k)
  BY <1>1, <1>3, <1>6, NewerIsEnd DEF all
<1> QED
  BY <1>4, <1>5, <1>6

(* Once all is written the file ends as the buffer does.                   *)
LEMMA JournalFileReplays ==
  ASSUME JournalInv, JournalReplayInv
  PROVE  JournalReplays
<1> DEFINE all == Uncleared \o Awaited
           kept == Newer(AfterChain, BufferSize)
           n == Min({Len(kept), held})
<1> SUFFICES ASSUME ~short, 0 \notin ToSet(disk.lines \o AfterChain)
             PROVE  /\ Newer(kept, n) = Newer(Snapshot, n)
                    /\ held >= Persisted => Len(kept) >= Min({Persisted, BufferSize})
  BY DEF JournalReplays
<1>1. /\ JournalTypes /\ LinesRise /\ disk.lines \in RecordLines
      /\ RingRises /\ TornLine /\ BothEndAlike /\ EnoughIsLeft
  BY DEF JournalInv, JournalReplayInv, JournalTypes, FileOfRecords
<1>2. AfterChain \in RecordLines /\ Len(AfterChain) \in Nat
  <2>1. all \in RecordLines /\ OfFile \in RecordLines /\ Awaited \in RecordLines
    <3>1. Awaited \in RecordLines /\ Uncleared \in RecordLines /\ all \in RecordLines
      BY <1>1, AwaitedIs, BegunIs, AllIs
    <3>2. OfFile \in RecordLines
      <4>1. write \in [how : Hows, lines : RecordLines] /\ disk \in FileOfRecords
        BY <1>1 DEF JournalTypes
      <4>2. Newer(disk.lines, Persisted) \in RecordLines /\ <<>> \in RecordLines
        BY <1>1, SizesAre, NewerIsEnd DEF RecordLines
      <4>3. Written(disk, write).lines \in RecordLines
        <5>1. ASSUME write.how = "append" PROVE Added(disk, write.lines[1]).lines \in RecordLines
          <6>1. write.lines[1] \in 0..MaxSeq
            BY <1>1, <5>1, AppendingIs, SizesAre
          <6>2. Append(disk.lines, write.lines[1]) \in RecordLines
            BY <1>1, <6>1, AppendProperties DEF RecordLines
          <6> QED
            BY <1>1, <6>2 DEF Added, Whole
        <5>2. CASE write.how = "append"
          <6>1. Written(disk, write) = Added(disk, write.lines[1])
            BY <5>2 DEF Written
          <6> QED
            BY <5>1, <5>2, <6>1
        <5>3. CASE write.how \in {"clear", "rewrite", "truncated"}
          <6>1. Written(disk, write).lines = write.lines
            BY <5>3 DEF Written, Whole
          <6> QED
            BY <4>1, <6>1
        <5>4. CASE write.how \notin {"append", "clear", "rewrite", "truncated"}
          <6>1. Written(disk, write) = disk
            BY <5>4 DEF Written
          <6> QED
            BY <1>1, <6>1
        <5> QED
          BY <5>2, <5>3, <5>4
      <4> QED
        BY <4>2, <4>3 DEF OfFile
    <3> QED
      BY <3>1, <3>2
  <2> DEFINE w == OfFile \o Awaited
             k == Persisted + Len(chain) - LastOf(Compact)
  <2>2. w \in RecordLines
    BY <2>1, ConcatProperties DEF RecordLines
  <2>3. k \in Nat
    <3>1. Compact \in Int /\ chain \in Seq(Chained)
      BY <1>1 DEF Compact, JournalTypes
    <3>2. Len(chain) \in Nat /\ LastOf(Compact) \in 0..Len(chain)
      BY <3>1, LastOfIs
    <3> QED
      BY <3>2, SizesAre
  <2> HIDE DEF w, k
  <2>4. AfterChain = w \/ AfterChain = Newer(w, k)
    BY DEF AfterChain, w, k
  <2>5. Newer(w, k) \in RecordLines
    BY <2>2, <2>3, NewerIsEnd
  <2>6. AfterChain \in RecordLines
    BY <2>2, <2>4, <2>5
  <2> QED
    BY <2>6, LinesAre
<1>3. /\ \A i \in 1..Len(disk.lines) : disk.lines[i] # 0
      /\ \A i \in 1..Len(AfterChain) : AfterChain[i] # 0
  <2> DEFINE d == disk.lines
             e == AfterChain
             w == d \o e
             p == Len(d)
             q == Len(e)
  <2>1. /\ p \in Nat /\ q \in Nat /\ w \in Seq(0..MaxSeq) /\ Len(w) = p + q
        /\ \A i \in 1..(p + q) : w[i] = IF i <= p THEN d[i] ELSE e[i - p]
    BY <1>1, <1>2, LinesAre, ConcatProperties DEF RecordLines
  <2>2. \A i \in 1..(p + q) : w[i] # 0
    BY <2>1, LenProperties DEF ToSet
  <2> HIDE DEF w, d, e, p, q
  <2>3. ASSUME NEW i \in 1..p PROVE d[i] # 0
    <3>1. i \in 1..(p + q) /\ i <= p
      BY <2>1
    <3> QED
      BY <2>1, <2>2, <3>1
  <2>4. ASSUME NEW i \in 1..q PROVE e[i] # 0
    <3>1. i + p \in 1..(p + q) /\ ~(i + p <= p) /\ (i + p) - p = i
      BY <2>1
    <3> QED
      BY <2>1, <2>2, <3>1
  <2> QED
    BY <2>3, <2>4 DEF d, e, p, q
<1>4. ~disk.torn
  BY <1>1, <1>3, LinesAre DEF TornLine
<1>5. /\ all \in RecordLines /\ Rising(all) /\ Len(all) \in Nat
      /\ Len(all) = Len(Uncleared) + Cardinality(Coming)
      /\ \A r : AtLast(r) <=> \E i \in 1..Len(all) : all[i] = r
  BY <1>1, AllIs
<1>6. IsEnd(AfterChain, all) /\ (Len(AfterChain) = Len(all) \/ Len(AfterChain) >= Persisted)
  BY <1>1, <1>4, AfterChainIs
<1>7. /\ kept \in RecordLines /\ IsEnd(kept, AfterChain) /\ Len(kept) \in Nat
      /\ Len(kept) = Len(AfterChain) \/ Len(kept) = BufferSize
  BY <1>2, SizesAre, NewerIsEnd
<1> HIDE DEF all, kept
<1>8. IsEnd(kept, all) /\ Rising(kept)
  BY <1>2, <1>5, <1>6, <1>7, EndOfEnd
<1>9. /\ \A i \in 1..Len(kept) : \E k \in 1..Len(all) : all[k] = kept[i]
      /\ \A k \in 1..Len(all) : all[k] # 0 =>
           (\E i \in 1..Len(kept) : kept[i] = all[k]) \/ \A i \in 1..Len(kept) : kept[i] # 0 => all[k] < kept[i]
  BY <1>5, <1>7, <1>8, EndIs
<1>10. \A i \in 1..Len(kept) : kept[i] # 0 /\ kept[i] \in 1..MaxSeq /\ AtLast(kept[i])
  <2> SUFFICES ASSUME NEW i \in 1..Len(kept) PROVE kept[i] # 0 /\ kept[i] \in 1..MaxSeq /\ AtLast(kept[i])
    OBVIOUS
  <2>1. i + (Len(AfterChain) - Len(kept)) \in 1..Len(AfterChain) /\ kept[i] = AfterChain[i + (Len(AfterChain) - Len(kept))]
    BY <1>2, <1>7 DEF IsEnd
  <2>2. kept[i] # 0 /\ kept[i] \in 0..MaxSeq
    BY <1>3, <1>7, <2>1, LinesAre
  <2> QED
    BY <1>5, <1>9, <2>2, SizesAre
<1>11. kept \in Seq(1..MaxSeq) /\ Ascending(kept, Len(kept))
  <2>1. DOMAIN kept = 1..Len(kept) /\ kept = [i \in 1..Len(kept) |-> kept[i]]
    BY <1>7, LenProperties DEF RecordLines
  <2>2. kept \in [1..Len(kept) -> 1..MaxSeq]
    BY <1>10, <2>1
  <2>3. Seq(1..MaxSeq) = UNION {[1..m -> 1..MaxSeq] : m \in Nat}
    BY SeqDef
  <2>4. kept \in Seq(1..MaxSeq)
    BY <1>7, <2>2, <2>3
  <2>5. Ascending(kept, Len(kept))
    BY <1>8, <1>10 DEF Ascending, Rising
  <2> QED
    BY <2>4, <2>5
<1>12. /\ Snapshot \in Seq(1..MaxSeq) /\ Len(Snapshot) = held /\ held = Len(slots) /\ held \in Nat
       /\ Ascending(Snapshot, held)
       /\ \A x : InSlots(x) <=> \E i \in 1..held : Snapshot[i] = x
  BY <1>1, RingShows
<1>13. \A i \in 1..held : Snapshot[i] \in 1..MaxSeq /\ InSlots(Snapshot[i])
  <2> SUFFICES ASSUME NEW i \in 1..held PROVE Snapshot[i] \in 1..MaxSeq /\ InSlots(Snapshot[i])
    OBVIOUS
  <2>1. Snapshot[i] \in 1..MaxSeq
    BY <1>12, ElementOfSeq
  <2> QED
    BY <1>12, <2>1
<1>14. \A i \in 1..Len(kept), k \in 1..held : (\E j \in 1..held : Snapshot[j] = kept[i]) \/ kept[i] < Snapshot[k]
  <2> SUFFICES ASSUME NEW i \in 1..Len(kept), NEW k \in 1..held
               PROVE  (\E j \in 1..held : Snapshot[j] = kept[i]) \/ kept[i] < Snapshot[k]
    OBVIOUS
  <2>1. InSlots(kept[i]) \/ kept[i] < Snapshot[k]
    BY <1>1, <1>10, <1>13 DEF BothEndAlike
  <2> QED
    BY <1>12, <2>1
<1>15. \A i \in 1..held, k \in 1..Len(kept) : (\E j \in 1..Len(kept) : kept[j] = Snapshot[i]) \/ Snapshot[i] < kept[k]
  <2> SUFFICES ASSUME NEW i \in 1..held, NEW k \in 1..Len(kept)
               PROVE  (\E j \in 1..Len(kept) : kept[j] = Snapshot[i]) \/ Snapshot[i] < kept[k]
    OBVIOUS
  <2>1. AtLast(Snapshot[i]) \/ Snapshot[i] < kept[k]
    BY <1>1, <1>10, <1>13 DEF BothEndAlike
  <2>2. ASSUME AtLast(Snapshot[i])
        PROVE  (\E j \in 1..Len(kept) : kept[j] = Snapshot[i]) \/ Snapshot[i] < kept[k]
    <3>1. PICK q \in 1..Len(all) : all[q] = Snapshot[i]
      BY <1>5, <2>2
    <3>2. Snapshot[i] # 0
      BY <1>13, SizesAre
    <3> QED
      BY <1>9, <1>10, <3>1, <3>2
  <2> QED
    BY <2>1, <2>2
<1>16. n = IF Len(kept) <= held THEN Len(kept) ELSE held
  BY <1>7, <1>12, LesserOf
<1>17. n \in Nat /\ n <= Len(kept) /\ n <= held
  <2> HIDE DEF n
  <2> QED
    BY <1>7, <1>12, <1>16
<1>18. Newer(kept, n) = Newer(Snapshot, n)
  <2> HIDE DEF n
  <2> QED
    BY <1>11, <1>12, <1>14, <1>15, <1>17, AlikeEnds
<1>19. ASSUME held >= Persisted PROVE Len(kept) >= Min({Persisted, BufferSize})
  <2>1. Min({Persisted, BufferSize}) = IF Persisted <= BufferSize THEN Persisted ELSE BufferSize
    BY SizesAre, LesserOf
  <2>2. Len(Uncleared) + Cardinality(Coming) >= Persisted \/ Len(Uncleared) + Cardinality(Coming) >= Len(slots)
    BY <1>1 DEF EnoughIsLeft
  <2>3. Len(all) >= Persisted
    BY <1>5, <1>12, <1>19, <2>2, SizesAre
  <2>4. Len(AfterChain) >= Persisted
    BY <1>6, <2>3
  <2> QED
    BY <1>2, <1>7, <2>1, <2>4, SizesAre
<1> QED
  BY <1>18, <1>19 DEF kept

(***************************************************************************)
(* The notebook and the trail.                                             *)

TextOfNotes == Seq(Note)
TextOfTrail == Seq(TrailEntry)

NotesTypes ==
  /\ cap \in NotebookCaps /\ counter \in 0..MaxNoteId
  /\ notes \in TextOfNotes /\ notesFile \in TextOfNotes /\ notesWaiting \in Seq(TextOfNotes)
  /\ memoryUp \in BOOLEAN
TrailTypes ==
  /\ entryCount \in 0..MaxEntryId
  /\ entries \in TextOfTrail /\ trailFile \in TextOfTrail /\ trailWaiting \in Seq(TextOfTrail)
  /\ historyUp \in BOOLEAN
OtherTypes == batchLost \in BOOLEAN /\ unwritten \subseteq {"notes", "trail"} /\ mstarts \in 1..MaxMStarts

(* The last text that waits is what memory holds, also after a refusal.    *)
NotesHeld ==
  /\ notesWaiting # <<>> => notesWaiting[Len(notesWaiting)] = notes
  /\ notesWaiting = <<>> /\ "notes" \notin unwritten => notesFile = notes
TrailHeld ==
  /\ trailWaiting # <<>> => trailWaiting[Len(trailWaiting)] = entries
  /\ trailWaiting = <<>> /\ "trail" \notin unwritten /\ (historyUp \/ entryCount > 0) => trailFile = entries
NotebookThere == ~batchLost /\ (historyUp => memoryUp)

MemoryInv == NotesTypes /\ TrailTypes /\ OtherTypes /\ NotesHeld /\ TrailHeld /\ NotebookThere

(* The sizes of the notebook and the trail are numbers. *)
LEMMA MemorySizesAre ==
  /\ NotebookCaps \subseteq Nat /\ HistoryMax \in Nat /\ HistoryMax > 0 /\ KeepRecent \in Nat /\ KeepRecent > 0
  /\ NoteImportance \in Importances /\ Importances \subseteq 1..5
  /\ NoteKinds \subseteq {"goal", "keep-in-mind", "thought", "finding"}
  /\ MaxNoteId \in Nat /\ MaxEntryId \in Nat /\ MaxMStarts \in Nat /\ MaxMStarts > 0
BY MemoryAssumption

(* The kinds of notes. *)
LEMMA KindsAre == ToSet(Kinds) = {"goal", "keep-in-mind", "thought", "finding"}
<1>1. DOMAIN Kinds = 1..4 /\ Kinds[1] = "goal" /\ Kinds[2] = "keep-in-mind" /\ Kinds[3] = "thought" /\ Kinds[4] = "finding"
  BY DEF Kinds
<1>2. 1..4 = {1, 2, 3, 4}
  OBVIOUS
<1> QED
  BY <1>1, <1>2 DEF ToSet

(* What the invariant promises of the notebook and the trail. *)
LEMMA MemoryTypeOK == MemoryInv => MTypeOK /\ FilesHoldMemory /\ NoBatchIsLost
<1> SUFFICES ASSUME MemoryInv PROVE MTypeOK /\ FilesHoldMemory /\ NoBatchIsLost
  OBVIOUS
<1>1. NotesTypes /\ TrailTypes /\ OtherTypes /\ NotesHeld /\ TrailHeld /\ NotebookThere
  BY DEF MemoryInv
<1>2. /\ \A i \in DOMAIN notesWaiting : notesWaiting[i] \in Seq(Note)
      /\ \A i \in DOMAIN trailWaiting : trailWaiting[i] \in Seq(TrailEntry)
  BY <1>1, LenProperties, ElementOfSeq DEF NotesTypes, TrailTypes, TextOfNotes, TextOfTrail
<1>3. {memoryUp, historyUp, batchLost} \subseteq BOOLEAN
  BY <1>1 DEF NotesTypes, TrailTypes, OtherTypes
<1>4. MTypeOK
  BY <1>1, <1>2, <1>3 DEF MTypeOK, NotesTypes, TrailTypes, OtherTypes, TextOfNotes, TextOfTrail
<1>5. FilesHoldMemory
  BY <1>1 DEF FilesHoldMemory, NotesHeld, TrailHeld, Last
<1>6. NoBatchIsLost
  BY <1>1 DEF NotebookThere, NoBatchIsLost
<1> QED
  BY <1>4, <1>5, <1>6

(* What the cap leaves of the notes is no less important than what it      *)
(* drops: whoever is worse than a note that stays, of that more are better.*)
LEMMA EnforceIs ==
  ASSUME NEW ns \in TextOfNotes, NEW c \in Nat
  PROVE  /\ EnforceCapacity(ns, c) \in TextOfNotes
         /\ \A lost \in ToSet(ns) \ ToSet(EnforceCapacity(ns, c)), kept \in ToSet(EnforceCapacity(ns, c)) :
              lost.importance <= kept.importance
<1> DEFINE Better(k) == {i \in DOMAIN ns : Worse(ns[k], ns[i])}
           P == {k \in DOMAIN ns : Cardinality(Better(k)) < c}
           t == Picked(ns, P)
<1>1. EnforceCapacity(ns, c) = t
  BY DEF EnforceCapacity
<1>2. Len(ns) \in Nat /\ DOMAIN ns = 1..Len(ns) /\ \A i \in 1..Len(ns) : ns[i] \in Note
  BY LenProperties, ElementOfSeq DEF TextOfNotes
<1>3. P \in SUBSET (1..Len(ns)) /\ ns \in Seq(Note)
  BY <1>2 DEF TextOfNotes
<1>4. ASSUME NEW i \in 1..Len(ns) PROVE ns[i].importance \in Int /\ ns[i].n \in Int
  <2>1. ns[i].importance \in 1..5 /\ ns[i].n \in 1..MaxNoteId
    BY <1>2, MemorySizesAre DEF Note
  <2> DEFINE x == ns[i].importance
             y == ns[i].n
  <2> HIDE DEF x, y
  <2>2. x \in 1..5 /\ y \in 1..MaxNoteId
    BY <2>1 DEF x, y
  <2>3. x \in Int /\ y \in Int
    BY <2>2
  <2> QED
    BY <2>3 DEF x, y
<1>5. ASSUME NEW j \in 1..Len(ns), NEW k \in P, ~(ns[j].importance <= ns[k].importance) PROVE j \in P
  <2>0. k \in 1..Len(ns)
    BY <1>2
  <2>1. Better(j) \subseteq Better(k)
    <3> SUFFICES ASSUME NEW i \in 1..Len(ns), Worse(ns[j], ns[i]) PROVE Worse(ns[k], ns[i])
      BY <1>2
    <3>1. ns[j].importance \in Int /\ ns[k].importance \in Int /\ ns[i].importance \in Int
      BY <1>4, <2>0
    <3>2. ns[j].importance <= ns[i].importance
      BY <3>1 DEF Worse
    <3>3. ns[k].importance < ns[i].importance
      BY <1>5, <3>1, <3>2
    <3> QED
      BY <3>3 DEF Worse
  <2>2. IsFiniteSet(Better(k))
    <3>1. IsFiniteSet(1..Len(ns))
      BY <1>2, CountUpTo
    <3>2. Better(k) \subseteq 1..Len(ns)
      BY <1>2
    <3> QED
      BY <3>1, <3>2, FS_Subset
  <2> HIDE DEF Better
  <2>3. IsFiniteSet(Better(j)) /\ Cardinality(Better(j)) <= Cardinality(Better(k))
    BY <2>1, <2>2, FS_Subset
  <2>4. Cardinality(Better(j)) \in Nat /\ Cardinality(Better(k)) \in Nat /\ Cardinality(Better(k)) < c
    BY <2>2, <2>3, FS_CardinalityType
  <2>5. Cardinality(Better(j)) < c
    BY <2>3, <2>4
  <2> QED
    BY <1>2, <2>5
<1> HIDE DEF P
<1>6. /\ t \in Seq(Note) /\ Len(t) = Cardinality(P)
      /\ Nth(P) \in [1..Cardinality(P) -> P]
      /\ \A i \in P : \E n \in 1..Cardinality(P) : Nth(P)[n] = i
      /\ \A n \in 1..Cardinality(P) : t[n] = ns[Nth(P)[n]]
  BY <1>3, PickedIs
<1> HIDE DEF t
<1>7. DOMAIN t = 1..Cardinality(P)
  BY <1>6, LenProperties
<1>8. ASSUME NEW lost \in ToSet(ns) \ ToSet(t), NEW kept \in ToSet(t) PROVE lost.importance <= kept.importance
  <2>1. PICK j \in 1..Len(ns) : lost = ns[j]
    BY <1>2 DEF ToSet
  <2>2. PICK n \in 1..Cardinality(P) : kept = t[n]
    BY <1>7 DEF ToSet
  <2>3. Nth(P)[n] \in P /\ kept = ns[Nth(P)[n]]
    BY <1>6, <2>2
  <2>4. ASSUME j \in P PROVE FALSE
    <3>1. PICK m \in 1..Cardinality(P) : Nth(P)[m] = j
      BY <1>6, <2>4
    <3>2. t[m] = lost
      BY <1>6, <2>1, <3>1
    <3> QED
      BY <1>7, <3>1, <3>2 DEF ToSet
  <2> QED
    BY <1>5, <2>1, <2>3, <2>4
<1> QED
  BY <1>1, <1>6, <1>8 DEF TextOfNotes

(* The greatest of two. *)
LEMMA GreaterOf ==
  ASSUME NEW x \in Int
  PROVE  Max({0, x}) \in Nat
<1>1. Max({0, x}) \in {0, x} /\ \A y \in {0, x} : Max({0, x}) >= y
  <2>1. \E m \in {0, x} : \A y \in {0, x} : m >= y
    <3>1. CASE x >= 0
      BY <3>1
    <3>2. CASE ~(x >= 0)
      BY <3>2
    <3> QED
      BY <3>1, <3>2
  <2> QED
    BY <2>1 DEF Max
<1> QED
  BY <1>1

(* What joins a queue is its last; when the first of it has gone, the last *)
(* is the last still, or there is none and it was the first.               *)
LEMMA LastOfQueue ==
  ASSUME NEW T, NEW w \in Seq(T), NEW x \in T
  PROVE  /\ Append(w, x) \in Seq(T) /\ Append(w, x) # <<>> /\ Append(w, x)[Len(Append(w, x))] = x
         /\ w # <<>> => /\ Tail(w) \in Seq(T) /\ Head(w) \in T
                        /\ Tail(w) # <<>> => Tail(w)[Len(Tail(w))] = w[Len(w)]
                        /\ Tail(w) = <<>> => Head(w) = w[Len(w)]
<1>1. Len(w) \in Nat
  BY LenProperties
<1>2. Append(w, x) \in Seq(T) /\ Len(Append(w, x)) = Len(w) + 1 /\ Append(w, x)[Len(w) + 1] = x
  BY AppendProperties
<1>3. Append(w, x) # <<>>
  BY <1>1, <1>2, EmptySeq
<1>4. ASSUME w # <<>>
      PROVE  /\ Tail(w) \in Seq(T) /\ Head(w) \in T
             /\ Tail(w) # <<>> => Tail(w)[Len(Tail(w))] = w[Len(w)]
             /\ Tail(w) = <<>> => Head(w) = w[Len(w)]
  <2>1. /\ Head(w) \in T /\ Tail(w) \in Seq(T) /\ Len(Tail(w)) = Len(w) - 1
        /\ \A i \in 1..Len(Tail(w)) : Tail(w)[i] = w[i + 1]
    BY <1>4, HeadTailProperties
  <2>2. Len(w) # 0
    BY <1>4, EmptySeq
  <2>3. CASE Len(w) = 1
    <3>1. Len(Tail(w)) = 0
      BY <2>1, <2>3
    <3>2. Tail(w) = <<>>
      BY <2>1, <3>1, EmptySeq
    <3>3. Head(w) = w[1]
      BY <1>4
    <3> QED
      BY <2>1, <2>3, <3>2, <3>3
  <2>4. CASE Len(w) # 1
    <3>1. Len(Tail(w)) \in 1..Len(Tail(w)) /\ Len(Tail(w)) + 1 = Len(w) /\ Len(Tail(w)) # 0
      BY <1>1, <2>1, <2>2, <2>4
    <3>2. Tail(w) # <<>>
      BY <3>1, EmptySeq
    <3>3. Tail(w)[Len(Tail(w))] = w[Len(w)]
      BY <2>1, <3>1
    <3> QED
      BY <2>1, <3>2, <3>3
  <2> QED
    BY <2>3, <2>4
<1> QED
  BY <1>2, <1>3, <1>4

(* What a new note does to the notebook. *)
NotesStep ==
  /\ NotesTypes' /\ NotesHeld'
  /\ mstarts' = mstarts
  /\ \A lost \in ToSet(notes) \ ToSet(notes'), kept \in ToSet(notes') : lost.importance <= kept.importance

(* A note is taken: the cap drops the worst. *)
LEMMA RememberKeeps ==
  ASSUME MemoryInv, counter < MaxNoteId, NEW kind \in ToSet(Kinds), NEW importance \in Importances,
         NEW size \in NoteSizes \cup {1}, Remember(kind, importance, size), mstarts' = mstarts, unwritten' = unwritten
  PROVE  NotesStep
<1> DEFINE note == [n |-> counter + 1, kind |-> kind, importance |-> importance, size |-> size]
           all == Append(notes, note)
<1>0. NotesTypes /\ NotesHeld
  BY DEF MemoryInv
<1>1. /\ counter' = counter + 1 /\ notes' = EnforceCapacity(all, cap) /\ notesWaiting' = Append(notesWaiting, notes')
      /\ cap' = cap /\ notesFile' = notesFile /\ memoryUp' = memoryUp
  BY DEF Remember
<1>2. counter' \in 0..MaxNoteId /\ counter + 1 \in 1..MaxNoteId
  <2>1. counter \in 0..MaxNoteId
    BY <1>0 DEF NotesTypes
  <2> QED
    BY <1>1, <2>1, MemorySizesAre
<1>3. note \in Note
  BY <1>2 DEF Note
<1> HIDE DEF note
<1>4. /\ notes \in Seq(Note) /\ Len(notes) \in Nat /\ all \in Seq(Note) /\ Len(all) = Len(notes) + 1
      /\ \A i \in 1..Len(notes) : all[i] = notes[i]
  <2>1. notes \in Seq(Note)
    BY <1>0 DEF NotesTypes, TextOfNotes
  <2> QED
    BY <1>3, <2>1, AppendProperties, LenProperties
<1>5. ToSet(notes) \subseteq ToSet(all)
  <2>1. DOMAIN notes = 1..Len(notes) /\ DOMAIN all = 1..Len(all) /\ \A i \in 1..Len(notes) : i \in 1..Len(all)
    BY <1>4, LenProperties
  <2> QED
    BY <1>4, <2>1 DEF ToSet
<1>6. all \in TextOfNotes /\ cap \in Nat
  BY <1>0, <1>4, MemorySizesAre DEF NotesTypes, TextOfNotes
<1> HIDE DEF all
<1>7. /\ notes' \in TextOfNotes
      /\ \A lost \in ToSet(all) \ ToSet(notes'), kept \in ToSet(notes') : lost.importance <= kept.importance
  BY <1>1, <1>6, EnforceIs
<1>8. notesWaiting' \in Seq(TextOfNotes) /\ notesWaiting' # <<>> /\ notesWaiting'[Len(notesWaiting')] = notes'
  BY <1>0, <1>1, <1>7, LastOfQueue DEF NotesTypes
<1>9. NotesTypes'
  BY <1>0, <1>1, <1>2, <1>7, <1>8 DEF NotesTypes
<1>10. NotesHeld'
  BY <1>8 DEF NotesHeld
<1> QED
  BY <1>5, <1>7, <1>9, <1>10 DEF NotesStep

(* A step that neither numbers a note nor starts the process anew. *)
ImportantAtStep ==
  LET before == IF mstarts' # mstarts THEN notesFile' ELSE notes
  IN  counter' # counter \/ mstarts' # mstarts =>
        \A lost \in ToSet(before) \ ToSet(notes'), kept \in ToSet(notes') : lost.importance <= kept.importance

(* What the cap drops is no more important than what stays. *)
LEMMA RememberedIsImportant == ASSUME NotesStep PROVE ImportantAtStep
BY DEF NotesStep, ImportantAtStep

(* The agent takes a note. *)
LEMMA AgentRemembersKeeps == ASSUME MemoryInv, AgentRemembers PROVE MemoryInv' /\ ImportantAtStep
<1>1. PICK kind \in NoteKinds, importance \in Importances, size \in NoteSizes : Remember(kind, importance, size)
  BY DEF AgentRemembers
<1>2. /\ memoryUp /\ counter < MaxNoteId /\ batchLost' = batchLost /\ unwritten' = unwritten /\ mstarts' = mstarts
      /\ entries' = entries /\ entryCount' = entryCount /\ trailWaiting' = trailWaiting /\ trailFile' = trailFile
      /\ historyUp' = historyUp
  BY DEF AgentRemembers, trail
<1>3. memoryUp' = memoryUp
  BY <1>1 DEF Remember
<1>4. kind \in ToSet(Kinds) /\ size \in NoteSizes \cup {1}
  BY KindsAre, MemorySizesAre
<1>5. NotesStep
  BY <1>1, <1>2, <1>4, RememberKeeps
<1>6. TrailTypes' /\ OtherTypes' /\ TrailHeld' /\ NotebookThere'
  BY <1>2, <1>3 DEF MemoryInv, TrailTypes, OtherTypes, TrailHeld, NotebookThere
<1> QED
  BY <1>5, <1>6, RememberedIsImportant DEF NotesStep, MemoryInv

(* A note is forgotten, in memory and in the last text that waits. *)
LEMMA ForgetKeeps == ASSUME MemoryInv, Forget PROVE MemoryInv' /\ ImportantAtStep
<1>0. NotesTypes /\ NotesHeld
  BY DEF MemoryInv
<1>1. PICK i \in DOMAIN notes : notes' = Without(notes[i].n)
  BY DEF Forget
<1>2. /\ notesWaiting' = Append(notesWaiting, notes')
      /\ cap' = cap /\ counter' = counter /\ notesFile' = notesFile /\ memoryUp' = memoryUp
      /\ batchLost' = batchLost /\ unwritten' = unwritten /\ mstarts' = mstarts
      /\ entries' = entries /\ entryCount' = entryCount /\ trailWaiting' = trailWaiting /\ trailFile' = trailFile
      /\ historyUp' = historyUp
  BY DEF Forget, trail
<1>3. notes' \in TextOfNotes
  <2> DEFINE P == {j \in DOMAIN notes : notes[j].n # notes[i].n}
  <2>1. notes \in Seq(Note) /\ DOMAIN notes = 1..Len(notes)
    BY <1>0, LenProperties DEF NotesTypes, TextOfNotes
  <2>2. P \in SUBSET (1..Len(notes))
    BY <2>1
  <2>3. notes' = Picked(notes, P)
    BY <1>1 DEF Without
  <2> HIDE DEF P
  <2> QED
    BY <2>1, <2>2, <2>3, PickedIs DEF TextOfNotes
<1>4. notesWaiting' \in Seq(TextOfNotes) /\ notesWaiting' # <<>> /\ notesWaiting'[Len(notesWaiting')] = notes'
  BY <1>0, <1>2, <1>3, LastOfQueue DEF NotesTypes
<1>5. NotesTypes' /\ NotesHeld'
  BY <1>0, <1>2, <1>3, <1>4 DEF NotesTypes, NotesHeld
<1>6. TrailTypes' /\ OtherTypes' /\ TrailHeld' /\ NotebookThere'
  BY <1>2 DEF MemoryInv, TrailTypes, OtherTypes, TrailHeld, NotebookThere
<1>7. ImportantAtStep
  BY <1>2 DEF ImportantAtStep
<1> QED
  BY <1>5, <1>6, <1>7 DEF MemoryInv

(* A result is recorded; what it evicts is checkpointed. *)
LEMMA RecordResultKeeps == ASSUME MemoryInv, RecordResult PROVE MemoryInv' /\ ImportantAtStep
<1>0. NotesTypes /\ NotesHeld /\ TrailTypes /\ OtherTypes /\ NotebookThere
  BY DEF MemoryInv
<1>1. PICK size \in NoteSizes :
        LET all == Append(entries, [id |-> entryCount + 1, size |-> size])
            removed == IF Len(all) > HistoryMax THEN Max({0, Len(all) - KeepRecent}) ELSE 0
        IN /\ entries' = SubSeq(all, removed + 1, Len(all))
           /\ IF removed > 0 /\ memoryUp
              THEN Remember("finding", NoteImportance, 1)
              ELSE UNCHANGED notebook
           /\ batchLost' = (batchLost \/ (removed > 0 /\ ~memoryUp))
  BY DEF RecordResult
<1> DEFINE entry == [id |-> entryCount + 1, size |-> size]
           all == Append(entries, entry)
           removed == IF Len(all) > HistoryMax THEN Max({0, Len(all) - KeepRecent}) ELSE 0
<1>2. /\ historyUp /\ entryCount < MaxEntryId /\ counter < MaxNoteId /\ entryCount' = entryCount + 1
      /\ trailWaiting' = Append(trailWaiting, entries')
      /\ trailFile' = trailFile /\ historyUp' = historyUp /\ unwritten' = unwritten /\ mstarts' = mstarts
  BY DEF RecordResult
<1>3. /\ entries' = SubSeq(all, removed + 1, Len(all))
      /\ removed > 0 /\ memoryUp => Remember("finding", NoteImportance, 1)
      /\ ~(removed > 0 /\ memoryUp) => UNCHANGED notebook
      /\ batchLost' = (batchLost \/ (removed > 0 /\ ~memoryUp))
  BY <1>1
<1>4. memoryUp
  BY <1>0, <1>2 DEF NotebookThere
<1>5. entryCount' \in 0..MaxEntryId /\ entryCount' > 0 /\ entryCount + 1 \in 1..MaxEntryId
  <2>1. entryCount \in 0..MaxEntryId
    BY <1>0 DEF TrailTypes
  <2> QED
    BY <1>2, <2>1, MemorySizesAre
<1>6. entry \in TrailEntry
  BY <1>5 DEF TrailEntry
<1> HIDE DEF entry
<1>7. all \in TextOfTrail /\ Len(all) \in Nat
  BY <1>0, <1>6, AppendProperties, LenProperties DEF TrailTypes, TextOfTrail
<1> HIDE DEF all
<1>8. removed \in Nat
  <2>1. Len(all) - KeepRecent \in Int
    BY <1>7, MemorySizesAre
  <2>2. Max({0, Len(all) - KeepRecent}) \in Nat
    BY <2>1, GreaterOf
  <2> QED
    BY <2>2
<1> HIDE DEF removed
<1>9. entries' \in TextOfTrail
  <2>1. \A i \in (removed + 1)..Len(all) : i \in 1..Len(all)
    BY <1>7, <1>8
  <2>2. \A i \in (removed + 1)..Len(all) : all[i] \in TrailEntry
    BY <1>7, <2>1, ElementOfSeq DEF TextOfTrail
  <2>3. removed + 1 \in Int /\ Len(all) \in Int
    BY <1>7, <1>8
  <2> QED
    BY <1>3, <2>2, <2>3, SubSeqProperties DEF TextOfTrail
<1>10. trailWaiting' \in Seq(TextOfTrail) /\ trailWaiting' # <<>> /\ trailWaiting'[Len(trailWaiting')] = entries'
  BY <1>0, <1>2, <1>9, LastOfQueue DEF TrailTypes
<1>11. TrailTypes' /\ TrailHeld'
  BY <1>0, <1>2, <1>5, <1>9, <1>10 DEF TrailTypes, TrailHeld
<1>12. CASE removed > 0
  <2>1. Remember("finding", NoteImportance, 1)
    BY <1>3, <1>4, <1>12
  <2>2. NotesStep
    BY <1>2, <2>1, KindsAre, MemorySizesAre, RememberKeeps
  <2>3. memoryUp' = memoryUp
    BY <2>1 DEF Remember
  <2>4. OtherTypes' /\ NotebookThere'
    BY <1>0, <1>2, <1>3, <1>4, <2>3 DEF OtherTypes, NotebookThere
  <2> QED
    BY <1>11, <2>2, <2>4, RememberedIsImportant DEF NotesStep, MemoryInv
<1>13. CASE ~(removed > 0)
  <2>1. /\ cap' = cap /\ notes' = notes /\ counter' = counter /\ notesWaiting' = notesWaiting
        /\ notesFile' = notesFile /\ memoryUp' = memoryUp /\ batchLost' = batchLost
    BY <1>0, <1>3, <1>13 DEF notebook, OtherTypes
  <2>2. NotesTypes' /\ NotesHeld' /\ OtherTypes' /\ NotebookThere'
    BY <1>0, <1>2, <2>1 DEF NotesTypes, NotesHeld, OtherTypes, NotebookThere
  <2>3. ImportantAtStep
    BY <1>2, <2>1 DEF ImportantAtStep
  <2> QED
    BY <1>11, <2>2, <2>3 DEF MemoryInv
<1> QED
  BY <1>12, <1>13

(* The files of the two, and the starts. *)
LEMMA NotesWrittenKeeps == ASSUME MemoryInv, NotesWritten PROVE MemoryInv' /\ ImportantAtStep
<1>1. /\ notesWaiting # <<>> /\ notesFile' = Head(notesWaiting) /\ notesWaiting' = Tail(notesWaiting)
      /\ unwritten' = unwritten \ {"notes"}
      /\ cap' = cap /\ notes' = notes /\ counter' = counter /\ memoryUp' = memoryUp
      /\ entries' = entries /\ entryCount' = entryCount /\ trailWaiting' = trailWaiting /\ trailFile' = trailFile
      /\ historyUp' = historyUp /\ batchLost' = batchLost /\ mstarts' = mstarts
  BY DEF NotesWritten, trail
<1>2. /\ Tail(notesWaiting) \in Seq(TextOfNotes) /\ Head(notesWaiting) \in TextOfNotes
      /\ Tail(notesWaiting) # <<>> => Tail(notesWaiting)[Len(Tail(notesWaiting))] = notes
      /\ Tail(notesWaiting) = <<>> => Head(notesWaiting) = notes
  BY <1>1, LastOfQueue DEF MemoryInv, NotesTypes, NotesHeld
<1>3. NotesTypes' /\ NotesHeld'
  BY <1>1, <1>2 DEF MemoryInv, NotesTypes, NotesHeld
<1>4. TrailTypes' /\ OtherTypes' /\ TrailHeld' /\ NotebookThere'
  BY <1>1 DEF MemoryInv, TrailTypes, OtherTypes, TrailHeld, NotebookThere
<1>5. ImportantAtStep
  BY <1>1 DEF ImportantAtStep
<1> QED
  BY <1>3, <1>4, <1>5 DEF MemoryInv

(* The text of the trail is written. *)
LEMMA TrailWrittenKeeps == ASSUME MemoryInv, TrailWritten PROVE MemoryInv' /\ ImportantAtStep
<1>1. /\ trailWaiting # <<>> /\ trailFile' = Head(trailWaiting) /\ trailWaiting' = Tail(trailWaiting)
      /\ unwritten' = unwritten \ {"trail"}
      /\ cap' = cap /\ notes' = notes /\ counter' = counter /\ memoryUp' = memoryUp
      /\ notesWaiting' = notesWaiting /\ notesFile' = notesFile
      /\ entries' = entries /\ entryCount' = entryCount
      /\ historyUp' = historyUp /\ batchLost' = batchLost /\ mstarts' = mstarts
  BY DEF TrailWritten, notebook
<1>2. /\ Tail(trailWaiting) \in Seq(TextOfTrail) /\ Head(trailWaiting) \in TextOfTrail
      /\ Tail(trailWaiting) # <<>> => Tail(trailWaiting)[Len(Tail(trailWaiting))] = entries
      /\ Tail(trailWaiting) = <<>> => Head(trailWaiting) = entries
  BY <1>1, LastOfQueue DEF MemoryInv, TrailTypes, TrailHeld
<1>3. TrailTypes' /\ TrailHeld'
  BY <1>1, <1>2 DEF MemoryInv, TrailTypes, TrailHeld
<1>4. NotesTypes' /\ OtherTypes' /\ NotesHeld' /\ NotebookThere'
  BY <1>1 DEF MemoryInv, NotesTypes, OtherTypes, NotesHeld, NotebookThere
<1>5. ImportantAtStep
  BY <1>1 DEF ImportantAtStep
<1> QED
  BY <1>3, <1>4, <1>5 DEF MemoryInv

(* A refusal leaves a text of another time: until one lands, nothing is    *)
(* said of the file.                                                       *)
LEMMA WriteRefusedKeeps == ASSUME MemoryInv, WriteRefused PROVE MemoryInv' /\ ImportantAtStep
<1>1. /\ cap' = cap /\ notes' = notes /\ counter' = counter /\ memoryUp' = memoryUp /\ notesFile' = notesFile
      /\ entries' = entries /\ entryCount' = entryCount /\ trailFile' = trailFile
      /\ historyUp' = historyUp /\ batchLost' = batchLost /\ mstarts' = mstarts
      /\ \/ notesWaiting # <<>> /\ notesWaiting' = Tail(notesWaiting) /\ unwritten' = unwritten \cup {"notes"}
            /\ trailWaiting' = trailWaiting
         \/ trailWaiting # <<>> /\ trailWaiting' = Tail(trailWaiting) /\ unwritten' = unwritten \cup {"trail"}
            /\ notesWaiting' = notesWaiting
  BY DEF WriteRefused
<1>2. ImportantAtStep
  BY <1>1 DEF ImportantAtStep
<1>3. NotebookThere' /\ OtherTypes'
  BY <1>1 DEF MemoryInv, NotebookThere, OtherTypes
<1>4. CASE notesWaiting # <<>> /\ notesWaiting' = Tail(notesWaiting) /\ unwritten' = unwritten \cup {"notes"}
           /\ trailWaiting' = trailWaiting
  <2>1. /\ Tail(notesWaiting) \in Seq(TextOfNotes)
        /\ Tail(notesWaiting) # <<>> => Tail(notesWaiting)[Len(Tail(notesWaiting))] = notes
    BY <1>4, LastOfQueue DEF MemoryInv, NotesTypes, NotesHeld
  <2>2. NotesTypes' /\ NotesHeld'
    BY <1>1, <1>4, <2>1 DEF MemoryInv, NotesTypes, NotesHeld
  <2>3. TrailTypes' /\ TrailHeld'
    BY <1>1, <1>4 DEF MemoryInv, TrailTypes, TrailHeld
  <2> QED
    BY <1>2, <1>3, <2>2, <2>3 DEF MemoryInv
<1>5. CASE trailWaiting # <<>> /\ trailWaiting' = Tail(trailWaiting) /\ unwritten' = unwritten \cup {"trail"}
           /\ notesWaiting' = notesWaiting
  <2>1. /\ Tail(trailWaiting) \in Seq(TextOfTrail)
        /\ Tail(trailWaiting) # <<>> => Tail(trailWaiting)[Len(Tail(trailWaiting))] = entries
    BY <1>5, LastOfQueue DEF MemoryInv, TrailTypes, TrailHeld
  <2>2. TrailTypes' /\ TrailHeld'
    BY <1>1, <1>5, <2>1 DEF MemoryInv, TrailTypes, TrailHeld
  <2>3. NotesTypes' /\ NotesHeld'
    BY <1>1, <1>5 DEF MemoryInv, NotesTypes, NotesHeld
  <2> QED
    BY <1>2, <1>3, <2>2, <2>3 DEF MemoryInv
<1> QED
  BY <1>1, <1>4, <1>5

(* The greatest number of what is on a file is one of its numbers. *)
LEMMA GreatestNumber ==
  ASSUME NEW m \in Nat, NEW S, \A x \in S : x \in 1..m
  PROVE  Max(S \cup {0}) \in 0..m
<1>1. S \cup {0} \in SUBSET (0..m) /\ S \cup {0} # {}
  BY SMT
<1> QED
  BY <1>1, GreatestOf

(* The trail is loaded. *)
LEMMA HistoryLoadsKeeps == ASSUME MemoryInv, HistoryLoads PROVE MemoryInv' /\ ImportantAtStep
<1>1. /\ memoryUp /\ trailWaiting = <<>> /\ historyUp' = TRUE /\ entries' = trailFile
      /\ entryCount' = Max({trailFile[i].id : i \in DOMAIN trailFile} \cup {0})
      /\ cap' = cap /\ notes' = notes /\ counter' = counter /\ memoryUp' = memoryUp
      /\ notesWaiting' = notesWaiting /\ notesFile' = notesFile
      /\ trailWaiting' = trailWaiting /\ trailFile' = trailFile
      /\ batchLost' = batchLost /\ unwritten' = unwritten /\ mstarts' = mstarts
  BY DEF HistoryLoads, notebook
<1>2. trailFile \in TextOfTrail /\ DOMAIN trailFile = 1..Len(trailFile)
  BY LenProperties DEF MemoryInv, TrailTypes, TextOfTrail
<1>3. \A i \in DOMAIN trailFile : trailFile[i].id \in 1..MaxEntryId
  <2>1. \A i \in 1..Len(trailFile) : trailFile[i] \in TrailEntry
    BY <1>2, ElementOfSeq DEF TextOfTrail
  <2> QED
    BY <1>2, <2>1 DEF TrailEntry
<1>4. entryCount' \in 0..MaxEntryId
  <2> DEFINE S == {trailFile[i].id : i \in DOMAIN trailFile}
  <2>1. \A x \in S : x \in 1..MaxEntryId
    BY <1>3
  <2>2. entryCount' = Max(S \cup {0})
    BY <1>1
  <2> HIDE DEF S
  <2> QED
    BY <2>1, <2>2, GreatestNumber, MemorySizesAre
<1>5. TrailTypes' /\ TrailHeld'
  BY <1>1, <1>2, <1>4 DEF MemoryInv, TrailTypes, TrailHeld
<1>6. NotesTypes' /\ OtherTypes' /\ NotesHeld' /\ NotebookThere'
  BY <1>1 DEF MemoryInv, NotesTypes, OtherTypes, NotesHeld, NotebookThere
<1>7. ImportantAtStep
  BY <1>1 DEF ImportantAtStep
<1> QED
  BY <1>5, <1>6, <1>7 DEF MemoryInv

(* The trail is torn down while the notebook still is there. *)
LEMMA HistoryTearsDownKeeps == ASSUME MemoryInv, HistoryTearsDown PROVE MemoryInv' /\ ImportantAtStep
<1>1. /\ historyUp' = FALSE /\ trailFile' = entries /\ unwritten' = unwritten \ {"trail"}
      /\ cap' = cap /\ notes' = notes /\ counter' = counter /\ memoryUp' = memoryUp
      /\ notesWaiting' = notesWaiting /\ notesFile' = notesFile
      /\ entries' = entries /\ entryCount' = entryCount /\ trailWaiting' = trailWaiting
      /\ batchLost' = batchLost /\ mstarts' = mstarts
  BY DEF HistoryTearsDown, notebook
<1>2. TrailTypes' /\ TrailHeld'
  BY <1>1 DEF MemoryInv, TrailTypes, TrailHeld
<1>3. NotesTypes' /\ OtherTypes' /\ NotesHeld' /\ NotebookThere'
  BY <1>1 DEF MemoryInv, NotesTypes, OtherTypes, NotesHeld, NotebookThere
<1>4. ImportantAtStep
  BY <1>1 DEF ImportantAtStep
<1> QED
  BY <1>2, <1>3, <1>4 DEF MemoryInv

(* The notebook is torn down, past the texts that wait. *)
LEMMA MemoryTearsDownKeeps == ASSUME MemoryInv, MemoryTearsDown PROVE MemoryInv' /\ ImportantAtStep
<1>1. /\ ~historyUp /\ memoryUp' = FALSE /\ notesFile' = notes /\ unwritten' = unwritten \ {"notes"}
      /\ cap' = cap /\ notes' = notes /\ counter' = counter /\ notesWaiting' = notesWaiting
      /\ entries' = entries /\ entryCount' = entryCount /\ trailWaiting' = trailWaiting /\ trailFile' = trailFile
      /\ historyUp' = historyUp /\ batchLost' = batchLost /\ mstarts' = mstarts
  BY DEF MemoryTearsDown, MayStop, trail
<1>2. TrailTypes' /\ TrailHeld'
  BY <1>1 DEF MemoryInv, TrailTypes, TrailHeld
<1>3. NotesTypes' /\ OtherTypes' /\ NotesHeld' /\ NotebookThere'
  BY <1>1 DEF MemoryInv, NotesTypes, OtherTypes, NotesHeld, NotebookThere
<1>4. ImportantAtStep
  BY <1>1 DEF ImportantAtStep
<1> QED
  BY <1>2, <1>3, <1>4 DEF MemoryInv

(* The process starts again, with whatever texts the kill let through. *)
LEMMA MemoryRestartsKeeps == ASSUME MemoryInv, MemoryRestarts PROVE MemoryInv' /\ ImportantAtStep
<1>1. /\ mstarts < MaxMStarts /\ mstarts' = mstarts + 1 /\ cap' \in NotebookCaps
      /\ notesFile' \in Left(notesFile, notesWaiting) /\ trailFile' \in Left(trailFile, trailWaiting)
      /\ LoadNotes(notesFile')
      /\ memoryUp' = TRUE /\ historyUp' = FALSE
      /\ entries' = <<>> /\ entryCount' = 0 /\ trailWaiting' = <<>> /\ unwritten' = {} /\ batchLost' = batchLost
  BY DEF MemoryRestarts
<1>2. /\ notes' = EnforceCapacity(notesFile', cap')
      /\ counter' = Max({notesFile'[i].n : i \in DOMAIN notesFile'} \cup {0})
      /\ notesWaiting' = IF notes' # notesFile' THEN <<notes'>> ELSE <<>>
  BY <1>1 DEF LoadNotes
<1>3. notesFile' \in TextOfNotes /\ trailFile' \in TextOfTrail
  <2>1. <<>> \in TextOfNotes /\ <<>> \in TextOfTrail
    BY EmptySeq DEF TextOfNotes, TextOfTrail
  <2>2. (notesFile' = notesFile \/ notesFile' = <<>>) /\ (trailFile' = trailFile \/ trailFile' = <<>>)
    BY <1>1 DEF Left
  <2> QED
    BY <2>1, <2>2 DEF MemoryInv, NotesTypes, TrailTypes
<1>4. cap' \in Nat
  BY <1>1, MemorySizesAre
<1>5. /\ notes' \in TextOfNotes
      /\ \A lost \in ToSet(notesFile') \ ToSet(notes'), kept \in ToSet(notes') : lost.importance <= kept.importance
  BY <1>2, <1>3, <1>4, EnforceIs
<1>6. counter' \in 0..MaxNoteId
  <2> DEFINE S == {notesFile'[i].n : i \in DOMAIN notesFile'}
  <2>1. \A i \in DOMAIN notesFile' : notesFile'[i].n \in 1..MaxNoteId
    <3>1. DOMAIN notesFile' = 1..Len(notesFile') /\ \A i \in 1..Len(notesFile') : notesFile'[i] \in Note
      BY <1>3, LenProperties, ElementOfSeq DEF TextOfNotes
    <3> QED
      BY <3>1 DEF Note
  <2>2. \A x \in S : x \in 1..MaxNoteId
    BY <2>1
  <2>3. counter' = Max(S \cup {0})
    BY <1>2
  <2> HIDE DEF S
  <2> QED
    BY <2>2, <2>3, GreatestNumber, MemorySizesAre
<1>7. /\ notesWaiting' \in Seq(TextOfNotes)
      /\ notesWaiting' # <<>> => notesWaiting'[Len(notesWaiting')] = notes'
      /\ notesWaiting' = <<>> => notesFile' = notes'
  <2>1. CASE notes' # notesFile'
    <3>1. notesWaiting' = <<notes'>>
      BY <1>2, <2>1
    <3>2. <<notes'>> \in Seq(TextOfNotes) /\ Len(<<notes'>>) = 1 /\ <<notes'>>[1] = notes' /\ <<notes'>> # <<>>
      BY <1>5
    <3> QED
      BY <3>1, <3>2
  <2>2. CASE notes' = notesFile'
    <3>1. notesWaiting' = <<>>
      BY <1>2, <2>2
    <3> QED
      BY <2>2, <3>1, EmptySeq
  <2> QED
    BY <2>1, <2>2
<1>8. NotesTypes' /\ NotesHeld'
  BY <1>1, <1>3, <1>5, <1>6, <1>7 DEF NotesTypes, NotesHeld
<1>9. TrailTypes'
  <2>1. 0 \in 0..MaxEntryId /\ <<>> \in TextOfTrail /\ <<>> \in Seq(TextOfTrail)
    BY EmptySeq, MemorySizesAre DEF TextOfTrail
  <2> QED
    BY <1>1, <1>3, <2>1 DEF TrailTypes
<1>10. TrailHeld' /\ NotebookThere'
  BY <1>1 DEF MemoryInv, TrailHeld, NotebookThere
<1>11. OtherTypes' /\ mstarts' # mstarts
  <2>1. mstarts \in 1..MaxMStarts
    BY DEF MemoryInv, OtherTypes
  <2>2. mstarts' \in 1..MaxMStarts /\ mstarts' # mstarts
    BY <1>1, <2>1, MemorySizesAre
  <2> QED
    BY <1>1, <2>2 DEF MemoryInv, OtherTypes
<1>12. ImportantAtStep
  BY <1>5, <1>11 DEF ImportantAtStep
<1> QED
  BY <1>8, <1>9, <1>10, <1>11, <1>12 DEF MemoryInv

(* Every step keeps the invariant of the notebook and the trail, and       *)
(* numbers a note or loads them at no cost to a more important one.         *)
LEMMA MemoryKeeps ==
  ASSUME MemoryInv, MNext \/ UNCHANGED mvars
  PROVE  MemoryInv' /\ ImportantAtStep
<1>1. CASE UNCHANGED mvars
  <2>1. MemoryInv'
    BY <1>1 DEF mvars, notebook, trail, MemoryInv, NotesTypes, TrailTypes, OtherTypes, NotesHeld, TrailHeld, NotebookThere
  <2>2. ImportantAtStep
    BY <1>1 DEF mvars, notebook, ImportantAtStep
  <2> QED
    BY <2>1, <2>2
<1> QED
  BY <1>1, AgentRemembersKeeps, ForgetKeeps, RecordResultKeeps, NotesWrittenKeeps, TrailWrittenKeeps, WriteRefusedKeeps,
     HistoryLoadsKeeps, HistoryTearsDownKeeps, MemoryTearsDownKeeps, MemoryRestartsKeeps DEF MNext

(* An empty notebook and trail are as they should be. *)
LEMMA MemoryStarts == MInit => MemoryInv
<1> SUFFICES ASSUME MInit PROVE MemoryInv
  OBVIOUS
<1>1. NotesTypes
  BY EmptySeq, MemorySizesAre DEF MInit, NotesTypes, TextOfNotes
<1>2. TrailTypes /\ OtherTypes
  <2>1. 0 \in 0..MaxEntryId /\ 1 \in 1..MaxMStarts /\ <<>> \in TextOfTrail /\ <<>> \in Seq(TextOfTrail)
    BY EmptySeq, MemorySizesAre DEF TextOfTrail
  <2> QED
    BY <2>1 DEF MInit, TrailTypes, OtherTypes
<1>3. NotesHeld /\ TrailHeld /\ NotebookThere
  BY DEF MInit, NotesHeld, TrailHeld, NotebookThere
<1> QED
  BY <1>1, <1>2, <1>3 DEF MemoryInv

(* So are those with something of old. *)
LEMMA SomeMemoryStarts == SomeMemory => MemoryInv
<1> SUFFICES ASSUME SomeMemory PROVE MemoryInv
  OBVIOUS
<1>1. /\ cap \in NotebookCaps /\ notesWaiting = <<>> /\ memoryUp = TRUE
      /\ entries = <<>> /\ entryCount = 0 /\ trailWaiting = <<>> /\ historyUp = FALSE
      /\ batchLost = FALSE /\ unwritten = {} /\ mstarts = 1 /\ notesFile = notes
  BY DEF SomeMemory
<1>2. notes \in TextOfNotes /\ counter \in 0..MaxNoteId /\ trailFile \in TextOfTrail
  <2>1. <<>> \in TextOfNotes /\ <<>> \in TextOfTrail
    BY EmptySeq DEF TextOfNotes, TextOfTrail
  <2>2. 0 \in 0..MaxNoteId /\ 1 \in 0..MaxNoteId /\ 1 \in 1..MaxNoteId /\ 1 \in 1..MaxEntryId /\ 2 \in 1..MaxEntryId
    BY MemorySizesAre, ScenariosAssumption
  <2>3. [n |-> 1, kind |-> "thought", size |-> 2, importance |-> 3] \in Note
    BY <2>2, KindsAre, ScenariosAssumption DEF Note
  <2>4. [id |-> 1, size |-> 2] \in TrailEntry /\ [id |-> 2, size |-> 2] \in TrailEntry
    BY <2>2, ScenariosAssumption DEF TrailEntry
  <2> DEFINE old == [n |-> 1, kind |-> "thought", size |-> 2, importance |-> 3]
             one == [id |-> 1, size |-> 2]
             two == [id |-> 2, size |-> 2]
  <2>5. \/ notes = <<old>> /\ counter = 1 /\ trailFile = <<one>>
        \/ notes = <<>> /\ counter = 1 /\ trailFile = <<>>
        \/ notes = <<>> /\ counter = 0 /\ trailFile = <<one, two>>
    BY DEF SomeMemory
  <2> HIDE DEF old, one, two
  <2>6. <<old>> \in TextOfNotes /\ <<one>> \in TextOfTrail /\ <<one, two>> \in TextOfTrail
    <3>1. old \in Note /\ one \in TrailEntry /\ two \in TrailEntry
      BY <2>3, <2>4 DEF old, one, two
    <3> QED
      BY <3>1 DEF TextOfNotes, TextOfTrail
  <2> QED
    BY <2>1, <2>2, <2>5, <2>6
<1>3. NotesTypes
  BY <1>1, <1>2, EmptySeq DEF NotesTypes
<1>4. TrailTypes /\ OtherTypes
  <2>1. 0 \in 0..MaxEntryId /\ 1 \in 1..MaxMStarts /\ <<>> \in TextOfTrail /\ <<>> \in Seq(TextOfTrail)
    BY EmptySeq, MemorySizesAre DEF TextOfTrail
  <2> QED
    BY <1>1, <1>2, <2>1 DEF TrailTypes, OtherTypes
<1>5. NotesHeld /\ TrailHeld /\ NotebookThere
  BY <1>1 DEF NotesHeld, TrailHeld, NotebookThere
<1> QED
  BY <1>3, <1>4, <1>5 DEF MemoryInv

(* What the agent is shown of: some notes, or some entries. *)
ShownMemory ==
  /\ (AnyNotes /\ entries = <<>> /\ entryCount = 0) \/ (AnyEntries /\ notes = <<>> /\ counter = 0)
  /\ cap = 2 /\ notesWaiting = <<>> /\ notesFile = notes /\ memoryUp = FALSE
  /\ trailWaiting = <<>> /\ trailFile = entries /\ historyUp = FALSE
  /\ batchLost = FALSE /\ unwritten = {} /\ mstarts = 1

(* So are those whose blocks are shown. *)
LEMMA ShownMemoryStarts == ShownMemory => MemoryInv
<1> SUFFICES ASSUME ShownMemory PROVE MemoryInv
  OBVIOUS
<1>1. /\ cap = 2 /\ notesWaiting = <<>> /\ notesFile = notes /\ memoryUp = FALSE
      /\ trailWaiting = <<>> /\ trailFile = entries /\ historyUp = FALSE
      /\ batchLost = FALSE /\ unwritten = {} /\ mstarts = 1
      /\ (AnyNotes /\ entries = <<>> /\ entryCount = 0) \/ (AnyEntries /\ notes = <<>> /\ counter = 0)
  BY DEF ShownMemory
<1>a. <<>> \in TextOfNotes /\ <<>> \in TextOfTrail /\ 0 \in 0..MaxNoteId /\ 0 \in 0..MaxEntryId
  BY EmptySeq, MemorySizesAre DEF TextOfNotes, TextOfTrail
<1>2. ASSUME AnyNotes PROVE notes \in TextOfNotes /\ counter \in 0..MaxNoteId
  <2>1. PICK choice \in ShownNotes :
          /\ notes = [i \in DOMAIN choice |-> [n |-> i, kind |-> choice[i][1], size |-> choice[i][2],
                                               importance |-> choice[i][3]]]
          /\ counter = Len(choice)
    BY <1>2 DEF AnyNotes
  <2>2. PICK n \in 0..3 : choice \in [1..n -> {"goal", "thought"} \X Sizes \X {2, 3}]
    BY DEF ShownNotes
  <2>3. n \in Nat /\ choice \in Seq({"goal", "thought"} \X Sizes \X {2, 3})
    BY <2>2, SeqDef
  <2>4. Len(choice) = n
    <3>1. Len(choice) \in Nat /\ DOMAIN choice = 1..Len(choice) /\ DOMAIN choice = 1..n
      BY <2>2, <2>3, LenProperties
    <3>2. \A k, m \in Nat : 1..k = 1..m => k = m
      OBVIOUS
    <3> QED
      BY <2>3, <3>1, <3>2
  <2>5. n \in 0..MaxNoteId /\ \A i \in 1..n : i \in 1..MaxNoteId
    BY MemorySizesAre, ScenariosAssumption
  <2>6. ASSUME NEW i \in 1..n
        PROVE  [n |-> i, kind |-> choice[i][1], size |-> choice[i][2], importance |-> choice[i][3]] \in Note
    <3>1. choice[i] \in {"goal", "thought"} \X Sizes \X {2, 3}
      BY <2>2
    <3>2. choice[i][1] \in {"goal", "thought"} /\ choice[i][2] \in {1, 2} /\ choice[i][3] \in {2, 3}
      BY <3>1 DEF Sizes
    <3>3. /\ choice[i][1] \in ToSet(Kinds) /\ choice[i][2] \in NoteSizes \cup {1} /\ choice[i][3] \in Importances
      BY <3>2, KindsAre, ScenariosAssumption
    <3> QED
      BY <2>5, <3>3 DEF Note
  <2>7. notes \in [1..n -> Note]
    BY <2>1, <2>2, <2>6
  <2> QED
    BY <2>1, <2>3, <2>4, <2>5, <2>7, SeqDef DEF TextOfNotes
<1>3. ASSUME AnyEntries PROVE entries \in TextOfTrail /\ entryCount \in 0..MaxEntryId
  <2>1. PICK sizes \in UNION {[1..n -> Sizes] : n \in 0..3} :
          entries = [i \in DOMAIN sizes |-> [id |-> i, size |-> sizes[i]]] /\ entryCount = Len(sizes)
    BY <1>3 DEF AnyEntries
  <2>2. PICK n \in 0..3 : sizes \in [1..n -> Sizes]
    OBVIOUS
  <2>3. n \in Nat /\ sizes \in Seq(Sizes)
    BY <2>2, SeqDef
  <2>4. Len(sizes) = n
    <3>1. Len(sizes) \in Nat /\ DOMAIN sizes = 1..Len(sizes) /\ DOMAIN sizes = 1..n
      BY <2>2, <2>3, LenProperties
    <3> QED
      BY <2>3, <3>1
  <2>5. n \in 0..MaxEntryId /\ \A i \in 1..n : i \in 1..MaxEntryId
    BY MemorySizesAre, ScenariosAssumption
  <2>6. ASSUME NEW i \in 1..n PROVE [id |-> i, size |-> sizes[i]] \in TrailEntry
    <3>1. sizes[i] \in {1, 2}
      BY <2>2 DEF Sizes
    <3> QED
      BY <2>5, <3>1, ScenariosAssumption DEF TrailEntry
  <2>7. entries \in [1..n -> TrailEntry]
    BY <2>1, <2>2, <2>6
  <2> QED
    BY <2>1, <2>3, <2>4, <2>5, <2>7, SeqDef DEF TextOfTrail
<1>4. notes \in TextOfNotes /\ counter \in 0..MaxNoteId /\ entries \in TextOfTrail /\ entryCount \in 0..MaxEntryId
  BY <1>1, <1>2, <1>3, <1>a
<1>5. NotesTypes
  BY <1>1, <1>4, EmptySeq, ScenariosAssumption DEF NotesTypes
<1>6. TrailTypes /\ OtherTypes
  <2>1. 1 \in 1..MaxMStarts /\ <<>> \in Seq(TextOfTrail)
    BY EmptySeq, MemorySizesAre
  <2> QED
    BY <1>1, <1>4, <2>1 DEF TrailTypes, OtherTypes
<1>7. NotesHeld /\ TrailHeld /\ NotebookThere
  BY <1>1 DEF NotesHeld, TrailHeld, NotebookThere
<1> QED
  BY <1>5, <1>6, <1>7 DEF MemoryInv

(***************************************************************************)
(* The files together.  A subject at rest keeps what holds of it, so each  *)
(* invariant holds whatever the subject is.                                *)
(***************************************************************************)
ReplayInv == ReplayGivesWindow /\ JournalReplayInv /\ LogbookReplayInv
StoresInv ==
  /\ ChatInv /\ JournalInv /\ LogbookInv /\ MemoryInv /\ PageInv /\ FetchInv
  /\ ReplayInv

(* Every subject begins as it should. *)
LEMMA StoresStart == Init => StoresInv
<1> SUFFICES ASSUME Init PROVE StoresInv
  OBVIOUS
<1>1. ChatInv /\ JournalInv /\ LogbookInv
  BY ChatStarts, JournalStarts, LogbookStarts DEF Init
<1>2. MemoryInv
  BY MemoryStarts, SomeMemoryStarts, ShownMemoryStarts DEF Init, ShownMemory
<1>3. FetchInv
  BY FetchStarts DEF Init
<1>4. CountTypes
  <2>1. AnyScenario \/ Counted(0, 0, 0, 0)
    BY DEF Init
  <2>2. CASE Counted(0, 0, 0, 0)
    BY <2>2, PageSizesAre DEF Counted, CountTypes
  <2>3. CASE AnyScenario
    <3>1. PICK used \in Scenarios :
            Counted(MaxCaptured - used[1], MaxPicks - used[2], MaxAsked - used[3], MaxUpsets - used[4])
      BY <2>3 DEF AnyScenario
    <3>2. /\ used[1] \in 0..2 /\ used[2] \in 0..3 /\ used[3] \in 0..2 /\ used[4] \in 0..1
      BY DEF Scenarios
    <3>3. MaxCaptured >= 2 /\ MaxPicks >= 3 /\ MaxAsked >= 2 /\ MaxUpsets >= 1
      BY ScenariosAssumption
    <3>4. /\ captured = MaxCaptured - used[1] /\ picks = MaxPicks - used[2]
          /\ asked = MaxAsked - used[3] /\ upsets = MaxUpsets - used[4]
      BY <3>1 DEF Counted
    <3> QED
      BY <3>2, <3>3, <3>4, PageSizesAre DEF CountTypes
  <2> QED
    BY <2>1, <2>2, <2>3
<1>5. PageInv
  BY <1>4, PageStarts DEF Init
<1>6. ReplayInv
  BY ReplayStarts, JournalReplayStarts, LogbookReplayStarts DEF Init, ReplayInv
<1> QED
  BY <1>1, <1>2, <1>3, <1>5, <1>6 DEF StoresInv

(* Every step keeps all invariants, and what is important. *)
LEMMA StoresStep ==
  ASSUME StoresInv, [Next]_storesVars
  PROVE  StoresInv' /\ ReceiptsAtStep /\ ImportantAtStep
<1>0. /\ ChatInv /\ JournalInv /\ LogbookInv /\ MemoryInv /\ PageInv /\ FetchInv
      /\ ReplayGivesWindow /\ JournalReplayInv /\ LogbookReplayInv
  BY DEF StoresInv, ReplayInv
<1>1. /\ SNext \/ UNCHANGED svars
      /\ JNext \/ UNCHANGED jvars
      /\ BNext \/ UNCHANGED bvars
      /\ MNext \/ UNCHANGED mvars
      /\ INext \/ UNCHANGED ivars
      /\ FetchNext \/ UNCHANGED fetchVars
  BY DEF Next, storesVars
<1>2. ChatInv' /\ ReceiptsAtStep
  BY <1>0, <1>1, ChatKeeps
<1>3. JournalInv'
  BY <1>0, <1>1, JournalKeeps
<1>4. LogbookInv'
  BY <1>0, <1>1, LogbookKeepsInv
<1>5. MemoryInv' /\ ImportantAtStep
  BY <1>0, <1>1, MemoryKeeps
<1>6. PageInv'
  BY <1>0, <1>1, PageKeeps
<1>7. FetchInv'
  BY <1>0, <1>1, FetchKeeps
<1>8. ReplayGivesWindow'
  BY <1>0, <1>1, <1>2, ChatReplays
<1>9. JournalReplayInv'
  BY <1>0, <1>1, JournalReplayStays
<1>10. LogbookReplayInv'
  BY <1>0, <1>1, <1>4, LogbookReplayStays
<1> QED
  BY <1>2, <1>3, <1>4, <1>5, <1>6, <1>7, <1>8, <1>9, <1>10 DEF StoresInv, ReplayInv

(* The invariants of the six parts hold side by side, however the steps of *)
(* the stores and the page interleave with kills and refused writes.       *)
THEOREM StoresInvariant == Spec => []StoresInv
<1>1. StoresInv /\ [Next]_storesVars => StoresInv'
  BY StoresStep
<1> QED
  BY <1>1, StoresStart, PTL DEF Spec

(* What the run checks follows from the invariants. *)
LEMMA StoresHold == StoresInv => TypeOK /\ FilesReplay /\ IdsStandForOne /\ StoresKeep /\ LookedUpIsTrue
<1> SUFFICES ASSUME StoresInv PROVE TypeOK /\ FilesReplay /\ IdsStandForOne /\ StoresKeep /\ LookedUpIsTrue
  OBVIOUS
<1>1. STypeOK /\ UniqueIds
  BY ChatHolds DEF StoresInv
<1>2. JTypeOK /\ JournalAscends /\ JournalStaysSmall
  BY RisingIsAscending, JournalIsSmall DEF StoresInv
<1>3. KTypeOK
  BY LogbookTypeOK DEF StoresInv
<1>4. MTypeOK /\ FilesHoldMemory /\ NoBatchIsLost
  BY MemoryTypeOK DEF StoresInv
<1>5. ITypeOK /\ RecordsAreOwn /\ QueryFinds /\ PanelsCatchUp
  BY PageIsTrue DEF StoresInv
<1>6. FetchTypeOK /\ FetchFinds
  BY FetchesFind DEF StoresInv
<1>7. TypeOK
  BY <1>1, <1>2, <1>3, <1>4, <1>5, <1>6 DEF TypeOK
<1>8. ReplayGivesWindow /\ JournalReplays /\ LogbookKeeps
  BY JournalFileReplays, LogbookReplays DEF StoresInv, ReplayInv
<1> QED
  BY <1>1, <1>2, <1>4, <1>5, <1>6, <1>7, <1>8 DEF FilesReplay, IdsStandForOne, StoresKeep, LookedUpIsTrue

(* The stores' types are right: rings no longer than their capacity,       *)
(* indices within their files, waiting writes of texts a file may have.    *)
THEOREM StoresTypeCorrect == Spec => []TypeOK
BY StoresInvariant, StoresHold, PTL

(* Whatever is appended, rewritten, compacted, cleared or written past the *)
(* chain by a teardown, and whatever a kill leaves of it: once all is      *)
(* written, the chat's file has its window and its receipts, the journal's *)
(* file ends as the dashboard's buffer does, and the logbook's file has    *)
(* the newest records, as far as no line was lost (load of the three       *)
(* stores).                                                                *)
THEOREM FilesAlwaysReplay == Spec => []FilesReplay
BY StoresInvariant, StoresHold, PTL

(* No id of a message and no number of a record stands for two things,     *)
(* however often the agent is restarted, whatever its files lost and        *)
(* whichever file is loaded (the transcript's seq after a restart, the     *)
(* journal's high-water mark); but an append under way at a teardown has   *)
(* its line twice on disk, and the next load makes two entries of it.      *)
THEOREM IdsAreUnique == Spec => []IdsStandForOne
BY StoresInvariant, StoresHold, PTL

(* The files of the notebook and the trail hold what memory holds once     *)
(* their writes are through, a batch evicted from the trail is in the      *)
(* notebook or in what is still to be written, and the journal's file has  *)
(* at most twice what it keeps and the lines that the last compaction did  *)
(* not count (store.ts compact).                                           *)
THEOREM StoresAreKept == Spec => []StoresKeep
BY StoresInvariant, StoresHold, PTL

(* What the inspector's page shows is of the agent picked, in order and    *)
(* complete, what its query finds is what the buffer has, its panels catch *)
(* up, and a fetch from the logbook finds the newest that match.           *)
THEOREM WhatIsLookedUpIsTrue == Spec => []LookedUpIsTrue
BY StoresInvariant, StoresHold, PTL

(* No step takes a read receipt off the disk without a rewrite on the way  *)
(* that holds it, in a store that is closed or open, except for the         *)
(* receipts that a write under way at a teardown has unread; and none       *)
(* drops a note to keep a less important one.                              *)
THEOREM WhatIsImportantStays == Spec => ImportantStays
<1>1. StoresInv /\ [Next]_storesVars =>
        /\ [\A e \in Id :
               LineWith(e, TRUE) \in OnDisk /\ LineWith(e, FALSE) \in OnDisk' =>
                 \/ e \in undone'
                 \/ ~closed' /\ \E i \in DOMAIN writing' :
                      writing'[i].kind = "rewrite" /\ LineWith(e, TRUE) \in ToSet(writing'[i].text)]_svars
        /\ [LET before == IF mstarts' # mstarts THEN notesFile' ELSE notes
            IN  counter' # counter \/ mstarts' # mstarts =>
                  \A lost \in ToSet(before) \ ToSet(notes'), kept \in ToSet(notes') :
                    lost.importance <= kept.importance]_mvars
  BY StoresStep DEF ReceiptsAtStep, ImportantAtStep
<1>2. Spec => ReceiptsStay /\ KeepsImportant
  BY <1>1, StoresInvariant, PTL DEF Spec, ReceiptsStay, KeepsImportant
<1> QED
  BY <1>2 DEF ImportantStays

=============================================================================
