------------------------------- MODULE Shell -------------------------------
(***************************************************************************)
(* krakeycode: a command that runs in a shell, the edit of a file, and the  *)
(* listing of a directory.                                                 *)
(*                                                                         *)
(* A shell is the leader of a process group.  What it starts stays in the  *)
(* group or leaves it, and holds the pipes of its output or does not; an   *)
(* output is counted in portions.  The streams are taken as one.           *)
(***************************************************************************)
EXTENDS Naturals, Sequences, FiniteSets, SequencesExt

CONSTANTS
  Child,       \* the processes a command may start
  MaxOutput,   \* maxOutputBytes
  MaxWritten,  \* bound: the output of a command
  Texts,       \* contents of a file that is edited
  Parts,       \* texts to be replaced, and replacements
  MaxNode,     \* bound: the entries of a tree that is listed
  MaxListed    \* bound: maxEntries

ASSUME ShellAssumption == {MaxOutput, MaxWritten} \subseteq Nat /\ Child \subseteq Nat \ {0}
ASSUME ListingAssumption == {MaxNode, MaxListed} \subseteq Nat

Leader == 0
Proc == Child \cup {Leader}

VARIABLES
  command,   \* the promise: "none", "running", or settled with an answer
  live,      \* the processes there are
  group,     \* those in the group of the shell
  holds,     \* those that hold the pipes
  code,      \* how the shell exited
  armed,     \* the timer
  killed,    \* it has fired
  written,   \* portions written
  captured,  \* portions kept
  answer,    \* what the call returned
  edit       \* an edit of a file, as asked for

shellvars == <<command, live, group, holds, code, armed, killed, written, captured, answer, edit>>

NoAnswer == [exitCode |-> "none", timedOut |-> FALSE, kept |-> 0]

ShellTypeOK ==
  /\ command \in {"none", "running", "settled"}
  /\ live \subseteq Proc /\ group \subseteq Proc /\ holds \subseteq Proc
  /\ code \in {"none", "zero", "failed", "signal"} /\ armed \in BOOLEAN /\ killed \in BOOLEAN
  /\ written \in 0..MaxWritten /\ captured \in 0..MaxOutput

Edits == [orig : Texts, old : Parts \ {<<>>}, new : Parts, all : BOOLEAN]

ShellInit ==
  /\ command = "none" /\ live = {} /\ group = {} /\ holds = {}
  /\ code = "none" /\ armed = FALSE /\ killed = FALSE
  /\ written = 0 /\ captured = 0 /\ answer = NoAnswer
  /\ edit \in Edits

(* The promise settles once. *)
Done(exitCode, kept) ==
  /\ command' = "settled" /\ armed' = FALSE
  /\ answer' = [exitCode |-> exitCode, timedOut |-> killed, kept |-> kept]

RunShell ==
  /\ command = "none"
  /\ command' = "running" /\ armed' = TRUE
  /\ live' = {Leader} /\ group' = {Leader} /\ holds' = {Leader}
  /\ UNCHANGED <<code, killed, written, captured, answer, edit>>

(* It cannot be started: the error is the answer. *)
SpawnError ==
  /\ command = "none"
  /\ Done("none", 0)
  /\ UNCHANGED <<live, group, holds, code, killed, written, captured, edit>>

(* A process of the command starts another, in the group or on its own,     *)
(* with the pipes or with an output elsewhere.                             *)
Forks(parent, child) ==
  /\ parent \in live /\ child \notin live \cup group \cup holds
  /\ live' = live \cup {child}
  /\ \/ group' = group \cup {child} /\ parent \in group
     \/ UNCHANGED group
  /\ \/ holds' = holds \cup {child} /\ parent \in holds
     \/ UNCHANGED holds
  /\ UNCHANGED <<command, code, armed, killed, written, captured, answer, edit>>

(* Mutant of Capture: the portion that goes over is kept as well. *)
CaptureOver(n) == captured + n

(* What is kept of a portion more. *)
Capture(n) == IF captured + n <= MaxOutput THEN captured + n ELSE MaxOutput

Writes(p) ==
  /\ p \in live \cap holds /\ written < MaxWritten
  /\ written' = written + 1
  /\ captured' = IF command = "running" THEN Capture(1) ELSE captured
  /\ UNCHANGED <<command, live, group, holds, code, armed, killed, answer, edit>>

Ends(p) ==
  /\ p \in live
  /\ live' = live \ {p}
  /\ code' \in (IF p = Leader THEN {"zero", "failed"} ELSE {code})
  /\ UNCHANGED <<command, group, holds, armed, killed, written, captured, answer, edit>>

(* Mutant of KillTree: only the shell is killed. *)
KillLeader == {Leader}

(* The signal goes to the group. *)
KillTree == group

(* The time is over: the group is killed, whoever of it is there. *)
HardKill ==
  /\ armed
  /\ armed' = FALSE /\ killed' = TRUE
  /\ live' = live \ KillTree
  /\ code' = IF Leader \in live THEN "signal" ELSE code
  /\ UNCHANGED <<command, group, holds, written, captured, answer, edit>>

(* Mutant of Ready: with the exit of the shell. *)
ReadyOnExit == Leader \notin live

(* "close" comes when the shell has exited and nobody holds the pipes. *)
Ready == Leader \notin live /\ live \cap holds = {}

Close ==
  /\ command = "running" /\ Ready
  /\ Done(code, captured)
  /\ UNCHANGED <<live, group, holds, code, killed, written, captured, edit>>

ShellNext ==
  \/ RunShell \/ SpawnError \/ HardKill \/ Close
  \/ \E p \in Proc : Writes(p) \/ Ends(p) \/ \E c \in Child : Forks(p, c)

(* The timer fires, and what has happened is noticed.  A command owes        *)
(* nothing.                                                                *)
ShellFairness == WF_shellvars(HardKill) /\ WF_shellvars(Close)

----------------------------------------------------------------------------
(* edit_file.                                                              *)

At(s, part, i) == i + Len(part) - 1 <= Len(s) /\ SubSeq(s, i, i + Len(part) - 1) = part

(* The places split() cuts at: from the left, none within another. *)
Cuts(s, part) ==
  FoldLeft(LAMBDA cuts, i :
             IF (\E c \in cuts : i < c + Len(part)) \/ ~At(s, part, i) THEN cuts ELSE cuts \cup {i},
           {}, [i \in DOMAIN s |-> i])

(* Mutant of Refused: the first is taken to be meant. *)
RefusedNone(e) == Cuts(e.orig, e.old) = {}

Refused(e) ==
  \/ Cuts(e.orig, e.old) = {}
  \/ Cardinality(Cuts(e.orig, e.old)) > 1 /\ ~e.all

(* The file with the parts at the cuts replaced. *)
Updated(e) ==
  LET cuts == Cuts(e.orig, e.old)
      within == {i \in DOMAIN e.orig : \E c \in cuts : c <= i /\ i < c + Len(e.old)} IN
  FoldLeft(LAMBDA out, i :
             IF i \in cuts THEN out \o e.new
             ELSE IF i \in within THEN out ELSE Append(out, e.orig[i]),
           <<>>, [i \in DOMAIN e.orig |-> i])

----------------------------------------------------------------------------
(* list_dir: the entries of a directory and, so many levels deep, of those  *)
(* in it; so many at most, over all levels.                                *)
(*                                                                         *)
(* A listing is what is asked for, of a tree: per entry, a number, the one *)
(* it is in.  An entry with others in it is a directory; one that is none, *)
(* a link to one included, is not gone into, so that the real paths that   *)
(* the code compares never coincide.                                       *)

Top == 0
Node == 1..MaxNode

Trees == {inside \in [Node -> 0..MaxNode] : \A n \in Node : inside[n] < n}
Listings == [inside : Trees, depth : 0..MaxNode, maxEntries : 0..MaxListed]

Entries(l, dir) == SetToSortSeq({n \in Node : l.inside[n] = dir}, <)

(* Mutant of GoesInto: one level more. *)
GoesIntoMore(l, cur) == l.depth = 0 \/ cur < l.depth

(* At this level, is a directory gone into?  No depth is all depths. *)
GoesInto(l, cur) == l.depth = 0 \/ cur + 1 < l.depth

(* What is listed, after what was before. *)
CollectEntries(l) ==
  LET collect[dir \in 0..MaxNode, cur \in 0..MaxNode, before \in Seq(Node)] ==
        FoldLeft(LAMBDA out, n :
                   IF Len(out) >= l.maxEntries THEN out
                   ELSE IF GoesInto(l, cur) THEN collect[n, cur + 1, Append(out, n)]
                   ELSE Append(out, n),
                 before, Entries(l, dir)) IN
  collect

ListDir(l) == CollectEntries(l)[Top, 0, <<>>]

----------------------------------------------------------------------------
(* Properties.                                                             *)

(* A command's answer has all that it and what it started ever write to    *)
(* its pipes, as far as it is kept; one that timed out left nothing of its *)
(* group running; and only one that timed out was killed.                  *)
AnswersWhole ==
  command = "settled" /\ code # "none" =>
    /\ answer.kept = (IF written < MaxOutput THEN written ELSE MaxOutput)
    /\ answer.timedOut => live \cap group = {}
    /\ answer.exitCode = "signal" => answer.timedOut

(* An edit of one place changes that one and nothing else, and is made only *)
(* where no other could have been meant, but for one that overlaps it: of   *)
(* those, the code takes the first.                                        *)
EditsAreExact ==
  ~Refused(edit) /\ ~edit.all =>
    \E i \in DOMAIN edit.orig :
      /\ At(edit.orig, edit.old, i)
      /\ Updated(edit) = SubSeq(edit.orig, 1, i - 1) \o edit.new
                           \o SubSeq(edit.orig, i + Len(edit.old), Len(edit.orig))
      /\ \A j \in DOMAIN edit.orig :
           At(edit.orig, edit.old, j) => j >= i /\ j < i + Len(edit.old)

Level(l) ==
  LET level[n \in 0..MaxNode] == IF n = Top THEN 0 ELSE 1 + level[l.inside[n]] IN level

Within(l, dir) ==
  LET within[n \in 0..MaxNode] == n # Top /\ (l.inside[n] = dir \/ within[l.inside[n]]) IN within

(* Each entry as deep as was asked is listed once, and none deeper: all of  *)
(* them, or as many as were asked; and what is left out for their number is *)
(* the end: no directory is cut short for one that comes after it.          *)
ListingIsExact(l) ==
  LET out == ListDir(l)
      listed == ToSet(out)
      asked == {n \in Node : l.depth = 0 \/ Level(l)[n] <= l.depth} IN
  /\ listed \subseteq asked /\ Len(out) = Cardinality(listed)
  /\ listed = asked \/ Len(out) = l.maxEntries
  /\ \A i \in DOMAIN out : l.inside[out[i]] = Top \/ \E j \in 1..(i - 1) : out[j] = l.inside[out[i]]
  /\ \A i \in DOMAIN out, n \in asked \ listed :
       l.inside[n] = out[i] => \A j \in (i + 1)..Len(out) : Within(l, out[i])[out[j]]

(* A command is answered, at the latest when its time is over, unless a     *)
(* process that left its group holds the pipes.                            *)
ShellsSettle ==
  command = "running" ~> command = "settled" \/ (live \cap holds) \ group # {}
=============================================================================
