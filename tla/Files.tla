-------------------------------- MODULE Files --------------------------------
(***************************************************************************)
(* A file of lines as Node leaves it.  A line that cannot be read is 0; a  *)
(* file is torn when its last line has no end: what is appended then       *)
(* becomes a part of that line and cannot be read either.                  *)
(*                                                                         *)
(* A write under way is [how, lines]: an append of one line, or a rewrite,  *)
(* which truncates the file before it writes.  What is kept of a sequence  *)
(* is given by the places of it that are kept.                             *)
(***************************************************************************)
EXTENDS Integers, SequencesExt

Whole(lines) == [lines |-> lines, torn |-> FALSE]

NoWrite == [how |-> "none", lines |-> <<>>]
Appending(line) == [how |-> "append", lines |-> <<line>>]
Rewriting(lines) == [how |-> "rewrite", lines |-> lines]

Newer(lines, n) == IF Len(lines) > n THEN SubSeq(lines, Len(lines) - n + 1, Len(lines)) ELSE lines

Added(f, line) == IF f.torn THEN Whole(f.lines) ELSE Whole(Append(f.lines, line))

(* What a sequence has at some of its places, in order. *)
Picked(s, places) ==
  [n \in 1..Cardinality(places) |->
     s[CHOOSE i \in places : Cardinality({j \in places : j < i}) = n - 1]]

Readable(f) == Picked(f.lines, {i \in DOMAIN f.lines : f.lines[i] # 0})

(* The file when a write has been done. *)
Written(f, w) ==
  CASE w.how = "append" -> Added(f, w.lines[1])
    [] w.how \in {"clear", "rewrite", "truncated"} -> Whole(w.lines)
    [] OTHER -> f

(* What a kill may leave of a file with a write under way. *)
Leftovers(f, w) ==
  CASE w.how = "append" ->
         {f, Added(f, w.lines[1]), IF f.torn THEN f ELSE [lines |-> Append(f.lines, 0), torn |-> TRUE]}
    [] w.how = "truncated" ->
         {Whole(w.lines)} \cup
           UNION {{Whole(SubSeq(w.lines, 1, n)), [lines |-> Append(SubSeq(w.lines, 1, n), 0), torn |-> TRUE]} :
                    n \in 0..(Len(w.lines) - 1)}
    [] OTHER -> {f}
=============================================================================
