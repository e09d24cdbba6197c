------------------------------- MODULE Shown -------------------------------
(***************************************************************************)
(* What the plugins of tools show of the results they keep: a ring of so   *)
(* many, the newest of them in full and older ones as long as a budget      *)
(* lasts, the rest with their headings only.  The code is the same in       *)
(* web-search and krakeycode.                                              *)
(***************************************************************************)
EXTENDS Naturals, Sequences, SequencesExt

(* Mutant of PushResult: the ring keeps what it has. *)
PushResultOver(ring, entry, max) == IF Len(ring) < max THEN Append(ring, entry) ELSE ring

(* The newest are kept. *)
PushResult(ring, entry, max) ==
  LET next == Append(ring, entry)
      over == IF Len(next) > max THEN Len(next) - max ELSE 0 IN
  SubSeq(next, over + 1, Len(next))

(* Mutant of InFull: one that does not fit is passed over. *)
InFullPast(sizes, budget) ==
  FoldRight(LAMBDA size, kept :
              IF kept.full = <<>> \/ kept.total + size <= budget
              THEN [full |-> <<TRUE>> \o kept.full, total |-> kept.total + size, on |-> TRUE]
              ELSE [kept EXCEPT !.full = <<FALSE>> \o @],
            sizes, [full |-> <<>>, total |-> 0, on |-> TRUE]).full

(* Per result, oldest first, whether it is shown in full: from the newest   *)
(* on, until one does not fit.                                             *)
InFull(sizes, budget) ==
  FoldRight(LAMBDA size, kept :
              IF kept.on /\ (kept.full = <<>> \/ kept.total + size <= budget)
              THEN [full |-> <<TRUE>> \o kept.full, total |-> kept.total + size, on |-> TRUE]
              ELSE [kept EXCEPT !.full = <<FALSE>> \o @, !.on = FALSE],
            sizes, [full |-> <<>>, total |-> 0, on |-> TRUE]).full
=============================================================================
