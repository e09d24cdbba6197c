------------------------------- MODULE Mirror -------------------------------
(***************************************************************************)
(* The log lines of an agent on its own event bus.  Two sources emit them: *)
(* the loader the lines of the plugins and its own, the agent those of the *)
(* orchestrator.  An emission is synchronous, and who listens to log.entry *)
(* may log in turn; each source has a flag of its own, up while a line of  *)
(* its is delivered, that keeps it from being entered again.               *)
(***************************************************************************)
EXTENDS Integers, Sequences, FiniteSets

CONSTANTS
  Origin,       \* what emits log.entry: pushLogEntry, busLogger
  MaxWatcher,   \* the listeners to log.entry, numbered as they subscribed
  MaxLine       \* bound: the lines that are logged

ASSUME MirrorAssumption == {MaxWatcher, MaxLine} \subseteq Nat

Watcher == 1..MaxWatcher

VARIABLES
  emittingLog,  \* per source: its flag
  fanouts,      \* deliveries under way, the innermost last
  seen,         \* per watcher: the lines it was called with
  lines,        \* how many lines were logged
  muted         \* lines that never came to the bus (history)

mvars == <<emittingLog, fanouts, seen, lines, muted>>

Innermost == fanouts[Len(fanouts)]
Without1 == SubSeq(fanouts, 1, Len(fanouts) - 1)

MTypeOK ==
  /\ emittingLog \in [Origin -> BOOLEAN]
  /\ \A i \in DOMAIN fanouts :
       fanouts[i].source \in Origin /\ fanouts[i].line \in 1..lines /\ fanouts[i].next \in 1..(MaxWatcher + 1)
  /\ seen \in [Watcher -> Seq(1..lines)]
  /\ lines \in 0..MaxLine /\ muted \subseteq 1..lines

MInit ==
  /\ emittingLog = [s \in Origin |-> FALSE]
  /\ fanouts = <<>> /\ seen = [w \in Watcher |-> <<>>]
  /\ lines = 0 /\ muted = {}

(* Mutant of Guarded: one flag goes up, another is asked. *)
GuardedByOther(s) == \E t \in Origin \ {s} : emittingLog[t]

Guarded(s) == emittingLog[s]

(* A line is logged: from outside, or by the watcher that is being called.  *)
(* What a source logs while it delivers a line is not mirrored.            *)
Log(s) ==
  /\ lines < MaxLine
  /\ fanouts # <<>> => Innermost.next > 1
  /\ lines' = lines + 1
  /\ IF Guarded(s)
     THEN muted' = muted \cup {lines + 1} /\ UNCHANGED <<emittingLog, fanouts>>
     ELSE /\ emittingLog' = [emittingLog EXCEPT ![s] = TRUE]
          /\ fanouts' = Append(fanouts, [source |-> s, line |-> lines + 1, next |-> 1])
          /\ UNCHANGED muted
  /\ UNCHANGED seen

(* The next watcher is called; it returns or throws, which is the same. *)
Deliver ==
  /\ fanouts # <<>>
  /\ Innermost.next <= MaxWatcher
  /\ seen' = [seen EXCEPT ![Innermost.next] = Append(@, Innermost.line)]
  /\ fanouts' = Append(Without1, [Innermost EXCEPT !.next = @ + 1])
  /\ UNCHANGED <<emittingLog, lines, muted>>

(* All have been called: the flag comes down. *)
Delivered ==
  /\ fanouts # <<>>
  /\ Innermost.next > MaxWatcher
  /\ emittingLog' = [emittingLog EXCEPT ![Innermost.source] = FALSE]
  /\ fanouts' = Without1
  /\ UNCHANGED <<seen, lines, muted>>

MNext == (\E s \in Origin : Log(s)) \/ Deliver \/ Delivered

MSpec == MInit /\ [][MNext]_mvars

----------------------------------------------------------------------------
(* Properties.                                                             *)

Times(w, line) == Cardinality({i \in DOMAIN seen[w] : seen[w][i] = line})

(* "Drop a log-of-a-log; never recurse": no source delivers two lines at    *)
(* once, whatever the watchers log, so that deliveries nest no deeper than *)
(* there are sources; and a line that is logged while its source delivers  *)
(* none reaches every watcher once.                                        *)
LinesAreHeard ==
  [][/\ \A i, j \in DOMAIN fanouts' : fanouts'[i].source = fanouts'[j].source => i = j
     /\ (fanouts' = <<>>) =>
          \A line \in 1..lines', w \in Watcher : line \notin muted' => Times(w, line)' = 1]_mvars
=============================================================================
