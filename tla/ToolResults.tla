----------------------------- MODULE ToolResults -----------------------------
(***************************************************************************)
(* How the result of a tool call comes back to the model: llm-core, the    *)
(* orchestrator and a tool plugin (krakeycode; web-search, browser and     *)
(* logbook keep the same ring).                                            *)
(*                                                                         *)
(* A reply with tool calls makes the orchestrator dispatch each of them;   *)
(* a call settles whenever it settles, its plugin puts the result on a     *)
(* ring and asks for a frame.  Composing a frame renders the ring, a       *)
(* context overflow sheds its oldest entries.  The return of a request      *)
(* clears it, answered or not: what a failed request carried is lost.      *)
(***************************************************************************)
EXTENDS Frames, SequencesExt

CONSTANTS
  MaxCalls,     \* bound: how many tool calls the model makes
  MaxResults    \* the ring's capacity

ASSUME CallsAssumption == MaxCalls \in Nat
ASSUME ResultsAssumption == MaxResults \in Nat \ {0}

Call == 1..MaxCalls

VARIABLES
  call,       \* per tool call: "unmade", "running", "settled"
  results,    \* the ring: settled calls, oldest first
  folded,     \* the results in the prompt last composed
  read,       \* results in the prompt of a request that was answered (history)
  burnt,      \* results in the prompt of a request that failed (history)
  shed,       \* results dropped by pressure or by the capacity (history)
  late        \* results the prompt last composed does not have (history)

rvars == <<call, results, folded, read, burnt, shed, late>>

RTypeOK ==
  /\ call \in [Call -> {"unmade", "running", "settled"}]
  /\ results \in Seq(Call)
  /\ Len(results) <= MaxResults
  /\ \A S \in {folded, read, burnt, shed, late} : S \subseteq Call

RInit ==
  /\ call = [c \in Call |-> "unmade"]
  /\ results = <<>>
  /\ folded = {} /\ read = {} /\ burnt = {} /\ shed = {} /\ late = {}

Unmade == {c \in Call : call[c] = "unmade"}

----------------------------------------------------------------------------
(* What the listeners do.                                                  *)

(* The orchestrator on an answered request: dispatch the calls it makes. *)
OnReturn ==
  \E n \in 0..Cardinality(Unmade) :
    call' = [c \in Call |->
               IF c \in Unmade /\ c <= MaxCalls - Cardinality(Unmade) + n
               THEN "running" ELSE call[c]]

(* Mutant of ClearResults: the results stay. *)
KeepResults == UNCHANGED results

(* The plugin on llm.return, which does not look at `ok': all goes. *)
ClearResults == results' = <<>>

(* Mutant of ShedOldest: the whole ring goes. *)
ShedEverything(round) == results' = <<>> /\ UNCHANGED shed

(* The plugin on context.full: drop the `round' oldest. *)
ShedOldest(round) ==
  LET kept == SubSeq(results, round + 1, Len(results)) IN
  /\ results' = kept
  /\ shed' = shed \cup (ToSet(results) \ ToSet(kept))

(* Mutant of PushResult: no capacity. *)
PushResultUncapped(c) == results' = Append(results, c) /\ UNCHANGED shed

(* A new result, and the oldest one out of a full ring. *)
PushResult(c) ==
  LET all == Append(results, c)
      over == Len(all) > MaxResults IN
  /\ results' = IF over THEN Tail(all) ELSE all
  /\ shed' = IF over THEN shed \cup {Head(all)} ELSE shed

----------------------------------------------------------------------------
(* What the plugin hears of a frame, and what the calls do.                *)

(* llm.return: the plugin clears its ring, the orchestrator dispatches. *)
ToolsHearReturn ==
  /\ ClearResults
  /\ IF LastReturn.ok /\ composeUp THEN OnReturn ELSE UNCHANGED call
  /\ read' = IF LastReturn.ok THEN read \cup folded ELSE read
  /\ burnt' = IF LastReturn.ok THEN burnt ELSE burnt \cup folded
  /\ UNCHANGED <<folded, shed, late>>

(* context.full, emitted as the next compose begins. *)
ToolsHearPressure(round) ==
  /\ ShedOldest(round)
  /\ UNCHANGED <<call, folded, read, burnt, late>>

(* The results block is rendered into the prompt. *)
RenderResults ==
  /\ folded' = ToSet(results)
  /\ late' = late \ ToSet(results)
  /\ UNCHANGED <<call, results, read, burnt, shed>>

(* A settled call goes on the ring; history: is there a prompt without it,  *)
(* or a frame that will have none?                                         *)
FoldBack(c) ==
  /\ call[c] = "running"
  /\ ~stopping
  /\ call' = [call EXCEPT ![c] = "settled"]
  /\ PushResult(c)
  /\ late' = IF \E l \in Loop : HasPrompt(l) \/ Refused(l) THEN late \cup {c} ELSE late
  /\ UNCHANGED <<folded, read, burnt>>

(* Mutant of ToolSettles: the result waits for the next tick. *)
ToolSettlesQuietly(c) == FoldBack(c) /\ UNCHANGED fvars

(* A tool call settles: the plugin keeps the result and fires the clock. *)
ToolSettles(c) == FoldBack(c) /\ FireNow

ToolsTornDown ==
  /\ results' = <<>>
  /\ UNCHANGED <<call, folded, read, burnt, shed, late>>

----------------------------------------------------------------------------
(* Properties.                                                             *)

Held == ToSet(results)
Settled == {c \in Call : call[c] = "settled"}

(* "Results are one-shot": a request never carries a result that a request  *)
(* which has returned carried before, retries and shedding included.       *)
OneShot == \A l \in Loop : pc[l] = "chat" => folded \cap (read \cup burnt) = {}

(* How a result leaves the ring without the model having read it: with the  *)
(* request that carried it, which failed; by pressure or the capacity; or  *)
(* because it settled after the last prompt was rendered and before the    *)
(* return.  Everything else has been read or is still held.                *)
UnreadForCause ==
  ~stopping => Settled \subseteq Held \cup read \cup burnt \cup shed \cup late

(* A result never waits for a tick: whatever the send lock was doing when   *)
(* it settled, no loop ends while the ring still holds something.          *)
NoResultStranded ==
  composeUp /\ ~stopping /\ (\A l \in Loop : pc[l] = "free") => Held = {}

(* "any results settling this frame survive to the next frame"             *)
(* (krakeycode/index.ts, the llm.return listener): what is gone was in the *)
(* prompt of a request that has returned, or was shed.                     *)
SurvivesToNextFrame ==
  ~stopping => Settled \subseteq Held \cup read \cup burnt \cup shed
=============================================================================
