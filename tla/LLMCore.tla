------------------------------ MODULE LLMCore ------------------------------
(***************************************************************************)
(* The llm-core plugin: one model round-trip per trigger.                  *)
(*                                                                         *)
(* A trigger (the llm.request event) either starts a send loop for its     *)
(* agent id or, when that id is in flight, leaves a mark the running loop  *)
(* reads when its current send is over.  A send composes the prompt,       *)
(* shrinks it while the estimate exceeds the budget, dispatches it, and    *)
(* retries a context-overflow rejection; every one of these waits is an    *)
(* await, and triggers, the orchestrator's stop and the plugin's teardown  *)
(* may run in each of them.  One action is the code between two awaits.    *)
(*                                                                         *)
(* Not modelled: what a prompt, a reply or a tool definition contains; an  *)
(* estimate is any member of Estimate, drawn when the code computes it.    *)
(***************************************************************************)
EXTENDS Integers, Sequences

CONSTANTS
  Key,          \* agent ids a trigger may carry (the lock keys)
  Loop,         \* identities for the running send loops
  Config,       \* the configurations setup may read
  Estimate,     \* the values the prompt estimate takes
  NoBudget,     \* the model's context window is unknown
  MaxTriggers   \* bound: how many triggers arrive

ConfigType ==
  [budget : Int \cup {NoBudget}, maxReduceRounds : Nat,
   retryOnContextError : BOOLEAN, canChat : BOOLEAN]

ASSUME ConfigAssumption == Config \subseteq ConfigType
ASSUME EstimateAssumption == Estimate \subseteq Nat
ASSUME BoundAssumption == MaxTriggers \in Nat
ASSUME KeyAssumption == Key # {}

VARIABLES
  config,      \* read once by setup
  composeUp,   \* prompt.compose is registered (the orchestrator runs)
  stopping,    \* teardown has run: the context is gone, nothing listens
  inFlight,    \* per id: the lock
  triggered,   \* per id: a trigger arrived while in flight
  pc,          \* per loop: the await it is parked at
  frame,       \* per loop: its id, the rounds and estimate, the attempt
  seq,         \* the last correlation id handed out
  sent,        \* ids announced by llm.request.sent, then handed to chat()
  returned,    \* the llm.return events, in order
  output,      \* ids whose reply was announced by output.message
  crashed,     \* a send loop rejected: an unhandled promise rejection
  triggers,    \* how many triggers have arrived (bounded)
  wanted       \* ids with a trigger after which no send has begun (history)

bus == <<sent, returned, output>>
lock == <<inFlight, triggered, wanted>>
world == <<config, composeUp, stopping, triggers>>
vars == <<config, composeUp, stopping, inFlight, triggered, pc, frame, seq,
          sent, returned, output, crashed, triggers, wanted>>

(* Where a loop can be parked.  "free" is a loop that does not exist. *)
Await == {"compose", "listing", "recompose", "tools", "chat", "retry", "done"}
NoEstimate == -1

Frame ==
  [key : Key, round : Nat, last : Estimate \cup {NoEstimate}, id : Nat]

NewFrame(k) == [key |-> k, round |-> 0, last |-> NoEstimate, id |-> 0]
NoFrame == NewFrame(CHOOSE k \in Key : TRUE)

TypeOK ==
  /\ config \in Config
  /\ composeUp \in BOOLEAN
  /\ stopping \in BOOLEAN
  /\ inFlight \in [Key -> BOOLEAN]
  /\ triggered \in [Key -> BOOLEAN]
  /\ pc \in [Loop -> Await \cup {"free"}]
  /\ frame \in [Loop -> Frame]
  /\ \A l \in Loop : frame[l].round <= config.maxReduceRounds
  /\ seq \in Nat
  /\ sent \in SUBSET Nat
  /\ returned \in Seq([id : Nat, ok : BOOLEAN])
  /\ output \in SUBSET Nat
  /\ crashed \in BOOLEAN
  /\ triggers \in Nat
  /\ wanted \in [Key -> BOOLEAN]

Init ==
  /\ config \in Config
  /\ composeUp = FALSE
  /\ stopping = FALSE
  /\ inFlight = [k \in Key |-> FALSE]
  /\ triggered = [k \in Key |-> FALSE]
  /\ pc = [l \in Loop |-> "free"]
  /\ frame = [l \in Loop |-> NoFrame]
  /\ seq = 0
  /\ sent = {}
  /\ returned = <<>>
  /\ output = {}
  /\ crashed = FALSE
  /\ triggers = 0
  /\ wanted = [k \in Key |-> FALSE]

----------------------------------------------------------------------------
(* The pieces of a send between two awaits.                                *)

Park(l, p) == pc' = [pc EXCEPT ![l] = p]

(* runLoop's finally: the loop is gone and its id no longer in flight. *)
Free(l) ==
  /\ Park(l, "free")
  /\ frame' = [frame EXCEPT ![l] = NoFrame]
  /\ inFlight' = [inFlight EXCEPT ![frame[l].key] = FALSE]

(* The start of sendOnce: nothing while stopping, nothing without          *)
(* prompt.compose, else the compose call.                                  *)
BeginSend(l, k) ==
  /\ Park(l, IF ~stopping /\ composeUp THEN "compose" ELSE "done")
  /\ frame' = [frame EXCEPT ![l] = NewFrame(k)]
  /\ wanted' = [wanted EXCEPT ![k] = FALSE]

(* sendOnce returns to the loop with nothing more to say. *)
EndSend(l) ==
  /\ Park(l, "done")
  /\ UNCHANGED <<frame, seq, crashed, inFlight, bus>>

(* A dereference of the context after teardown throws: the loop's finally   *)
(* frees the lock and the rejection is nobody's.                            *)
Throw(l) ==
  /\ Free(l)
  /\ crashed' = TRUE
  /\ UNCHANGED <<seq, bus>>

(* Mutant of Report: a late reply is emitted after teardown. *)
ReportLate(l, success) ==
  /\ Park(l, "done")
  /\ returned' = Append(returned, [id |-> frame[l].id, ok |-> success])
  /\ UNCHANGED <<frame, seq, crashed, inFlight, sent>>

(* emitReturn and the end of the send: silent once torn down. *)
Report(l, success) ==
  /\ Park(l, "done")
  /\ returned' = IF stopping THEN returned
                 ELSE Append(returned, [id |-> frame[l].id, ok |-> success])
  /\ UNCHANGED <<frame, seq, crashed, inFlight, sent>>

(* The head of the reactive loop: a fresh correlation id, then either the   *)
(* immediate failure for want of a communicator or the tool listing.        *)
Dispatch(l) ==
  IF stopping THEN EndSend(l)
  ELSE /\ seq' = seq + 1
       /\ frame' = [frame EXCEPT ![l].id = seq + 1]
       /\ Park(l, IF config.canChat THEN "tools" ELSE "done")
       /\ returned' = IF config.canChat THEN returned
                      ELSE Append(returned, [id |-> seq + 1, ok |-> FALSE])
       /\ UNCHANGED <<crashed, inFlight, sent, output>>

(* Mutant of MayShrink: the cap is off by one. *)
MayShrinkOnceMore(l) == frame[l].round <= config.maxReduceRounds

MayShrink(l) == frame[l].round < config.maxReduceRounds

(* One more context.full, then compose again; p is the await. *)
Shrink(l, p, est) ==
  /\ frame' = [frame EXCEPT ![l].round = @ + 1, ![l].last = est]
  /\ Park(l, p)
  /\ UNCHANGED <<seq, crashed, inFlight, bus>>

(* One test of the proactive loop: over budget, and the last round helped.  *)
(* A prompt that stays over budget is sent with a warning; emitting or      *)
(* warning needs the context.                                               *)
Settle(l, est) ==
  LET over == est > config.budget IN
  IF over /\ stopping THEN Throw(l)
  ELSE IF over /\ MayShrink(l) /\ est # frame[l].last
  THEN Shrink(l, "recompose", est)
  ELSE Dispatch(l)

----------------------------------------------------------------------------
(* What the rest of the agent does to the plugin.                          *)

(* The orchestrator registers prompt.compose when the agent starts. *)
ComposeRegistered ==
  /\ ~composeUp
  /\ ~stopping
  /\ composeUp' = TRUE
  /\ UNCHANGED <<config, stopping, lock, pc, frame, seq, bus, crashed, triggers>>

(* An agent stops its orchestrator before it tears the plugins down. *)
ComposeUnregistered ==
  /\ composeUp
  /\ composeUp' = FALSE
  /\ UNCHANGED <<config, stopping, lock, pc, frame, seq, bus, crashed, triggers>>

Teardown ==
  /\ ~stopping
  /\ stopping' = TRUE
  /\ UNCHANGED <<config, composeUp, lock, pc, frame, seq, bus, crashed, triggers>>

(* Mutant of TriggerIdle: the lock is not consulted. *)
TriggerUnlocked(k, l) ==
  /\ ~stopping
  /\ triggers < MaxTriggers
  /\ triggers' = triggers + 1
  /\ pc[l] = "free"
  /\ inFlight' = [inFlight EXCEPT ![k] = TRUE]
  /\ triggered' = [triggered EXCEPT ![k] = FALSE]
  /\ BeginSend(l, k)
  /\ UNCHANGED <<config, composeUp, stopping, seq, bus, crashed>>

(* An llm.request for an id that is not in flight. *)
TriggerIdle(k, l) ==
  /\ ~stopping
  /\ triggers < MaxTriggers
  /\ triggers' = triggers + 1
  /\ ~inFlight[k]
  /\ pc[l] = "free"
  /\ inFlight' = [inFlight EXCEPT ![k] = TRUE]
  /\ triggered' = [triggered EXCEPT ![k] = FALSE]
  /\ BeginSend(l, k)
  /\ UNCHANGED <<config, composeUp, stopping, seq, bus, crashed>>

(* Mutant of TriggerBusy: a request in flight makes the trigger a no-op. *)
TriggerDropped(k) ==
  /\ ~stopping
  /\ triggers < MaxTriggers
  /\ triggers' = triggers + 1
  /\ inFlight[k]
  /\ wanted' = [wanted EXCEPT ![k] = TRUE]
  /\ UNCHANGED <<config, composeUp, stopping, inFlight, triggered, pc, frame, seq, bus, crashed>>

(* An llm.request for an id in flight is coalesced. *)
TriggerBusy(k) ==
  /\ ~stopping
  /\ triggers < MaxTriggers
  /\ triggers' = triggers + 1
  /\ inFlight[k]
  /\ triggered' = [triggered EXCEPT ![k] = TRUE]
  /\ wanted' = [wanted EXCEPT ![k] = TRUE]
  /\ UNCHANGED <<config, composeUp, stopping, inFlight, pc, frame, seq, bus, crashed>>

----------------------------------------------------------------------------
(* The awaits of a send, one action for each way one can settle.           *)

Unlocked == <<world, triggered, wanted>>

(* The first compose succeeds.  With a budget the tools are listed first,   *)
(* which dereferences the context.                                          *)
Composed(l) ==
  /\ pc[l] = "compose"
  /\ IF config.budget = NoBudget THEN Dispatch(l)
     ELSE IF stopping THEN Throw(l)
     ELSE /\ Park(l, "listing")
          /\ UNCHANGED <<frame, seq, crashed, inFlight, bus>>
  /\ UNCHANGED <<Unlocked, output>>

(* The first or a proactive compose fails: the warning needs the context. *)
ComposeFailed(l) ==
  /\ pc[l] \in {"compose", "recompose"}
  /\ IF stopping THEN Throw(l) ELSE EndSend(l)
  /\ UNCHANGED Unlocked

(* The tools are listed: enter the proactive loop, unless shrinking is off. *)
Listed(l) ==
  /\ pc[l] = "listing"
  /\ IF config.maxReduceRounds = 0 THEN Dispatch(l)
     ELSE IF stopping THEN EndSend(l)
     ELSE \E est \in Estimate : Settle(l, est)
  /\ UNCHANGED <<Unlocked, output>>

Recomposed(l) ==
  /\ pc[l] = "recompose"
  /\ \E est \in Estimate : Settle(l, est)
  /\ UNCHANGED <<Unlocked, output>>

(* The round-trip has its tools: announce the request and call chat(). *)
ToolsListed(l) ==
  /\ pc[l] = "tools"
  /\ IF stopping THEN Throw(l)
     ELSE /\ sent' = sent \cup {frame[l].id}
          /\ Park(l, "chat")
          /\ UNCHANGED <<frame, seq, crashed, inFlight, returned, output>>
  /\ UNCHANGED <<Unlocked, output>>

(* The model answers; a reply with text is also announced as output. *)
ChatOk(l) ==
  /\ pc[l] = "chat"
  /\ Report(l, TRUE)
  /\ output' \in IF stopping THEN {output} ELSE {output, output \cup {frame[l].id}}
  /\ UNCHANGED Unlocked

(* Mutant of ChatOverflow: the rejected attempt reports before the retry. *)
OverflowReports(l) ==
  /\ pc[l] = "chat"
  /\ config.retryOnContextError
  /\ MayShrink(l)
  /\ ~stopping
  /\ frame' = [frame EXCEPT ![l].round = @ + 1]
  /\ Park(l, "retry")
  /\ returned' = Append(returned, [id |-> frame[l].id, ok |-> FALSE])
  /\ UNCHANGED <<Unlocked, seq, crashed, inFlight, sent, output>>

(* The provider rejects the prompt as too long and a round is left. *)
ChatOverflow(l) ==
  /\ pc[l] = "chat"
  /\ config.retryOnContextError
  /\ MayShrink(l)
  /\ IF stopping THEN EndSend(l) ELSE Shrink(l, "retry", frame[l].last)
  /\ UNCHANGED <<Unlocked, output>>

(* Any other rejection, or an overflow with no round left. *)
ChatFailed(l) ==
  /\ pc[l] = "chat"
  /\ Report(l, FALSE)
  /\ UNCHANGED <<Unlocked, output>>

(* The retry's compose succeeds: dispatch under a fresh id. *)
RetryComposed(l) ==
  /\ pc[l] = "retry"
  /\ Dispatch(l)
  /\ UNCHANGED <<Unlocked, output>>

(* Mutant of RetryComposeFailed: returns as the first compose does. *)
RetryComposeSilent(l) ==
  /\ pc[l] = "retry"
  /\ IF stopping THEN Throw(l) ELSE EndSend(l)
  /\ UNCHANGED <<Unlocked, output>>

(* The retry's compose fails: the provider's error is the terminal reply. *)
RetryComposeFailed(l) ==
  /\ pc[l] = "retry"
  /\ IF stopping THEN Throw(l) ELSE Report(l, FALSE)
  /\ UNCHANGED <<Unlocked, output>>

(* runLoop after a send: once more if triggered ... *)
LoopAgain(l) ==
  /\ pc[l] = "done"
  /\ triggered[frame[l].key]
  /\ triggered' = [triggered EXCEPT ![frame[l].key] = FALSE]
  /\ BeginSend(l, frame[l].key)
  /\ UNCHANGED <<world, inFlight, seq, bus, crashed>>

(* Mutant of LoopEnd: one pass, the mark is not read. *)
LoopEndsAnyway(l) ==
  /\ pc[l] = "done"
  /\ Free(l)
  /\ UNCHANGED <<world, triggered, wanted, seq, bus, crashed>>

(* ... else free the lock and end. *)
LoopEnd(l) ==
  /\ pc[l] = "done"
  /\ ~triggered[frame[l].key]
  /\ Free(l)
  /\ UNCHANGED <<world, triggered, wanted, seq, bus, crashed>>

----------------------------------------------------------------------------
(* One step of the send loop l. *)
Step(l) ==
  \/ Composed(l) \/ ComposeFailed(l)
  \/ Listed(l) \/ Recomposed(l) \/ ToolsListed(l)
  \/ ChatOk(l) \/ ChatOverflow(l) \/ ChatFailed(l)
  \/ RetryComposed(l) \/ RetryComposeFailed(l)
  \/ LoopAgain(l) \/ LoopEnd(l)

Environment ==
  \/ ComposeRegistered \/ ComposeUnregistered \/ Teardown
  \/ \E k \in Key : TriggerBusy(k)
  \/ \E k \in Key, l \in Loop : TriggerIdle(k, l)

Next == Environment \/ \E l \in Loop : Step(l)

(* Fairness: every await settles (an action handler returns, a provider    *)
(* answers or times out) and the event loop runs its continuation.  No     *)
(* outcome is promised, and nothing obliges the environment to act.        *)
Spec == Init /\ [][Next]_vars /\ \A l \in Loop : WF_vars(Step(l))

----------------------------------------------------------------------------
(* Properties.                                                             *)

Active(l) == pc[l] # "free"

(* At most one send loop per agent id, at any await, whatever arrives: the *)
(* lock of the "single-flight" contract (index.ts, FrameState).            *)
SingleFlight ==
  \A l, m \in Loop :
    Active(l) /\ Active(m) /\ frame[l].key = frame[m].key => l = m

(* The lock is neither leaked nor lost: an id is in flight exactly while a *)
(* loop runs for it, teardown and rejections included (runLoop's finally). *)
LockFollowsLoop ==
  \A k \in Key :
    inFlight[k] <=> \E l \in Loop : Active(l) /\ frame[l].key = k

(* A trigger that arrived while a send was under way is never forgotten:   *)
(* as long as the plugin lives, the mark is there and a loop will read it. *)
NoForgottenTrigger ==
  ~stopping => \A k \in Key : wanted[k] => triggered[k] /\ inFlight[k]

(* One loop at a time, and a loop for every trigger. *)
EveryTriggerServed == SingleFlight /\ NoForgottenTrigger

(* Every attempt reports at most once, and under an id of its own. *)
OneReturnPerAttempt ==
  \A i, j \in DOMAIN returned : returned[i].id = returned[j].id => i = j

(* A send that dispatched an attempt and is over has reported exactly its  *)
(* last attempt, unless teardown silenced it: no frame ends in silence.    *)
DispatchedSendReports ==
  \A l \in Loop :
    pc[l] = "done" /\ frame[l].id # 0 /\ ~stopping =>
      \E i \in DOMAIN returned : returned[i].id = frame[l].id

(* An attempt that is still out, or that a retry replaced, has no return:  *)
(* observers that pair sent with returned see one terminal reply per send. *)
NoEarlyReturn ==
  \A l \in Loop :
    pc[l] \in {"tools", "chat", "retry"} =>
      \A i \in DOMAIN returned : returned[i].id # frame[l].id

(* Observers that pair llm.request.sent with llm.return never see two      *)
(* terminal replies of one send, nor one of an attempt that is not over.   *)
OneTerminalReply == OneReturnPerAttempt /\ NoEarlyReturn

(* One report per send, neither more nor less. *)
OneReportPerSend == OneTerminalReply /\ DispatchedSendReports

(* After teardown the plugin emits nothing and calls no model, however     *)
(* many awaits were open. *)
QuietAfterTeardown == [][stopping => UNCHANGED <<sent, returned, output>>]_vars

(* A send loop never dies of an exception: the comments at the teardown    *)
(* guards promise a silent return ("torn down while listing tools - emit   *)
(* nothing"), and a test asserts that no rejection escapes.                *)
NoUnhandledRejection == ~crashed

(* The flags implement the abstract lock. *)
Promise == INSTANCE Coalescer WITH
  working <- {frame[l].key : l \in {m \in Loop : Active(m)}},
  demand <- {k \in Key : wanted[k]},
  open <- ~stopping

Coalesces == Promise!CSpec
=============================================================================
