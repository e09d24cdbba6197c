------------------------------ MODULE Cadence ------------------------------
(***************************************************************************)
(* The clock under the plugins that set an agent's pace: interval_toggle,  *)
(* which keeps a base rhythm and holds another one for some frames, retry, *)
(* which wakes the agent after a failed request, and whoever fires a tick  *)
(* at once.  They reach the clock through the orchestrator's actions.      *)
(*                                                                         *)
(* A call of interval.set or interval.hold sets the default at once and    *)
(* the current interval after an await; in between other promise jobs run, *)
(* but no timer.  The clock's one handler emits the tick, which the        *)
(* listeners of an activation hear before the clock re-arms.               *)
(*                                                                         *)
(* The same clock is also run under callers that obey no such rules        *)
(* (`who'): they call every operation at any depth of activations.         *)
(***************************************************************************)
EXTENDS Clock, Sequences

CONSTANTS
  MaxFrames,    \* bound: the frames a hold asks for
  MaxCalls,     \* bound: the calls of interval.set and interval.hold
  MaxFailures,  \* bound: a longer streak of failures counts as this one
  RetryConfig   \* the settings of the retry plugin that occur

Smaller(m, n) == IF m < n THEN m ELSE n

(* What the retry plugin with settings c asks for after n failures in a row. *)
RetryMs(c, n) ==
  IF c.backoff
  THEN Smaller(c.maxRetryIntervalMs, c.retryIntervalMs * 2 ^ (n - 1))
  ELSE c.retryIntervalMs

Retries(c, n) == c.maxConsecutiveRetries = 0 \/ n <= c.maxConsecutiveRetries

ASSUME FramesAssumption == MaxFrames \in Nat \ {0} /\ MaxCalls \in Nat /\ MaxFailures \in Nat
ASSUME RetryAssumption ==
  \A c \in RetryConfig : \A n \in 1..(MaxFailures + 1) : RetryMs(c, n) \in Interval

VARIABLES
  who,          \* who calls the clock: "anyone" or the "plugins"
  retry,        \* the retry plugin's settings
  up,           \* the agent: "new", "up" or "down"
  baseMs,       \* interval_toggle: the rhythm a hold reverts to
  remaining,    \* interval_toggle: frames left of the hold
  waiting,      \* calls between setDefault and setCurrent, oldest first
  calls,        \* calls so far
  heard,        \* the listeners of the running activation have run
  due,          \* returns llm-core still owes: one in flight, one coalesced
  consecutiveFailures,
  heldDefault   \* history: the clock's default comes from a hold

pvars == <<who, retry, up, baseMs, remaining, waiting, calls, heard, due,
           consecutiveFailures, heldDefault>>
hvars == <<vars, pvars>>

(* An interval a call may carry: 0 is a fraction of a millisecond, which   *)
(* passes the plugin's own check before it is rounded down.                *)
Asked == Interval \cup {0}

HTypeOK ==
  /\ TypeOK
  /\ who \in {"anyone", "plugins"} /\ up \in {"new", "up", "down"}
  /\ retry \in RetryConfig
  /\ baseMs \in Asked /\ remaining \in 0..MaxFrames
  /\ waiting \in Seq(Interval) /\ calls \in 0..MaxCalls
  /\ Len(waiting) <= calls
  /\ heard \in BOOLEAN /\ heldDefault \in BOOLEAN
  /\ due \in 0..2 /\ consecutiveFailures \in 0..MaxFailures

HInit ==
  /\ Init
  /\ who \in {"anyone", "plugins"}
  /\ retry \in RetryConfig
  /\ up = "new"
  /\ baseMs \in Interval
  /\ remaining = 0 /\ waiting = <<>> /\ calls = 0
  /\ heard = FALSE /\ due = 0 /\ consecutiveFailures = 0 /\ heldDefault = FALSE

----------------------------------------------------------------------------
(* The agent wires, starts and stops its clock.                            *)

Wire ==
  /\ ~hasHandler
  /\ OnFire
  /\ UNCHANGED pvars

AgentUp ==
  /\ hasHandler /\ up = "new"
  /\ Start
  /\ up' = "up"
  /\ UNCHANGED <<who, retry, baseMs, remaining, waiting, calls, heard, due,
                 consecutiveFailures, heldDefault>>

(* The clock stops and the orchestrator withdraws its actions. *)
AgentDown ==
  /\ up = "up" /\ depth = 0
  /\ Stop
  /\ up' = "down"
  /\ UNCHANGED <<who, retry, baseMs, remaining, waiting, calls, heard, due,
                 consecutiveFailures, heldDefault>>

Calm == up = "up" /\ depth = 0

SetInterval(ms) ==
  SetIntervalIdle(ms) \/ SetIntervalReached(ms) \/ SetIntervalAhead(ms)

----------------------------------------------------------------------------
(* interval_toggle.                                                        *)

(* The first half of a call: the default, refused by the orchestrator when *)
(* ms is 0, and the place in the queue for the second half.                *)
BeginCall(ms, held) ==
  /\ Calm /\ calls < MaxCalls
  /\ calls' = calls + 1
  /\ IF ms = 0
     THEN UNCHANGED <<vars, waiting, heldDefault>>
     ELSE /\ SetDefaultInterval(ms)
          /\ waiting' = Append(waiting, ms)
          /\ heldDefault' = held
  /\ UNCHANGED <<who, retry, up, heard, due, consecutiveFailures>>

IntervalSet(ms) ==
  /\ baseMs' = ms
  /\ remaining' = 0
  /\ BeginCall(ms, FALSE)

(* Mutant of IntervalHold: one frame more than asked for. *)
HoldOverflows(ms, frames) ==
  /\ remaining' = frames + 1
  /\ BeginCall(ms, TRUE)
  /\ UNCHANGED baseMs

IntervalHold(ms, frames) ==
  /\ remaining' = frames
  /\ BeginCall(ms, TRUE)
  /\ UNCHANGED baseMs

(* The second half: the current interval, which may fire at once. *)
FinishCall ==
  /\ waiting # <<>> /\ depth = 0
  /\ waiting' = Tail(waiting)
  /\ IF up = "up" THEN SetInterval(Head(waiting)) ELSE UNCHANGED vars
  /\ UNCHANGED <<who, retry, up, baseMs, remaining, calls, heard, due,
                 consecutiveFailures, heldDefault>>

(* Mutant of CountDown: the revert sets the current interval, which the     *)
(* end of the activation overwrites.                                       *)
CountDownCurrent ==
  /\ remaining' = IF remaining > 0 THEN remaining - 1 ELSE 0
  /\ IF remaining = 1 /\ baseMs # 0
     THEN currentIntervalMs' = baseMs
          /\ UNCHANGED <<defaultIntervalMs, hasHandler, running, countdown, depth, heldDefault>>
     ELSE UNCHANGED <<vars, heldDefault>>

(* A frame of the hold is over; the last one puts the default back, unless *)
(* the orchestrator refuses the base.                                      *)
CountDown ==
  /\ remaining' = IF remaining > 0 THEN remaining - 1 ELSE 0
  /\ IF remaining = 1 /\ baseMs # 0
     THEN SetDefaultInterval(baseMs) /\ heldDefault' = FALSE
     ELSE UNCHANGED <<vars, heldDefault>>

(* The tick reaches its listeners; the orchestrator asks for a request. *)
TickHeard ==
  /\ who = "plugins"
  /\ depth > 0 /\ ~heard
  /\ heard' = TRUE
  /\ due' = Smaller(2, due + 1)
  /\ CountDown
  /\ UNCHANGED <<who, retry, up, baseMs, waiting, calls, consecutiveFailures>>

----------------------------------------------------------------------------
(* retry, and the plugins that want a tick now.                            *)

LLMFails ==
  /\ Calm /\ due > 0
  /\ due' = due - 1
  /\ consecutiveFailures' = Smaller(MaxFailures, consecutiveFailures + 1)
  /\ IF Retries(retry, consecutiveFailures + 1)
     THEN SetInterval(RetryMs(retry, consecutiveFailures + 1))
     ELSE UNCHANGED vars
  /\ UNCHANGED <<who, retry, up, baseMs, remaining, waiting, calls, heard, heldDefault>>

LLMSucceeds ==
  /\ Calm /\ due > 0
  /\ due' = due - 1
  /\ consecutiveFailures' = 0
  /\ UNCHANGED <<vars, who, retry, up, baseMs, remaining, waiting, calls, heard, heldDefault>>

FireNowAsked ==
  /\ Calm
  /\ FireNow
  /\ UNCHANGED pvars

----------------------------------------------------------------------------
(* Timers wait for the promise jobs; the handler for its listeners.        *)

Fires == waiting = <<>> /\ (\E t \in Timer : TimerFires(t)) /\ UNCHANGED pvars
Passes == waiting = <<>> /\ TimePasses /\ UNCHANGED pvars

Returns ==
  /\ who = "plugins" => heard
  /\ HandlerReturns
  /\ heard' = FALSE
  /\ UNCHANGED <<who, retry, up, baseMs, remaining, waiting, calls, due,
                 consecutiveFailures, heldDefault>>

Anyone ==
  /\ \/ Start \/ Stop \/ FireNow \/ OnFire
     \/ \E ms \in Interval : SetInterval(ms) \/ SetDefaultInterval(ms)
  /\ UNCHANGED pvars

Plugins ==
  \/ Wire \/ AgentUp \/ AgentDown
  \/ \E ms \in Asked :
       IntervalSet(ms) \/ \E frames \in 1..MaxFrames : IntervalHold(ms, frames)
  \/ LLMFails \/ LLMSucceeds \/ FireNowAsked

HNext ==
  \/ who = "anyone" /\ Anyone
  \/ who = "plugins" /\ Plugins
  \/ FinishCall \/ TickHeard \/ Fires \/ Passes \/ Returns

(* Fairness: as of the clock, and promise jobs and listeners run. *)
HSpec ==
  /\ HInit /\ [][HNext]_hvars
  /\ WF_hvars(Passes) /\ WF_hvars(Fires) /\ WF_hvars(Returns)
  /\ WF_hvars(FinishCall) /\ WF_hvars(TickHeard)

----------------------------------------------------------------------------
(* Properties.                                                             *)

(* "run at intervalMs for the next `frames` frames, then auto-revert to    *)
(* the base": however sets, holds, failures and early ticks fall between   *)
(* the halves of a call, a hold's interval is the clock's default only     *)
(* while it has frames left.  The one exception is a base the orchestrator *)
(* refuses, which a rejected interval.set of less than 1 ms leaves behind. *)
NoHoldOutlivesItsFrames == heldDefault /\ remaining = 0 => baseMs = 0
=============================================================================
