------------------------------- MODULE Clock -------------------------------
(***************************************************************************)
(* The per-agent timer with a default and a current interval.              *)
(*                                                                         *)
(* Time is kept relative: how long the current countdown has lasted and    *)
(* how long each Node timer still has to run, so that a clock may run for  *)
(* ever in a finite model.  The single handler runs synchronously inside   *)
(* an activation and may call every operation again; `depth' counts the    *)
(* activations whose handler has not returned.  A timer callback never     *)
(* interrupts a handler.                                                   *)
(***************************************************************************)
EXTENDS Integers

CONSTANTS
  Interval,     \* the intervals callers ask for, in time units
  Timer,        \* names for the timers Node keeps
  NoTimer,      \* the null handle
  MaxDelay,     \* the longest delay setTimeout honours
  MaxElapsed,   \* bound: a countdown older than this looks this old
  MaxDepth      \* bound: how deeply activations nest

(* The orchestrator's readMs and the settings editor refuse ms <= 0. *)
ASSUME IntervalAssumption == Interval \subseteq Nat \ {0} /\ Interval # {}
ASSUME TimerAssumption == NoTimer \notin Timer
ASSUME DelayAssumption == MaxDelay \in Nat \ {0}
(* Saturation is harmless: every interval is reached before the bound. *)
ASSUME ElapsedAssumption ==
  MaxElapsed \in Nat \ {0} /\ \A ms \in Interval : ms <= MaxElapsed
ASSUME DepthAssumption == MaxDepth \in Nat \ {0}

VARIABLES
  defaultIntervalMs,
  currentIntervalMs,
  hasHandler,     \* onFire has registered the handler
  timer,          \* the handle the clock keeps
  running,
  elapsed,        \* Date.now() - countdownStart
  pending,        \* per Node timer: the time it has left, or Off
  depth           \* activations whose handler is running

vars == <<defaultIntervalMs, currentIntervalMs, hasHandler, timer, running,
          elapsed, pending, depth>>
intervals == <<defaultIntervalMs, currentIntervalMs>>
countdown == <<timer, elapsed, pending>>

Off == -1

TypeOK ==
  /\ defaultIntervalMs \in Interval
  /\ currentIntervalMs \in Interval
  /\ hasHandler \in BOOLEAN
  /\ timer \in Timer \cup {NoTimer}
  /\ running \in BOOLEAN
  /\ elapsed \in 0..MaxElapsed
  /\ pending \in [Timer -> Nat \cup {Off}]
  /\ depth \in 0..MaxDepth

Init ==
  /\ defaultIntervalMs \in Interval
  /\ currentIntervalMs = defaultIntervalMs
  /\ hasHandler = FALSE
  /\ timer = NoTimer
  /\ running = FALSE
  /\ elapsed = 0
  /\ pending = [t \in Timer |-> Off]
  /\ depth = 0

----------------------------------------------------------------------------
(* Node's timers and the two ways the clock arms one.                      *)

(* setTimeout replaces a delay above its maximum by 1. *)
NodeDelay(ms) == IF ms > MaxDelay THEN 1 ELSE ms

Cleared(t) == [u \in Timer |-> IF u = t THEN Off ELSE pending[u]]

(* setTimeout under a name Node is not using, once `left' is what is armed. *)
SetTimeout(left, ms) ==
  \E t \in Timer :
    /\ left[t] = Off
    /\ timer' = t
    /\ pending' = [left EXCEPT ![t] = NodeDelay(ms)]

ClearTimer ==
  /\ timer' = NoTimer
  /\ pending' = Cleared(timer)

(* Mutant of Arm: the timer it replaces stays armed. *)
ArmWithoutClearing(ms) == SetTimeout(pending, ms) /\ elapsed' = 0

(* A fresh countdown for ms. *)
Arm(ms) == SetTimeout(Cleared(timer), ms) /\ elapsed' = 0

(* Mutant of RearmRemaining: the countdown starts over. *)
RearmMovesOrigin(ms) == SetTimeout(Cleared(timer), ms) /\ elapsed' = 0

(* The end of the countdown moves, its origin does not. *)
RearmRemaining(ms) == SetTimeout(Cleared(timer), ms) /\ UNCHANGED elapsed

(* Mutant of FinishActivation: the clock re-arms whether or not it runs. *)
FinishArmsAlways ==
  /\ currentIntervalMs' = defaultIntervalMs
  /\ Arm(defaultIntervalMs)

(* The end of an activation: back to the default, and a new countdown if    *)
(* the clock still runs.                                                    *)
FinishActivation ==
  /\ currentIntervalMs' = defaultIntervalMs
  /\ IF running THEN Arm(defaultIntervalMs) ELSE UNCHANGED countdown

(* clearTimer and activate with `current' as it stands: up to the handler,  *)
(* or to the end when there is none.                                        *)
Activate(current) ==
  IF hasHandler
  THEN /\ depth < MaxDepth
       /\ depth' = depth + 1
       /\ currentIntervalMs' = current
       /\ ClearTimer
       /\ UNCHANGED elapsed
  ELSE /\ currentIntervalMs' = defaultIntervalMs
       /\ IF running THEN Arm(defaultIntervalMs)
          ELSE ClearTimer /\ UNCHANGED elapsed
       /\ UNCHANGED depth

----------------------------------------------------------------------------
(* The operations, called from anywhere, the handler included.             *)

Start ==
  /\ ~running
  /\ running' = TRUE
  /\ Arm(currentIntervalMs)
  /\ UNCHANGED <<intervals, hasHandler, depth>>

Stop ==
  /\ running
  /\ running' = FALSE
  /\ ClearTimer
  /\ UNCHANGED <<intervals, hasHandler, elapsed, depth>>

(* setInterval with no countdown in progress only records. *)
SetIntervalIdle(ms) ==
  /\ ~running
  /\ currentIntervalMs' = ms
  /\ UNCHANGED <<defaultIntervalMs, hasHandler, running, countdown, depth>>

(* setInterval to a time already passed completes the countdown. *)
SetIntervalReached(ms) ==
  /\ running
  /\ ms <= elapsed
  /\ Activate(ms)
  /\ UNCHANGED <<defaultIntervalMs, hasHandler, running>>

(* Mutant of SetIntervalAhead: the interval counts from the call. *)
SetIntervalFromCall(ms) ==
  /\ running
  /\ ms > elapsed
  /\ currentIntervalMs' = ms
  /\ RearmRemaining(ms)
  /\ UNCHANGED <<defaultIntervalMs, hasHandler, running, depth>>

(* setInterval to a time ahead moves the end of the countdown. *)
SetIntervalAhead(ms) ==
  /\ running
  /\ ms > elapsed
  /\ currentIntervalMs' = ms
  /\ RearmRemaining(ms - elapsed)
  /\ UNCHANGED <<defaultIntervalMs, hasHandler, running, depth>>

SetDefaultInterval(ms) ==
  /\ defaultIntervalMs' = ms
  /\ UNCHANGED <<currentIntervalMs, hasHandler, running, countdown, depth>>

FireNow ==
  /\ Activate(currentIntervalMs)
  /\ UNCHANGED <<defaultIntervalMs, hasHandler, running>>

OnFire ==
  /\ hasHandler' = TRUE
  /\ UNCHANGED <<intervals, running, countdown, depth>>

----------------------------------------------------------------------------
(* The handler returns, timers fall due, time passes.                      *)

HandlerReturns ==
  /\ depth > 0
  /\ depth' = depth - 1
  /\ FinishActivation
  /\ UNCHANGED <<defaultIntervalMs, hasHandler, running>>

(* onTimer: the handle is dropped, and a running clock activates. *)
TimerFires(t) ==
  /\ pending[t] = 0
  /\ depth = 0
  /\ IF ~running \/ hasHandler
     THEN /\ depth' = IF running THEN 1 ELSE 0
          /\ timer' = NoTimer
          /\ pending' = Cleared(t)
          /\ UNCHANGED <<currentIntervalMs, elapsed>>
     ELSE /\ currentIntervalMs' = defaultIntervalMs
          /\ SetTimeout(Cleared(t), defaultIntervalMs)
          /\ elapsed' = 0
          /\ UNCHANGED depth
  /\ UNCHANGED <<defaultIntervalMs, hasHandler, running>>

(* A timer may be overdue for as long as the process is busy. *)
TimePasses ==
  /\ elapsed' = IF elapsed < MaxElapsed THEN elapsed + 1 ELSE elapsed
  /\ pending' = [t \in Timer |-> IF pending[t] > 0 THEN pending[t] - 1 ELSE pending[t]]
  /\ UNCHANGED <<intervals, hasHandler, timer, running, depth>>

Next ==
  \/ Start \/ Stop \/ FireNow \/ OnFire
  \/ \E ms \in Interval :
       \/ SetIntervalIdle(ms) \/ SetIntervalReached(ms)
       \/ SetIntervalAhead(ms) \/ SetDefaultInterval(ms)
  \/ HandlerReturns
  \/ \E t \in Timer : TimerFires(t)
  \/ TimePasses

(* Fairness: time passes, Node runs a due timer, a handler returns.  No     *)
(* caller is obliged to do, or to stop doing, anything.                     *)
Spec ==
  /\ Init /\ [][Next]_vars
  /\ WF_vars(TimePasses)
  /\ WF_vars(HandlerReturns)
  /\ WF_vars(\E t \in Timer : TimerFires(t))

----------------------------------------------------------------------------
(* Properties.                                                             *)

Armed(t) == pending[t] # Off

(* "The clock never leaves more than one armed timer" (contracts/clock),   *)
(* whatever the handler calls: what is armed is what the clock can clear.  *)
AtMostOneTimer == \A t \in Timer : Armed(t) => t = timer

(* Between activations a clock counts down exactly while it runs: it never *)
(* goes silent by losing its timer, and a stopped one has nothing to fire. *)
ArmedWhileRunning ==
  depth = 0 => (running <=> timer # NoTimer /\ Armed(timer))

(* The countdown ends `current' after it began, however often the interval *)
(* was changed on the way: setInterval is absolute from the origin.  Only  *)
(* an interval above MaxDelay escapes: Node makes it 1 ms.                 *)
CountdownHonoursCurrent ==
  depth = 0 /\ running /\ timer # NoTimer /\ currentIntervalMs <= MaxDelay =>
    pending[timer] = IF currentIntervalMs > elapsed
                     THEN currentIntervalMs - elapsed ELSE 0

(* The one timer is armed when it should be, for as long as it should be. *)
TimerIsRight == AtMostOneTimer /\ ArmedWhileRunning /\ CountdownHonoursCurrent

(* A running clock with a handler fires again and again: no sequence of     *)
(* setInterval and setDefaultInterval calls can put the tick off for ever.  *)
Heartbeat == (running /\ hasHandler) ~> (depth > 0 \/ ~running)
=============================================================================
