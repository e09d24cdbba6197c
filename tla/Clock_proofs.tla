---------------------------- MODULE Clock_proofs ----------------------------
(***************************************************************************)
(* The clock's timer discipline for any intervals, any nesting of          *)
(* activations and any order of calls, and then the clock under its        *)
(* callers, for any settings and bounds.                                   *)
(*                                                                         *)
(* Every action does one of three things to the timer: it arms exactly one *)
(* (Arms), it leaves none (Disarms), or it does not touch it.  Whoever     *)
(* calls, a step is one of the clock's own operations with an interval it  *)
(* accepts, or leaves the clock alone (StepOfTheClock): what is shown of   *)
(* the clock by itself then holds under its callers.                       *)
(***************************************************************************)
EXTENDS Cadence, TLAPS

(* The timer is what is armed, and a stopped clock keeps none. *)
TimerInv ==
  /\ TypeOK
  /\ AtMostOneTimer
  /\ timer # NoTimer => Armed(timer)
  /\ ~running => timer = NoTimer
  /\ depth = 0 /\ running => timer # NoTimer

Arms(ms) ==
  \E t \in Timer :
    /\ timer' = t
    /\ pending' = [u \in Timer |-> IF u = t THEN NodeDelay(ms) ELSE Off]

Disarms ==
  /\ timer' = NoTimer
  /\ pending' = [u \in Timer |-> Off]

LEMMA NothingElseArmed == TimerInv => Cleared(timer) = [u \in Timer |-> Off]
BY DEF TimerInv, TypeOK, AtMostOneTimer, Armed, Cleared

LEMMA SetTimeoutArms ==
  ASSUME TimerInv, NEW ms, SetTimeout(Cleared(timer), ms)
  PROVE Arms(ms)
<1>1. PICK t \in Timer : timer' = t /\ pending' = [Cleared(timer) EXCEPT ![t] = NodeDelay(ms)]
  BY DEF SetTimeout
<1>2. pending' = [u \in Timer |-> IF u = t THEN NodeDelay(ms) ELSE Off]
  BY <1>1, NothingElseArmed
<1> QED
  BY <1>1, <1>2 DEF Arms

LEMMA ClearTimerDisarms == TimerInv /\ ClearTimer => Disarms
BY NothingElseArmed DEF ClearTimer, Disarms

LEMMA DelayType == \A ms \in Nat \ {0} : NodeDelay(ms) \in Nat
BY DelayAssumption DEF NodeDelay

(* The rest of TypeOK: what does not concern the timer. *)
RestOK ==
  /\ defaultIntervalMs \in Interval /\ currentIntervalMs \in Interval
  /\ hasHandler \in BOOLEAN /\ running \in BOOLEAN
  /\ elapsed \in 0..MaxElapsed /\ depth \in 0..MaxDepth

LEMMA ArmsKeeps ==
  ASSUME TimerInv, NEW ms \in Nat \ {0}, Arms(ms), RestOK', running' = TRUE
  PROVE TimerInv'
<1>1. PICK t \in Timer :
        timer' = t /\ pending' = [u \in Timer |-> IF u = t THEN NodeDelay(ms) ELSE Off]
  BY DEF Arms
<1>2. NodeDelay(ms) \in Nat /\ NodeDelay(ms) # Off
  BY DelayType DEF Off
<1>3. timer' # NoTimer /\ timer' \in Timer
  BY <1>1, TimerAssumption
<1>4. pending' \in [Timer -> Nat \cup {Off}]
  BY <1>1, <1>2
<1>5. TypeOK'
  BY <1>3, <1>4 DEF RestOK, TypeOK
<1>6. AtMostOneTimer' /\ Armed(timer)'
  BY <1>1, <1>2 DEF AtMostOneTimer, Armed
<1> QED
  BY <1>3, <1>5, <1>6 DEF TimerInv

LEMMA DisarmsKeeps ==
  ASSUME TimerInv, Disarms, RestOK', depth' # 0 \/ ~running'
  PROVE TimerInv'
<1>1. TypeOK'
  BY DEF Disarms, RestOK, TypeOK
<1>2. AtMostOneTimer'
  BY DEF Disarms, AtMostOneTimer, Armed
<1> QED
  BY <1>1, <1>2 DEF TimerInv, Disarms

LEMMA TimerInit == Init => TimerInv
<1> SUFFICES ASSUME Init PROVE TimerInv
  OBVIOUS
<1>1. pending \in [Timer -> Nat \cup {Off}] /\ elapsed \in 0..MaxElapsed /\ depth \in 0..MaxDepth
  BY ElapsedAssumption, DepthAssumption DEF Init
<1>2. TypeOK
  BY <1>1 DEF Init, TypeOK
<1> QED
  BY <1>2 DEF Init, TimerInv, AtMostOneTimer, Armed

LEMMA IntervalType == \A ms \in Interval : ms \in Nat \ {0} /\ ms <= MaxElapsed /\ MaxElapsed \in Nat
BY IntervalAssumption, ElapsedAssumption

(* What an activation leaves, and what the end of one leaves. *)
LEMMA ActivateKeeps ==
  ASSUME TimerInv, NEW ms \in Interval, Activate(ms), running,
         UNCHANGED <<defaultIntervalMs, hasHandler, running>>
  PROVE TimerInv'
<1>1. CASE hasHandler
  <2>1. Disarms /\ RestOK' /\ depth' # 0
    BY <1>1, ClearTimerDisarms, DepthAssumption DEF Activate, TimerInv, TypeOK, RestOK
  <2> QED
    BY <2>1, DisarmsKeeps
<1>2. CASE ~hasHandler
  <2>1. Arms(defaultIntervalMs)
    BY <1>2, SetTimeoutArms DEF Activate, Arm
  <2>2. RestOK' /\ running' = TRUE
    BY <1>2, ElapsedAssumption DEF Activate, Arm, TimerInv, TypeOK, RestOK
  <2>3. defaultIntervalMs \in Nat \ {0}
    BY IntervalType DEF TimerInv, TypeOK
  <2> QED
    BY <2>1, <2>2, <2>3, ArmsKeeps
<1> QED
  BY <1>1, <1>2

LEMMA FireNowKeeps == TimerInv /\ FireNow => TimerInv'
<1> SUFFICES ASSUME TimerInv, FireNow PROVE TimerInv'
  OBVIOUS
<1>1. CASE running
  BY <1>1, ActivateKeeps DEF FireNow, TimerInv, TypeOK
<1>2. CASE ~running
  <2>1. Disarms
    BY <1>2, ClearTimerDisarms DEF FireNow, Activate
  <2>2. RestOK' /\ ~running'
    BY <1>2, DepthAssumption DEF FireNow, Activate, TimerInv, TypeOK, RestOK
  <2> QED
    BY <2>1, <2>2, DisarmsKeeps
<1> QED
  BY <1>1, <1>2

LEMMA HandlerReturnsKeeps == TimerInv /\ HandlerReturns => TimerInv'
<1> SUFFICES ASSUME TimerInv, HandlerReturns PROVE TimerInv'
  OBVIOUS
<1>1. defaultIntervalMs \in Interval /\ defaultIntervalMs \in Nat \ {0} /\ depth - 1 \in 0..MaxDepth
  BY IntervalType, DepthAssumption DEF TimerInv, TypeOK, HandlerReturns
<1>2. CASE running
  <2>1. Arms(defaultIntervalMs)
    BY <1>2, SetTimeoutArms DEF HandlerReturns, FinishActivation, Arm
  <2>2. RestOK' /\ running' = TRUE
    BY <1>1, <1>2, ElapsedAssumption
    DEF HandlerReturns, FinishActivation, Arm, TimerInv, TypeOK, RestOK
  <2> QED
    BY <1>1, <2>1, <2>2, ArmsKeeps
<1>3. CASE ~running
  BY <1>1, <1>3 DEF HandlerReturns, FinishActivation, countdown, TimerInv, TypeOK, AtMostOneTimer, Armed
<1> QED
  BY <1>2, <1>3

LEMMA TimerFiresKeeps ==
  ASSUME TimerInv, NEW t \in Timer, TimerFires(t)
  PROVE TimerInv'
<1>1. t = timer /\ running
  BY TimerAssumption DEF TimerInv, AtMostOneTimer, Armed, TimerFires, Off
<1>2. CASE hasHandler
  <2>1. Disarms
    BY <1>1, <1>2, NothingElseArmed DEF TimerFires, Disarms
  <2>2. RestOK' /\ depth' # 0
    BY <1>1, <1>2, DepthAssumption DEF TimerFires, TimerInv, TypeOK, RestOK
  <2> QED
    BY <2>1, <2>2, DisarmsKeeps
<1>3. CASE ~hasHandler
  <2>1. Arms(defaultIntervalMs)
    BY <1>1, <1>3, SetTimeoutArms DEF TimerFires
  <2>2. RestOK' /\ running' = TRUE /\ defaultIntervalMs \in Nat \ {0}
    BY <1>1, <1>3, ElapsedAssumption, IntervalType DEF TimerFires, TimerInv, TypeOK, RestOK
  <2> QED
    BY <2>1, <2>2, ArmsKeeps
<1> QED
  BY <1>2, <1>3

LEMMA TimePassesKeeps == TimerInv /\ TimePasses => TimerInv'
<1> SUFFICES ASSUME TimerInv, TimePasses PROVE TimerInv'
  OBVIOUS
<1>1. /\ pending' \in [Timer -> Nat \cup {Off}]
      /\ \A t \in Timer : pending'[t] = Off <=> pending[t] = Off
  BY DEF TimerInv, TypeOK, TimePasses, Off
<1>2. elapsed' \in 0..MaxElapsed
  BY ElapsedAssumption DEF TimerInv, TypeOK, TimePasses
<1>3. TypeOK'
  BY <1>1, <1>2 DEF TimerInv, TypeOK, TimePasses, intervals
<1>4. timer \in Timer \/ timer = NoTimer
  BY DEF TimerInv, TypeOK
<1> QED
  BY <1>1, <1>3, <1>4 DEF TimerInv, AtMostOneTimer, Armed, TimePasses, intervals

LEMMA TimerStep == TimerInv /\ [Next]_vars => TimerInv'
<1> SUFFICES ASSUME TimerInv, [Next]_vars PROVE TimerInv'
  OBVIOUS
<1>1. CASE UNCHANGED vars
  BY <1>1 DEF vars, TimerInv, TypeOK, AtMostOneTimer, Armed
<1>2. CASE Start
  <2>1. Arms(currentIntervalMs) /\ running' = TRUE
    BY <1>2, SetTimeoutArms DEF Start, Arm
  <2>2. RestOK' /\ currentIntervalMs \in Nat \ {0}
    BY <1>2, ElapsedAssumption, IntervalType DEF Start, Arm, intervals, TimerInv, TypeOK, RestOK
  <2> QED
    BY <2>1, <2>2, ArmsKeeps
<1>3. CASE Stop
  <2>1. Disarms
    BY <1>3, ClearTimerDisarms DEF Stop
  <2>2. RestOK' /\ ~running'
    BY <1>3 DEF Stop, intervals, TimerInv, TypeOK, RestOK
  <2> QED
    BY <2>1, <2>2, DisarmsKeeps
<1>4. CASE FireNow
  BY <1>4, FireNowKeeps
<1>5. CASE OnFire
  BY <1>5 DEF OnFire, intervals, countdown, TimerInv, TypeOK, AtMostOneTimer, Armed
<1>6. ASSUME NEW ms \in Interval, SetIntervalIdle(ms) \/ SetDefaultInterval(ms) PROVE TimerInv'
  BY <1>6 DEF SetIntervalIdle, SetDefaultInterval, countdown, TimerInv, TypeOK, AtMostOneTimer, Armed
<1>7. ASSUME NEW ms \in Interval, SetIntervalReached(ms) PROVE TimerInv'
  BY <1>7, ActivateKeeps DEF SetIntervalReached
<1>8. ASSUME NEW ms \in Interval, SetIntervalAhead(ms) PROVE TimerInv'
  <2>1. ms - elapsed \in Nat \ {0}
    BY <1>8, IntervalType DEF SetIntervalAhead, TimerInv, TypeOK
  <2>2. Arms(ms - elapsed) /\ running' = TRUE
    BY <1>8, SetTimeoutArms DEF SetIntervalAhead, RearmRemaining, TimerInv, TypeOK
  <2>3. RestOK'
    BY <1>8 DEF SetIntervalAhead, RearmRemaining, TimerInv, TypeOK, RestOK
  <2> QED
    BY <2>1, <2>2, <2>3, ArmsKeeps
<1>9. CASE HandlerReturns
  BY <1>9, HandlerReturnsKeeps
<1>10. ASSUME NEW t \in Timer, TimerFires(t) PROVE TimerInv'
  BY <1>10, TimerFiresKeeps
<1>11. CASE TimePasses
  BY <1>11, TimePassesKeeps
<1> QED
  BY <1>1, <1>2, <1>3, <1>4, <1>5, <1>6, <1>7, <1>8, <1>9, <1>10, <1>11 DEF Next

THEOREM TimerInvariant == Spec => []TimerInv
BY TimerInit, TimerStep, PTL DEF Spec

(* The clock's variables keep their types, whatever is called from where. *)
THEOREM TypeCorrect == Spec => []TypeOK
<1>1. TimerInv => TypeOK
  BY DEF TimerInv
<1> QED
  BY <1>1, TimerInvariant, PTL

(* "The clock never leaves more than one armed timer." *)
THEOREM OneTimer == Spec => []AtMostOneTimer
<1>1. TimerInv => AtMostOneTimer
  BY DEF TimerInv
<1> QED
  BY <1>1, TimerInvariant, PTL

(* A running clock is never silent between activations, a stopped one is. *)
THEOREM RunningMeansArmed == Spec => []ArmedWhileRunning
<1>1. TimerInv => ArmedWhileRunning
  BY DEF TimerInv, ArmedWhileRunning
<1> QED
  BY <1>1, TimerInvariant, PTL

----------------------------------------------------------------------------
(* The countdown is exact when setTimeout honours the current interval.    *)

LEMMA ArmsCounts ==
  ASSUME NEW ms \in Nat \ {0}, ms <= MaxDelay, Arms(ms)
  PROVE pending'[timer'] = ms
<1>1. PICK t \in Timer :
        timer' = t /\ pending' = [u \in Timer |-> IF u = t THEN NodeDelay(ms) ELSE Off]
  BY DEF Arms
<1>2. NodeDelay(ms) = ms
  BY DelayAssumption DEF NodeDelay
<1> QED
  BY <1>1, <1>2

LEMMA CountdownStep ==
  TimerInv /\ TimerInv' /\ CountdownHonoursCurrent /\ [Next]_vars
  => CountdownHonoursCurrent'
<1> SUFFICES ASSUME TimerInv, TimerInv', CountdownHonoursCurrent, [Next]_vars,
                    depth' = 0, running', timer' # NoTimer, currentIntervalMs' <= MaxDelay
             PROVE pending'[timer'] = IF currentIntervalMs' > elapsed'
                                      THEN currentIntervalMs' - elapsed' ELSE 0
  BY DEF CountdownHonoursCurrent
<1>0. \A ms \in Interval : ms \in Nat \ {0} /\ ms <= MaxElapsed
  BY IntervalType
<1>a. defaultIntervalMs \in Interval /\ currentIntervalMs \in Interval /\ elapsed \in Nat
  BY ElapsedAssumption DEF TimerInv, TypeOK
<1>b. ASSUME NEW ms \in Interval, Arms(ms), currentIntervalMs' = ms, elapsed' = 0
      PROVE pending'[timer'] = IF currentIntervalMs' > elapsed'
                               THEN currentIntervalMs' - elapsed' ELSE 0
  BY <1>0, <1>b, ArmsCounts
<1>1. CASE UNCHANGED vars
  BY <1>1 DEF vars, CountdownHonoursCurrent
<1>2. CASE Start
  BY <1>a, <1>b, <1>2, SetTimeoutArms DEF Start, Arm, intervals
<1>3. CASE Stop
  BY <1>3 DEF Stop
<1>4. ASSUME NEW ms \in Interval, Activate(ms), running, UNCHANGED running
      PROVE pending'[timer'] = IF currentIntervalMs' > elapsed'
                               THEN currentIntervalMs' - elapsed' ELSE 0
  <2>1. ~hasHandler
    BY <1>4 DEF Activate, TimerInv, TypeOK
  <2> QED
    BY <1>a, <1>b, <1>4, <2>1, SetTimeoutArms DEF Activate, Arm
<1>5. CASE FireNow
  BY <1>a, <1>4, <1>5 DEF FireNow
<1>6. CASE OnFire
  BY <1>6 DEF OnFire, intervals, countdown, CountdownHonoursCurrent
<1>7. ASSUME NEW ms \in Interval, SetIntervalIdle(ms) \/ SetDefaultInterval(ms)
      PROVE pending'[timer'] = IF currentIntervalMs' > elapsed'
                               THEN currentIntervalMs' - elapsed' ELSE 0
  BY <1>7 DEF SetIntervalIdle, SetDefaultInterval, countdown, CountdownHonoursCurrent
<1>8. ASSUME NEW ms \in Interval, SetIntervalReached(ms)
      PROVE pending'[timer'] = IF currentIntervalMs' > elapsed'
                               THEN currentIntervalMs' - elapsed' ELSE 0
  BY <1>4, <1>8 DEF SetIntervalReached
<1>9. ASSUME NEW ms \in Interval, SetIntervalAhead(ms)
      PROVE pending'[timer'] = IF currentIntervalMs' > elapsed'
                               THEN currentIntervalMs' - elapsed' ELSE 0
  <2>1. /\ ms - elapsed \in Nat \ {0} /\ ms - elapsed <= MaxDelay
        /\ ms > elapsed /\ currentIntervalMs' = ms /\ elapsed' = elapsed
    BY <1>0, <1>a, <1>9, DelayAssumption DEF SetIntervalAhead, RearmRemaining
  <2>2. Arms(ms - elapsed)
    BY <1>9, SetTimeoutArms DEF SetIntervalAhead, RearmRemaining
  <2> QED
    BY <2>1, <2>2, ArmsCounts
<1>10. CASE HandlerReturns
  BY <1>a, <1>b, <1>10, SetTimeoutArms DEF HandlerReturns, FinishActivation, Arm
<1>11. ASSUME NEW t \in Timer, TimerFires(t)
       PROVE pending'[timer'] = IF currentIntervalMs' > elapsed'
                                THEN currentIntervalMs' - elapsed' ELSE 0
  <2>1. t = timer
    BY <1>11 DEF TimerInv, AtMostOneTimer, Armed, TimerFires, Off
  <2> QED
    BY <1>a, <1>b, <1>11, <2>1, SetTimeoutArms DEF TimerFires
<1>12. CASE TimePasses
  <2>1. /\ depth = 0 /\ running /\ timer # NoTimer /\ timer' = timer
        /\ currentIntervalMs' = currentIntervalMs
        /\ elapsed' = IF elapsed < MaxElapsed THEN elapsed + 1 ELSE elapsed
    BY <1>12 DEF TimePasses, intervals
  <2>2. timer \in Timer
    BY <2>1 DEF TimerInv, TypeOK
  <2>3. pending[timer] = IF currentIntervalMs > elapsed THEN currentIntervalMs - elapsed ELSE 0
    BY <2>1 DEF CountdownHonoursCurrent
  <2>4. pending'[timer] = IF pending[timer] > 0 THEN pending[timer] - 1 ELSE pending[timer]
    BY <1>12, <2>2 DEF TimePasses
  <2>5. currentIntervalMs \in Nat /\ currentIntervalMs <= MaxElapsed
    BY <1>0, <1>a
  <2> QED
    BY <1>a, <2>1, <2>3, <2>4, <2>5, ElapsedAssumption
<1> QED
  BY <1>1, <1>2, <1>3, <1>5, <1>6, <1>7, <1>8, <1>9, <1>10, <1>11, <1>12 DEF Next

(* setInterval is absolute from the countdown's origin, for any sequence of *)
(* calls, intervals that setTimeout replaces included, as soon as one that *)
(* it honours is current.                                                  *)
THEOREM CountdownIsExact == Spec => []CountdownHonoursCurrent
<1>1. Init => CountdownHonoursCurrent
  BY DEF Init, CountdownHonoursCurrent
<1>2. TimerInv /\ TimerInv' /\ CountdownHonoursCurrent /\ [Next]_vars => CountdownHonoursCurrent'
  BY CountdownStep
<1> QED
  BY <1>1, <1>2, TimerInvariant, PTL DEF Spec

(* The one timer is armed when it should be, for as long as it should be. *)
THEOREM TheTimerIsRight == Spec => []TimerIsRight
<1>1. AtMostOneTimer /\ ArmedWhileRunning /\ CountdownHonoursCurrent => TimerIsRight
  BY DEF TimerIsRight
<1> QED
  BY <1>1, OneTimer, RunningMeansArmed, CountdownIsExact, PTL

----------------------------------------------------------------------------
(* The callers: interval_toggle, retry, or anyone (Cadence).                *)

(* The types of what the plugins keep. *)
PluginsOK ==
  /\ who \in {"anyone", "plugins"} /\ up \in {"new", "up", "down"}
  /\ retry \in RetryConfig
  /\ baseMs \in Asked /\ remaining \in 0..MaxFrames
  /\ waiting \in Seq(Interval) /\ calls \in 0..MaxCalls
  /\ Len(waiting) <= calls
  /\ heard \in BOOLEAN /\ heldDefault \in BOOLEAN
  /\ due \in 0..2 /\ consecutiveFailures \in 0..MaxFailures

HInv == TimerInv /\ CountdownHonoursCurrent /\ PluginsOK /\ NoHoldOutlivesItsFrames

LEMMA SmallerType ==
  ASSUME NEW m \in Nat, NEW n \in Nat
  PROVE Smaller(m, n) \in 0..m
BY DEF Smaller

(* What interval.set and interval.hold queue is an interval of the clock. *)
LEMMA QueueType ==
  ASSUME PluginsOK
  PROVE /\ waiting # <<>> => /\ Head(waiting) \in Interval
                             /\ Tail(waiting) \in Seq(Interval)
                             /\ Len(Tail(waiting)) <= calls
        /\ \A ms \in Interval : /\ Append(waiting, ms) \in Seq(Interval)
                                /\ Len(Append(waiting, ms)) <= calls + 1
<1>1. waiting \in Seq(Interval) /\ Len(waiting) <= calls /\ calls \in Nat
  BY FramesAssumption DEF PluginsOK
<1> QED
  BY <1>1

(* What retry asks for is one, however long the streak. *)
LEMMA RetryType ==
  ASSUME PluginsOK
  PROVE RetryMs(retry, consecutiveFailures + 1) \in Interval
<1>1. consecutiveFailures + 1 \in 1..(MaxFailures + 1)
  BY FramesAssumption DEF PluginsOK
<1> QED
  BY <1>1, RetryAssumption DEF PluginsOK

----------------------------------------------------------------------------
(* A step of the callers is a step of the clock.                           *)

LEMMA SetIntervalIsOfTheClock == \A ms \in Interval : SetInterval(ms) => Next
BY DEF SetInterval, Next

LEMMA BeginCallIsOfTheClock ==
  ASSUME NEW ms \in Asked, NEW held \in BOOLEAN, BeginCall(ms, held)
  PROVE [Next]_vars
<1>1. CASE ms = 0
  BY <1>1 DEF BeginCall
<1>2. CASE ms # 0
  <2>1. ms \in Interval
    BY <1>2 DEF Asked
  <2> QED
    BY <1>2, <2>1 DEF BeginCall, Next
<1> QED
  BY <1>1, <1>2

LEMMA StepOfTheClock == PluginsOK /\ [HNext]_hvars => [Next]_vars
<1> SUFFICES ASSUME PluginsOK, [HNext]_hvars PROVE [Next]_vars
  OBVIOUS
<1>1. CASE UNCHANGED hvars
  BY <1>1 DEF hvars
<1>2. CASE Anyone
  BY <1>2, SetIntervalIsOfTheClock DEF Anyone, Next
<1>3. CASE Wire \/ AgentUp \/ AgentDown \/ FireNowAsked
  BY <1>3 DEF Wire, AgentUp, AgentDown, FireNowAsked, Next
<1>4. ASSUME NEW ms \in Asked, IntervalSet(ms) PROVE [Next]_vars
  BY <1>4, BeginCallIsOfTheClock DEF IntervalSet
<1>5. ASSUME NEW ms \in Asked, NEW frames \in 1..MaxFrames, IntervalHold(ms, frames)
      PROVE [Next]_vars
  BY <1>5, BeginCallIsOfTheClock DEF IntervalHold
<1>6. CASE LLMFails
  BY <1>6, RetryType, SetIntervalIsOfTheClock DEF LLMFails
<1>7. CASE LLMSucceeds
  BY <1>7 DEF LLMSucceeds
<1>8. CASE FinishCall
  BY <1>8, QueueType, SetIntervalIsOfTheClock DEF FinishCall
<1>9. CASE TickHeard
  <2>1. CASE remaining = 1 /\ baseMs # 0
    <3>1. baseMs \in Interval
      BY <2>1 DEF PluginsOK, Asked
    <3> QED
      BY <1>9, <2>1, <3>1 DEF TickHeard, CountDown, Next
  <2>2. CASE ~(remaining = 1 /\ baseMs # 0)
    BY <1>9, <2>2 DEF TickHeard, CountDown
  <2> QED
    BY <2>1, <2>2
<1>10. CASE Fires \/ Passes \/ Returns
  BY <1>10 DEF Fires, Passes, Returns, Next
<1> QED
  BY <1>1, <1>2, <1>3, <1>4, <1>5, <1>6, <1>7, <1>8, <1>9, <1>10 DEF HNext, Plugins

----------------------------------------------------------------------------
(* What the plugins keep.                                                  *)

LEMMA PluginsInit == HInit => PluginsOK /\ NoHoldOutlivesItsFrames
<1> SUFFICES ASSUME HInit PROVE PluginsOK /\ NoHoldOutlivesItsFrames
  OBVIOUS
<1>1. waiting \in Seq(Interval) /\ Len(waiting) = 0
  BY DEF HInit
<1>2. remaining \in 0..MaxFrames /\ calls \in 0..MaxCalls /\ consecutiveFailures \in 0..MaxFailures
  BY FramesAssumption DEF HInit
<1>3. heard \in BOOLEAN /\ heldDefault \in BOOLEAN /\ NoHoldOutlivesItsFrames
  BY DEF HInit, NoHoldOutlivesItsFrames
<1>4. due \in 0..2 /\ Len(waiting) <= calls /\ baseMs \in Asked
  BY <1>1 DEF HInit, Asked
<1> QED
  BY <1>1, <1>2, <1>3, <1>4 DEF HInit, PluginsOK

(* The first half of a call queues the second. *)
LEMMA BeginCallKeeps ==
  ASSUME PluginsOK, NEW ms \in Asked, NEW held \in BOOLEAN, BeginCall(ms, held),
         baseMs' \in Asked, remaining' \in 0..MaxFrames
  PROVE PluginsOK'
<1>1. calls' = calls + 1 /\ calls' \in 0..MaxCalls
  BY FramesAssumption DEF BeginCall, PluginsOK
<1>2. waiting' \in Seq(Interval) /\ Len(waiting') <= calls' /\ heldDefault' \in BOOLEAN
  <2>1. CASE ms = 0
    BY <1>1, <2>1, FramesAssumption DEF BeginCall, PluginsOK
  <2>2. CASE ms # 0
    BY <1>1, <2>2, QueueType DEF BeginCall, Asked
  <2> QED
    BY <2>1, <2>2
<1> QED
  BY <1>1, <1>2 DEF BeginCall, PluginsOK

LEMMA PluginsStep == PluginsOK /\ [HNext]_hvars => PluginsOK'
<1> SUFFICES ASSUME PluginsOK, [HNext]_hvars PROVE PluginsOK'
  OBVIOUS
<1>1. CASE UNCHANGED pvars
  BY <1>1 DEF pvars, PluginsOK
<1>2. CASE AgentUp \/ AgentDown
  BY <1>2 DEF AgentUp, AgentDown, PluginsOK
<1>3. ASSUME NEW ms \in Asked, IntervalSet(ms) PROVE PluginsOK'
  <2>1. BeginCall(ms, FALSE) /\ baseMs' \in Asked
    BY <1>3 DEF IntervalSet
  <2>2. remaining' \in 0..MaxFrames
    BY <1>3, FramesAssumption DEF IntervalSet
  <2> QED
    BY <2>1, <2>2, BeginCallKeeps
<1>4. ASSUME NEW ms \in Asked, NEW frames \in 1..MaxFrames, IntervalHold(ms, frames)
      PROVE PluginsOK'
  <2>1. BeginCall(ms, TRUE) /\ baseMs' \in Asked
    BY <1>4 DEF IntervalHold, PluginsOK
  <2>2. remaining' \in 0..MaxFrames
    BY <1>4, FramesAssumption DEF IntervalHold
  <2> QED
    BY <2>1, <2>2, BeginCallKeeps
<1>5. CASE LLMFails
  <2>1. Smaller(MaxFailures, consecutiveFailures + 1) \in 0..MaxFailures
    <3>1. consecutiveFailures + 1 \in Nat /\ MaxFailures \in Nat
      BY FramesAssumption DEF PluginsOK
    <3> QED
      BY <3>1, SmallerType
  <2> QED
    BY <1>5, <2>1 DEF LLMFails, PluginsOK
<1>6. CASE LLMSucceeds
  BY <1>6, FramesAssumption DEF LLMSucceeds, PluginsOK
<1>7. CASE FinishCall
  BY <1>7, QueueType DEF FinishCall, PluginsOK
<1>8. CASE TickHeard
  <2>1. Smaller(2, due + 1) \in 0..2
    <3>1. due + 1 \in Nat
      BY DEF PluginsOK
    <3> QED
      BY <3>1, SmallerType
  <2>2. remaining' \in 0..MaxFrames
    <3>1. remaining' = IF remaining > 0 THEN remaining - 1 ELSE 0
      BY <1>8 DEF TickHeard, CountDown
    <3> QED
      BY <3>1, FramesAssumption DEF PluginsOK
  <2>3. heldDefault' \in BOOLEAN
    BY <1>8 DEF TickHeard, CountDown, PluginsOK
  <2> QED
    BY <1>8, <2>1, <2>2, <2>3 DEF TickHeard, PluginsOK
<1>9. CASE Returns
  BY <1>9 DEF Returns, PluginsOK
<1> QED
  BY <1>1, <1>2, <1>3, <1>4, <1>5, <1>6, <1>7, <1>8, <1>9
  DEF HNext, Plugins, Anyone, Wire, FireNowAsked, Fires, Passes, hvars

(* A hold is over when its frames are, whatever began meanwhile. *)
LEMMA HoldStep ==
  PluginsOK /\ NoHoldOutlivesItsFrames /\ [HNext]_hvars => NoHoldOutlivesItsFrames'
<1> SUFFICES ASSUME PluginsOK, NoHoldOutlivesItsFrames, [HNext]_hvars
             PROVE NoHoldOutlivesItsFrames'
  OBVIOUS
<1>1. CASE UNCHANGED <<heldDefault, remaining, baseMs>>
  BY <1>1 DEF NoHoldOutlivesItsFrames
<1>2. ASSUME NEW ms \in Asked, IntervalSet(ms) PROVE NoHoldOutlivesItsFrames'
  BY <1>2 DEF IntervalSet, BeginCall, NoHoldOutlivesItsFrames
<1>3. ASSUME NEW ms \in Asked, NEW frames \in 1..MaxFrames, IntervalHold(ms, frames)
      PROVE NoHoldOutlivesItsFrames'
  BY <1>3 DEF IntervalHold, NoHoldOutlivesItsFrames
<1>4. CASE TickHeard
  <2>1. remaining' = (IF remaining > 0 THEN remaining - 1 ELSE 0) /\ baseMs' = baseMs
    BY <1>4 DEF TickHeard, CountDown
  <2>2. remaining' = 0 => remaining = 0 \/ remaining = 1
    BY <2>1, FramesAssumption DEF PluginsOK
  <2>3. CASE remaining = 1 /\ baseMs # 0
    BY <1>4, <2>3 DEF TickHeard, CountDown, NoHoldOutlivesItsFrames
  <2>4. CASE ~(remaining = 1 /\ baseMs # 0)
    BY <1>4, <2>1, <2>2, <2>4 DEF TickHeard, CountDown, NoHoldOutlivesItsFrames
  <2> QED
    BY <2>3, <2>4
<1> QED
  BY <1>1, <1>2, <1>3, <1>4
  DEF HNext, Plugins, Anyone, Wire, AgentUp, AgentDown, FireNowAsked, LLMFails, LLMSucceeds,
      FinishCall, Fires, Passes, Returns, hvars, pvars

----------------------------------------------------------------------------

THEOREM CadenceInvariant == HSpec => []HInv
<1>1. HInit => HInv
  <2>1. Init => CountdownHonoursCurrent
    BY DEF Init, CountdownHonoursCurrent
  <2> QED
    BY <2>1, TimerInit, PluginsInit DEF HInit, HInv
<1>2. HInv /\ [HNext]_hvars => HInv'
  <2> SUFFICES ASSUME HInv, [HNext]_hvars PROVE HInv'
    OBVIOUS
  <2>1. [Next]_vars
    BY StepOfTheClock DEF HInv
  <2>2. TimerInv'
    BY <2>1, TimerStep DEF HInv
  <2>3. CountdownHonoursCurrent'
    BY <2>1, <2>2, CountdownStep DEF HInv
  <2>4. PluginsOK' /\ NoHoldOutlivesItsFrames'
    BY PluginsStep, HoldStep DEF HInv
  <2> QED
    BY <2>2, <2>3, <2>4 DEF HInv
<1> QED
  BY <1>1, <1>2, PTL DEF HSpec

(* The clock and the plugins that set its pace keep their types; every      *)
(* interval that reaches the clock is one it accepts.                      *)
THEOREM CadenceTypes == HSpec => []HTypeOK
<1>1. HInv => HTypeOK
  BY DEF HInv, TimerInv, PluginsOK, HTypeOK
<1> QED
  BY <1>1, CadenceInvariant, PTL

(* The timer is right under interval_toggle and retry as well, between the  *)
(* halves of their calls included.                                         *)
THEOREM TimerIsRightUnderCallers == HSpec => []TimerIsRight
<1>1. HInv => TimerIsRight
  BY DEF HInv, TimerInv, TimerIsRight, ArmedWhileRunning
<1> QED
  BY <1>1, CadenceInvariant, PTL

(* A hold's interval is the default only while it has frames left. *)
THEOREM HoldsEnd == HSpec => []NoHoldOutlivesItsFrames
<1>1. HInv => NoHoldOutlivesItsFrames
  BY DEF HInv
<1> QED
  BY <1>1, CadenceInvariant, PTL
=============================================================================
