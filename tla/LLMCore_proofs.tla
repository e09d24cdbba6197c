-------------------------- MODULE LLMCore_proofs --------------------------
(***************************************************************************)
(* What LLMCore guarantees for any number of agent ids, loops, triggers    *)
(* and reduction rounds.                                                   *)
(*                                                                         *)
(* Every step of a send loop either moves the loop to another await or     *)
(* ends it (StepShape); the invariants of the lock need no more than that. *)
(***************************************************************************)
EXTENDS LLMCore, TLAPS

(* The loop goes on: to another await, under the same agent id. *)
Moves(l) ==
  /\ \E p \in Await : pc' = [pc EXCEPT ![l] = p]
  /\ \E f \in Frame :
       /\ frame' = [frame EXCEPT ![l] = f]
       /\ f.key = frame[l].key
       /\ f.round <= config.maxReduceRounds
  /\ inFlight' = inFlight
  /\ \/ triggered' = triggered /\ wanted' = wanted
     \/ /\ triggered' = [triggered EXCEPT ![frame[l].key] = FALSE]
        /\ wanted' = [wanted EXCEPT ![frame[l].key] = FALSE]

(* The loop ends; a living plugin owes it nothing. *)
Departs(l) ==
  /\ Free(l)
  /\ triggered' = triggered /\ wanted' = wanted
  /\ stopping \/ ~triggered[frame[l].key]

(* A step of any loop leaves the bus well-typed. *)
BusOK ==
  /\ seq \in Nat
  /\ sent \in SUBSET Nat
  /\ returned \in Seq([id : Nat, ok : BOOLEAN])
  /\ output \in SUBSET Nat
  /\ crashed \in BOOLEAN

LEMMA NoFrameType == NoFrame \in Frame /\ NoFrame.round = 0 /\ NoFrame.id = 0
<1>1. (CHOOSE k \in Key : TRUE) \in Key
  BY KeyAssumption
<1> QED
  BY <1>1 DEF NoFrame, NewFrame, Frame, NoEstimate

LEMMA RoundType ==
  ASSUME TypeOK
  PROVE config \in ConfigType /\ config.maxReduceRounds \in Nat
BY ConfigAssumption DEF TypeOK, ConfigType

LEMMA FrameUpdate ==
  ASSUME NEW f \in Frame, NEW n \in Nat
  PROVE [f EXCEPT !.id = n] \in Frame
<1> DEFINE Last == Estimate \cup {NoEstimate}
<1>1. Frame = [key : Key, round : Nat, last : Last, id : Nat]
  BY DEF Frame
<1> HIDE DEF Last
<1> QED
  BY <1>1

LEMMA FrameShrunk ==
  ASSUME NEW f \in Frame, NEW n \in Nat, NEW est \in Estimate \cup {NoEstimate}
  PROVE [f EXCEPT !.round = n, !.last = est] \in Frame
<1> DEFINE Last == Estimate \cup {NoEstimate}
<1>1. Frame = [key : Key, round : Nat, last : Last, id : Nat]
  BY DEF Frame
<1>2. est \in Last
  OBVIOUS
<1> HIDE DEF Last
<1> QED
  BY <1>1, <1>2

LEMMA ReturnType ==
  ASSUME NEW s \in Seq([id : Nat, ok : BOOLEAN]), NEW n \in Nat, NEW b \in BOOLEAN
  PROVE Append(s, [id |-> n, ok |-> b]) \in Seq([id : Nat, ok : BOOLEAN])
<1>1. [id |-> n, ok |-> b] \in [id : Nat, ok : BOOLEAN]
  OBVIOUS
<1> QED
  BY <1>1

(* Dispatch, Throw, Report and EndSend, the ends of every wait. *)
LEMMA DispatchShape ==
  ASSUME TypeOK, NEW l \in Loop, Dispatch(l), output' = output, UNCHANGED <<triggered, wanted>>
  PROVE Moves(l) /\ BusOK'
<1>1. frame[l] \in Frame /\ frame[l].round <= config.maxReduceRounds
  BY DEF TypeOK
<1>2. CASE stopping
  BY <1>1, <1>2 DEF TypeOK, Dispatch, EndSend, Park, Moves, BusOK, bus, Await, Frame
<1>3. CASE ~stopping
  <2> seq + 1 \in Nat
    BY DEF TypeOK
  <2>1. [frame[l] EXCEPT !.id = seq + 1] \in Frame
    BY <1>1, FrameUpdate
  <2>2. frame' = [frame EXCEPT ![l] = [frame[l] EXCEPT !.id = seq + 1]]
    BY <1>3, <1>1 DEF Dispatch, TypeOK
  <2>3. returned' \in Seq([id : Nat, ok : BOOLEAN]) /\ seq' \in Nat
    <3>1. returned \in Seq([id : Nat, ok : BOOLEAN])
      BY DEF TypeOK
    <3>2. Append(returned, [id |-> seq + 1, ok |-> FALSE]) \in Seq([id : Nat, ok : BOOLEAN])
      BY <3>1, ReturnType
    <3> QED
      BY <1>3, <3>1, <3>2 DEF Dispatch
  <2>4. \E p \in Await : pc' = [pc EXCEPT ![l] = p]
    BY <1>3 DEF Dispatch, Park, Await
  <2> QED
    BY <1>1, <1>3, <2>1, <2>2, <2>3, <2>4 DEF Dispatch, TypeOK, Moves, BusOK, Frame
<1> QED
  BY <1>2, <1>3

LEMMA SettleShape ==
  ASSUME TypeOK, NEW l \in Loop, NEW est \in Estimate, Settle(l, est),
         output' = output, UNCHANGED <<triggered, wanted>>
  PROVE (Moves(l) \/ Departs(l)) /\ BusOK'
<1>1. frame[l] \in Frame /\ frame[l].round <= config.maxReduceRounds
  BY DEF TypeOK
<1>2. CASE Dispatch(l)
  BY <1>2, DispatchShape
<1>3. CASE stopping /\ Throw(l)
  BY <1>3 DEF TypeOK, Throw, Departs, BusOK, bus
<1>4. CASE MayShrink(l) /\ Shrink(l, "recompose", est)
  <2>1. frame[l].round + 1 <= config.maxReduceRounds
    BY <1>1, <1>4, RoundType DEF MayShrink, Frame
  <2>2. [frame[l] EXCEPT !.round = @ + 1, !.last = est] \in Frame
    <3>1. frame[l].round + 1 \in Nat
      BY <1>1 DEF Frame
    <3> QED
      BY <1>1, <3>1, FrameShrunk
  <2>3. frame' = [frame EXCEPT ![l] = [frame[l] EXCEPT !.round = @ + 1, !.last = est]]
    BY <1>1, <1>4 DEF Shrink, TypeOK
  <2> QED
    BY <1>1, <1>4, <2>1, <2>2, <2>3 DEF Shrink, Park, Moves, BusOK, bus, TypeOK, Await, Frame
<1> QED
  BY <1>2, <1>3, <1>4 DEF Settle

LEMMA ReportShape ==
  ASSUME TypeOK, NEW l \in Loop, NEW ok \in BOOLEAN, Report(l, ok),
         output' \in SUBSET Nat, UNCHANGED <<triggered, wanted>>
  PROVE Moves(l) /\ BusOK'
<1>1. frame[l] \in Frame /\ frame[l].round <= config.maxReduceRounds
  BY DEF TypeOK
<1>2. returned' \in Seq([id : Nat, ok : BOOLEAN])
  BY <1>1, ReturnType DEF Report, TypeOK, Frame
<1> QED
  BY <1>1, <1>2 DEF Report, Park, Moves, BusOK, TypeOK, Await, Frame

LEMMA ThrowShape ==
  ASSUME TypeOK, NEW l \in Loop, Throw(l), stopping, UNCHANGED <<triggered, wanted>>
  PROVE Departs(l) /\ BusOK'
BY DEF TypeOK, Throw, Departs, BusOK, bus

LEMMA EndSendShape ==
  ASSUME TypeOK, NEW l \in Loop, EndSend(l), UNCHANGED <<triggered, wanted>>
  PROVE Moves(l) /\ BusOK'
BY DEF TypeOK, EndSend, Park, Moves, BusOK, bus, Await, Frame

(* Every step of a loop is one of the two shapes. *)
LEMMA StepShape ==
  ASSUME TypeOK, NEW l \in Loop, Step(l)
  PROVE /\ Active(l)
        /\ Moves(l) \/ Departs(l)
        /\ BusOK'
        /\ UNCHANGED world
<1>0. frame[l] \in Frame /\ frame[l].key \in Key
  BY DEF TypeOK, Frame
<1>1. CASE Composed(l)
  <2>1. CASE Dispatch(l)
    BY <1>1, <2>1, DispatchShape DEF Composed, Active, Unlocked
  <2>2. CASE stopping /\ Throw(l)
    BY <1>1, <2>2, ThrowShape DEF Composed, Active, Unlocked
  <2>3. CASE Park(l, "listing") /\ UNCHANGED <<frame, seq, crashed, inFlight, bus>>
    BY <1>0, <1>1, <2>3 DEF Composed, Active, Unlocked, Park, Moves, BusOK, bus, TypeOK, Await
  <2> QED
    BY <1>1, <2>1, <2>2, <2>3 DEF Composed
<1>2. CASE ComposeFailed(l)
  <2>1. Active(l) /\ UNCHANGED Unlocked
    BY <1>2 DEF ComposeFailed, Active
  <2> QED
    BY <1>2, <2>1, ThrowShape, EndSendShape DEF ComposeFailed, Unlocked
<1>3. CASE Listed(l)
  <2>1. Active(l) /\ UNCHANGED Unlocked /\ output' = output
    BY <1>3 DEF Listed, Active
  <2>2. PICK est \in Estimate \cup {0} : Dispatch(l) \/ EndSend(l) \/ (est \in Estimate /\ Settle(l, est))
    BY <1>3 DEF Listed
  <2> QED
    BY <2>1, <2>2, DispatchShape, EndSendShape, SettleShape DEF Unlocked
<1>4. CASE Recomposed(l)
  <2>1. Active(l) /\ UNCHANGED Unlocked /\ output' = output
    BY <1>4 DEF Recomposed, Active
  <2>2. PICK est \in Estimate : Settle(l, est)
    BY <1>4 DEF Recomposed
  <2> QED
    BY <2>1, <2>2, SettleShape DEF Unlocked
<1>5. CASE ToolsListed(l)
  <2>1. Active(l) /\ UNCHANGED Unlocked
    BY <1>5 DEF ToolsListed, Active
  <2>2. CASE stopping
    BY <1>5, <2>1, <2>2, ThrowShape DEF ToolsListed, Unlocked
  <2>3. CASE ~stopping
    BY <1>0, <1>5, <2>1, <2>3, ZenonT(60) DEF ToolsListed, Unlocked, Park, Moves, BusOK, TypeOK, Await, Frame
  <2> QED
    BY <2>2, <2>3
<1>6. CASE ChatOk(l)
  <2>1. Active(l) /\ UNCHANGED Unlocked /\ Report(l, TRUE)
    BY <1>6 DEF ChatOk, Active
  <2>2. output' \in SUBSET Nat
    BY <1>0, <1>6 DEF ChatOk, TypeOK, Frame
  <2> QED
    BY <2>1, <2>2, ReportShape DEF Unlocked
<1>7. CASE ChatOverflow(l)
  <2>1. Active(l) /\ UNCHANGED Unlocked
    BY <1>7 DEF ChatOverflow, Active
  <2>2. CASE stopping
    BY <1>7, <2>1, <2>2, EndSendShape DEF ChatOverflow, Unlocked
  <2>3. CASE ~stopping
    <3> DEFINE f == [frame[l] EXCEPT !.round = @ + 1, !.last = frame[l].last]
    <3>1. /\ frame[l].round \in Nat
          /\ frame[l].round < config.maxReduceRounds
          /\ frame[l].last \in Estimate \cup {NoEstimate}
      BY <1>0, <1>7 DEF ChatOverflow, MayShrink, Frame
    <3>2. f \in Frame
      <4>1. frame[l].round + 1 \in Nat
        BY <3>1
      <4> QED
        BY <1>0, <3>1, <4>1, FrameShrunk
    <3>3. f.key = frame[l].key /\ f.round = frame[l].round + 1
      BY <1>0 DEF Frame
    <3>4. f.round <= config.maxReduceRounds
      BY <3>1, <3>3, RoundType
    <3>5. frame' = [frame EXCEPT ![l] = f]
      BY <1>7, <2>3 DEF ChatOverflow, Shrink, TypeOK
    <3> HIDE DEF f
    <3> QED
      BY <1>7, <2>1, <2>3, <3>2, <3>3, <3>4, <3>5
      DEF ChatOverflow, Shrink, Unlocked, Park, Moves, BusOK, bus, TypeOK, Await
  <2> QED
    BY <2>2, <2>3
<1>8. CASE ChatFailed(l)
  <2>1. Active(l) /\ UNCHANGED Unlocked /\ Report(l, FALSE) /\ output' \in SUBSET Nat
    BY <1>8 DEF ChatFailed, Active, TypeOK
  <2> QED
    BY <2>1, ReportShape DEF Unlocked
<1>9. CASE RetryComposed(l)
  <2>1. Active(l) /\ UNCHANGED Unlocked /\ Dispatch(l) /\ output' = output
    BY <1>9 DEF RetryComposed, Active
  <2> QED
    BY <2>1, DispatchShape DEF Unlocked
<1>10. CASE RetryComposeFailed(l)
  <2>1. Active(l) /\ UNCHANGED Unlocked /\ output' \in SUBSET Nat
    BY <1>10 DEF RetryComposeFailed, Active, TypeOK
  <2> QED
    BY <1>10, <2>1, ThrowShape, ReportShape DEF RetryComposeFailed, Unlocked
<1>11. CASE LoopAgain(l)
  <2>1. /\ NewFrame(frame[l].key) \in Frame
        /\ NewFrame(frame[l].key).key = frame[l].key
        /\ NewFrame(frame[l].key).round <= config.maxReduceRounds
    BY <1>0, RoundType DEF NewFrame, Frame
  <2> QED
    BY <1>0, <1>11, <2>1
    DEF LoopAgain, BeginSend, Active, Park, Moves, BusOK, bus, TypeOK, Await
<1>12. CASE LoopEnd(l)
  BY <1>12 DEF LoopEnd, Active, Departs, BusOK, bus, TypeOK
<1> QED
  BY <1>1, <1>2, <1>3, <1>4, <1>5, <1>6, <1>7, <1>8, <1>9, <1>10, <1>11, <1>12
  DEF Step

----------------------------------------------------------------------------
(* The lock.                                                               *)

LockInv == TypeOK /\ SingleFlight /\ LockFollowsLoop /\ NoForgottenTrigger

LEMMA LockInit == Init => LockInv
<1> SUFFICES ASSUME Init PROVE LockInv
  OBVIOUS
<1>1. TypeOK
  <2>1. config.maxReduceRounds \in Nat
    BY ConfigAssumption DEF Init, ConfigType
  <2>2. /\ returned \in Seq([id : Nat, ok : BOOLEAN])
        /\ sent \in SUBSET Nat /\ output \in SUBSET Nat
        /\ config \in Config
    BY DEF Init
  <2>3. /\ frame \in [Loop -> Frame]
        /\ \A l \in Loop : frame[l].round <= config.maxReduceRounds
    BY <2>1, NoFrameType DEF Init
  <2>4. /\ inFlight \in [Key -> BOOLEAN] /\ triggered \in [Key -> BOOLEAN]
        /\ wanted \in [Key -> BOOLEAN]
        /\ pc \in [Loop -> Await \cup {"free"}]
        /\ seq \in Nat /\ triggers \in Nat
        /\ composeUp \in BOOLEAN /\ stopping \in BOOLEAN /\ crashed \in BOOLEAN
    BY DEF Init
  <2> QED
    BY <2>2, <2>3, <2>4 DEF TypeOK
<1> QED
  BY <1>1, NoFrameType DEF Init, LockInv, SingleFlight, LockFollowsLoop, NoForgottenTrigger, Active, Frame

(* The two shapes keep the lock, whichever action took the step. *)
LEMMA MovesKeepsLock ==
  ASSUME LockInv, NEW l \in Loop, Active(l), Moves(l), BusOK', UNCHANGED world
  PROVE LockInv'
<1>1. PICK p \in Await : pc' = [pc EXCEPT ![l] = p]
  BY DEF Moves
<1>2. PICK f \in Frame : /\ frame' = [frame EXCEPT ![l] = f]
                         /\ f.key = frame[l].key
                         /\ f.round <= config.maxReduceRounds
  BY DEF Moves
<1>3. /\ inFlight' = inFlight
      /\ triggered' \in [Key -> BOOLEAN] /\ wanted' \in [Key -> BOOLEAN]
      /\ \A k \in Key : wanted'[k] => wanted[k] /\ (triggered[k] => triggered'[k])
  <2>1. frame[l].key \in Key
    BY DEF LockInv, TypeOK, Frame
  <2>2. CASE triggered' = triggered /\ wanted' = wanted
    BY <2>2 DEF Moves, LockInv, TypeOK
  <2>3. CASE /\ triggered' = [triggered EXCEPT ![frame[l].key] = FALSE]
             /\ wanted' = [wanted EXCEPT ![frame[l].key] = FALSE]
    <3>1. inFlight' = inFlight /\ triggered \in [Key -> BOOLEAN] /\ wanted \in [Key -> BOOLEAN]
      BY DEF Moves, LockInv, TypeOK
    <3>2. triggered' \in [Key -> BOOLEAN] /\ wanted' \in [Key -> BOOLEAN]
      BY <2>1, <2>3, <3>1
    <3>3. ASSUME NEW k \in Key
          PROVE wanted'[k] => wanted[k] /\ (triggered[k] => triggered'[k])
      BY <2>1, <2>3, <3>1 
    <3> QED
      BY <3>1, <3>2, <3>3
  <2> QED
    BY <2>2, <2>3 DEF Moves
<1>4. /\ pc' \in [Loop -> Await \cup {"free"}] /\ frame' \in [Loop -> Frame]
      /\ \A m \in Loop : frame'[m].key = frame[m].key /\ (Active(m)' <=> Active(m))
      /\ \A m \in Loop : frame'[m].round <= config.maxReduceRounds
  BY <1>1, <1>2 DEF LockInv, TypeOK, Active, Await
<1>5. TypeOK'
  BY <1>3, <1>4 DEF LockInv, TypeOK, BusOK, world
<1>6. SingleFlight'
  BY <1>4 DEF LockInv, SingleFlight
<1>7. LockFollowsLoop'
  BY <1>3, <1>4 DEF LockInv, LockFollowsLoop
<1>8. NoForgottenTrigger'
  BY <1>3 DEF LockInv, NoForgottenTrigger, world
<1> QED
  BY <1>5, <1>6, <1>7, <1>8 DEF LockInv

LEMMA LeavesKeepsLock ==
  ASSUME LockInv, NEW l \in Loop, Active(l), Departs(l), BusOK', UNCHANGED world
  PROVE LockInv'
<1>0. frame[l].key \in Key
  BY DEF LockInv, TypeOK, Frame
<1>1. /\ pc' = [pc EXCEPT ![l] = "free"]
      /\ frame' = [frame EXCEPT ![l] = NoFrame]
      /\ inFlight' = [inFlight EXCEPT ![frame[l].key] = FALSE]
      /\ triggered' = triggered /\ wanted' = wanted
  BY DEF Departs, Free, Park
<1>2. /\ pc' \in [Loop -> Await \cup {"free"}] /\ frame' \in [Loop -> Frame]
      /\ \A m \in Loop : frame'[m].round <= config.maxReduceRounds
  BY <1>1, NoFrameType, RoundType DEF LockInv, TypeOK
<1>3. \A m \in Loop : /\ Active(m)' => m # l /\ Active(m)
                      /\ m # l /\ Active(m) => Active(m)'
                      /\ m # l => frame'[m] = frame[m]
  BY <1>1 DEF LockInv, TypeOK, Active
<1>4. TypeOK'
  BY <1>1, <1>2 DEF LockInv, TypeOK, BusOK, world
<1>5. SingleFlight'
  BY <1>3 DEF LockInv, SingleFlight
<1>6. LockFollowsLoop'
  <2> SUFFICES ASSUME NEW k \in Key
               PROVE inFlight'[k] <=> \E m \in Loop : Active(m)' /\ frame'[m].key = k
    BY DEF LockFollowsLoop
  <2>1. CASE k = frame[l].key
    <3>1. ~inFlight'[k]
      BY <1>0, <1>1, <2>1 DEF LockInv, TypeOK
    <3>2. \A m \in Loop : ~(Active(m)' /\ frame'[m].key = k)
      BY <1>3, <2>1 DEF LockInv, SingleFlight
    <3> QED
      BY <3>1, <3>2
  <2>2. CASE k # frame[l].key
    <3>1. inFlight'[k] = inFlight[k]
      BY <1>1, <2>2 DEF LockInv, TypeOK
    <3>2. inFlight[k] <=> \E m \in Loop : Active(m) /\ frame[m].key = k
      BY DEF LockInv, LockFollowsLoop
    <3> QED
      BY <1>3, <2>2, <3>1, <3>2
  <2> QED
    BY <2>1, <2>2
<1>7. NoForgottenTrigger'
  BY <1>1 DEF LockInv, TypeOK, NoForgottenTrigger, world, Departs
<1> QED
  BY <1>4, <1>5, <1>6, <1>7 DEF LockInv

(* The environment: the orchestrator, the teardown and the triggers. *)
LEMMA TriggerIdleKeepsLock ==
  ASSUME LockInv, NEW k \in Key, NEW l \in Loop, TriggerIdle(k, l)
  PROVE LockInv'
<1>1. PICK p \in Await : pc' = [pc EXCEPT ![l] = p]
  BY DEF TriggerIdle, BeginSend, Park, Await
<1>2. /\ frame' = [frame EXCEPT ![l] = NewFrame(k)]
      /\ inFlight' = [inFlight EXCEPT ![k] = TRUE]
      /\ triggered' = [triggered EXCEPT ![k] = FALSE]
      /\ wanted' = [wanted EXCEPT ![k] = FALSE]
      /\ pc[l] = "free" /\ ~inFlight[k]
      /\ UNCHANGED <<config, composeUp, stopping, seq, bus, crashed>>
      /\ triggers' = triggers + 1
  BY DEF TriggerIdle, BeginSend
<1>3. NewFrame(k) \in Frame /\ NewFrame(k).key = k /\ NewFrame(k).round = 0
  BY DEF NewFrame, Frame
<1>4. /\ pc' \in [Loop -> Await \cup {"free"}] /\ frame' \in [Loop -> Frame]
      /\ \A m \in Loop : frame'[m].round <= config.maxReduceRounds
  BY <1>1, <1>2, <1>3, RoundType DEF LockInv, TypeOK
<1>5. /\ Active(l)' /\ frame'[l].key = k
      /\ \A m \in Loop : m # l => (Active(m)' <=> Active(m)) /\ frame'[m] = frame[m]
  BY <1>1, <1>2, <1>3 DEF LockInv, TypeOK, Active, Await
<1>6. \A m \in Loop : ~(Active(m) /\ frame[m].key = k)
  BY <1>2 DEF LockInv, LockFollowsLoop
<1>7. ~Active(l)
  BY <1>2 DEF Active
<1>8. TypeOK'
  BY <1>2, <1>4 DEF LockInv, TypeOK, bus
<1>9. SingleFlight'
  BY <1>5, <1>6 DEF LockInv, SingleFlight
<1>10. LockFollowsLoop'
  <2> SUFFICES ASSUME NEW j \in Key
               PROVE inFlight'[j] <=> \E m \in Loop : Active(m)' /\ frame'[m].key = j
    BY DEF LockFollowsLoop
  <2>1. CASE j = k
    BY <1>2, <1>5, <2>1 DEF LockInv, TypeOK
  <2>2. CASE j # k
    <3>1. inFlight'[j] = inFlight[j]
      BY <1>2, <2>2 DEF LockInv, TypeOK
    <3>2. inFlight[j] <=> \E m \in Loop : Active(m) /\ frame[m].key = j
      BY DEF LockInv, LockFollowsLoop
    <3> QED
      BY <1>5, <1>7, <2>2, <3>1, <3>2
  <2> QED
    BY <2>1, <2>2
<1>11. NoForgottenTrigger'
  BY <1>2 DEF LockInv, TypeOK, NoForgottenTrigger
<1> QED
  BY <1>8, <1>9, <1>10, <1>11 DEF LockInv

LEMMA LockStep == LockInv /\ [Next]_vars => LockInv'
<1> SUFFICES ASSUME LockInv, [Next]_vars PROVE LockInv'
  OBVIOUS
<1>1. CASE UNCHANGED vars
  BY <1>1 DEF LockInv, TypeOK, SingleFlight, LockFollowsLoop, NoForgottenTrigger, Active, vars
<1>2. CASE ComposeRegistered \/ ComposeUnregistered \/ Teardown
  <2>1. /\ UNCHANGED <<config, inFlight, triggered, wanted, pc, frame, seq, sent,
                      returned, output, crashed, triggers>>
        /\ composeUp' \in BOOLEAN /\ stopping' \in BOOLEAN
        /\ stopping => stopping'
    BY <1>2 DEF ComposeRegistered, ComposeUnregistered, Teardown, LockInv, TypeOK, lock, bus
  <2>2. TypeOK'
    BY <2>1 DEF LockInv, TypeOK
  <2>3. SingleFlight' /\ LockFollowsLoop' /\ NoForgottenTrigger'
    BY <2>1 DEF LockInv, SingleFlight, LockFollowsLoop, NoForgottenTrigger, Active
  <2> QED
    BY <2>2, <2>3 DEF LockInv
<1>3. ASSUME NEW k \in Key, TriggerBusy(k) PROVE LockInv'
  BY <1>3 DEF TriggerBusy, LockInv, TypeOK, SingleFlight, LockFollowsLoop,
    NoForgottenTrigger, Active, bus
<1>4. ASSUME NEW k \in Key, NEW l \in Loop, TriggerIdle(k, l) PROVE LockInv'
  BY <1>4, TriggerIdleKeepsLock
<1>5. ASSUME NEW l \in Loop, Step(l) PROVE LockInv'
  BY <1>5, StepShape, MovesKeepsLock, LeavesKeepsLock DEF LockInv
<1> QED
  BY <1>1, <1>2, <1>3, <1>4, <1>5 DEF Next, Environment

THEOREM LockInvariant == Spec => []LockInv
<1>1. Init => LockInv
  BY LockInit
<1>2. LockInv /\ [Next]_vars => LockInv'
  BY LockStep
<1> QED
  BY <1>1, <1>2, PTL DEF Spec

(* Type correctness, with the bound on the reduction rounds: however a send *)
(* alternates between shrinking and retrying, one budget covers both.      *)
THEOREM TypeCorrect == Spec => []TypeOK
<1>1. LockInv => TypeOK
  BY DEF LockInv
<1> QED
  BY <1>1, LockInvariant, PTL

(* One send loop per agent id, for any number of ids, loops and triggers. *)
THEOREM OneLoopPerAgent == Spec => []SingleFlight
<1>1. LockInv => SingleFlight
  BY DEF LockInv
<1> QED
  BY <1>1, LockInvariant, PTL

(* The lock is held exactly while a loop runs. *)
THEOREM LockIsTheLoop == Spec => []LockFollowsLoop
<1>1. LockInv => LockFollowsLoop
  BY DEF LockInv
<1> QED
  BY <1>1, LockInvariant, PTL

(* No trigger that found its id in flight is forgotten by a living plugin. *)
THEOREM TriggersAreKept == Spec => []NoForgottenTrigger
<1>1. LockInv => NoForgottenTrigger
  BY DEF LockInv
<1> QED
  BY <1>1, LockInvariant, PTL

(* One loop at a time, and a loop for every trigger. *)
THEOREM TriggersAreServed == Spec => []EveryTriggerServed
<1>1. SingleFlight /\ NoForgottenTrigger => EveryTriggerServed
  BY DEF EveryTriggerServed
<1> QED
  BY <1>1, OneLoopPerAgent, TriggersAreKept, PTL

----------------------------------------------------------------------------
(* The reports: one per attempt, none early, none missing.                 *)

Before == {"free", "compose", "listing", "recompose"}
Out == {"tools", "chat", "retry"}

(* An id is fresh, belongs to one loop, and is 0 until an attempt is made. *)
IdsInOrder ==
  /\ \A l \in Loop : frame[l].id <= seq
  /\ \A i \in DOMAIN returned : returned[i].id <= seq
  /\ \A l, m \in Loop : frame[l].id = frame[m].id /\ frame[l].id # 0 => l = m
  /\ \A l \in Loop : pc[l] \in Before => frame[l].id = 0
  /\ \A l \in Loop : pc[l] \in Out => frame[l].id # 0

ReportInv ==
  IdsInOrder /\ OneReturnPerAttempt /\ NoEarlyReturn /\ DispatchedSendReports

(* What a step of l does to pc, ids and returns.  The other loops keep theirs. *)
Reports(l, id) == returned' = Append(returned, [id |-> id, ok |-> TRUE])
                  \/ returned' = Append(returned, [id |-> id, ok |-> FALSE])

NewAttempt(l) ==
  /\ seq' = seq + 1
  /\ frame'[l].id = seq + 1
  /\ \/ pc'[l] = "tools" /\ returned' = returned
     \/ pc'[l] = "done" /\ Reports(l, seq + 1)

SameAttempt(l) ==
  /\ seq' = seq
  /\ frame'[l].id = frame[l].id
  /\ returned' = returned
  /\ \/ pc[l] \in Before /\ pc'[l] \in Before \cup {"done"}
     \/ pc[l] \in Out /\ pc'[l] \in Out
     \/ stopping /\ pc'[l] = "done"

EndAttempt(l) ==
  /\ seq' = seq
  /\ frame'[l].id = frame[l].id
  /\ pc[l] \in Out /\ pc'[l] = "done"
  /\ Reports(l, frame[l].id)

NoAttempt(l) ==
  /\ seq' = seq
  /\ frame'[l].id = 0
  /\ pc'[l] \in {"free", "compose", "done"}
  /\ returned' = returned

Others(l) ==
  /\ stopping' = stopping
  /\ \A m \in Loop : m # l => pc'[m] = pc[m] /\ frame'[m] = frame[m]

LEMMA Appended ==
  ASSUME returned \in Seq([id : Nat, ok : BOOLEAN]), NEW n \in Nat, NEW l \in Loop, Reports(l, n)
  PROVE /\ Len(returned) \in Nat
        /\ DOMAIN returned = 1..Len(returned)
        /\ DOMAIN returned' = 1..(Len(returned) + 1)
        /\ returned'[Len(returned) + 1].id = n
        /\ \A i \in 1..Len(returned) : returned'[i] = returned[i]
<1>1. PICK b \in BOOLEAN : returned' = Append(returned, [id |-> n, ok |-> b])
  BY DEF Reports
<1>2. returned' \in Seq([id : Nat, ok : BOOLEAN])
  BY <1>1, ReturnType
<1> QED
  BY <1>1, <1>2

LEMMA IdsKept ==
  ASSUME IdsInOrder, NEW l \in Loop, Others(l),
         seq \in Nat, seq' \in Nat, seq <= seq',
         \A m \in Loop : frame[m].id \in Nat /\ frame'[m].id \in Nat,
         \/ frame'[l].id = seq + 1 /\ seq' = seq + 1
         \/ frame'[l].id = frame[l].id
         \/ frame'[l].id = 0,
         \A i \in DOMAIN returned' : returned'[i].id <= seq',
         pc'[l] \in Before => frame'[l].id = 0,
         pc'[l] \in Out => frame'[l].id # 0
  PROVE IdsInOrder'
<1>1. \A m \in Loop : frame'[m].id <= seq'
  <2>1. \A m \in Loop : frame[m].id <= seq
    BY DEF IdsInOrder
  <2> QED
    BY <2>1 DEF Others
<1>2. \A m, n \in Loop : frame'[m].id = frame'[n].id /\ frame'[m].id # 0 => m = n
  <2>1. \A m, n \in Loop : frame[m].id = frame[n].id /\ frame[m].id # 0 => m = n
    BY DEF IdsInOrder
  <2>2. \A m \in Loop : frame[m].id < seq + 1
    BY DEF IdsInOrder
  <2> QED
    BY <2>1, <2>2 DEF Others
<1>3. \A m \in Loop : pc'[m] \in Before => frame'[m].id = 0
  BY DEF IdsInOrder, Others
<1>4. \A m \in Loop : pc'[m] \in Out => frame'[m].id # 0
  BY DEF IdsInOrder, Others
<1> QED
  BY <1>1, <1>2, <1>3, <1>4 DEF IdsInOrder

LEMMA AttemptsKeepReports ==
  ASSUME TypeOK, TypeOK', ReportInv, NEW l \in Loop, Others(l),
         NewAttempt(l) \/ SameAttempt(l) \/ EndAttempt(l) \/ NoAttempt(l)
  PROVE ReportInv'
<1>1. /\ seq \in Nat /\ seq' \in Nat
      /\ returned \in Seq([id : Nat, ok : BOOLEAN])
      /\ \A m \in Loop : frame[m].id \in Nat /\ frame'[m].id \in Nat
      /\ \A i \in DOMAIN returned : returned[i].id \in Nat
  <2>1. seq \in Nat /\ seq' \in Nat /\ returned \in Seq([id : Nat, ok : BOOLEAN])
    BY DEF TypeOK
  <2>2. \A m \in Loop : frame[m].id \in Nat /\ frame'[m].id \in Nat
    BY DEF TypeOK, Frame
  <2>3. \A i \in DOMAIN returned : returned[i].id \in Nat
    <3> SUFFICES ASSUME NEW i \in DOMAIN returned PROVE returned[i].id \in Nat
      OBVIOUS
    <3>1. returned[i] \in [id : Nat, ok : BOOLEAN]
      <4> DEFINE R == [id : Nat, ok : BOOLEAN]
      <4>1. returned \in Seq(R)
        BY <2>1
      <4> HIDE DEF R
      <4>2. returned[i] \in R
        BY <4>1
      <4> QED
        BY <4>2 DEF R
    <3> QED
      BY <3>1
  <2> QED
    BY <2>1, <2>2, <2>3
<1>2. Before \cap Out = {} /\ "done" \notin Before \cup Out
  BY DEF Before, Out
<1>3. CASE NewAttempt(l)
  <2>1. CASE pc'[l] = "tools" /\ returned' = returned
    <3>1. \A i \in DOMAIN returned : returned[i].id <= seq
      BY DEF ReportInv, IdsInOrder
    <3>2. IdsInOrder'
      BY <1>1, <1>3, <2>1, <3>1, IdsKept DEF NewAttempt, ReportInv, Before
    <3>3. NoEarlyReturn'
      BY <1>1, <1>3, <2>1, <3>1, SMTT(60) DEF NewAttempt, Others, ReportInv, NoEarlyReturn
    <3>4. DispatchedSendReports'
      BY <2>1 DEF Others, ReportInv, DispatchedSendReports
    <3>5. OneReturnPerAttempt'
      BY <2>1 DEF ReportInv, OneReturnPerAttempt
    <3> QED
      BY <3>2, <3>3, <3>4, <3>5 DEF ReportInv
  <2>2. CASE pc'[l] = "done" /\ Reports(l, seq + 1)
    <3>1. /\ DOMAIN returned' = 1..(Len(returned) + 1) /\ DOMAIN returned = 1..Len(returned)
          /\ returned'[Len(returned) + 1].id = seq + 1
          /\ \A i \in DOMAIN returned : returned'[i] = returned[i]
          /\ Len(returned) \in Nat
      <4>1. seq + 1 \in Nat
        BY <1>1
      <4> QED
        BY <1>1, <2>2, <4>1, Appended
    <3>2. IdsInOrder'
      <4>1. \A i \in DOMAIN returned' : returned'[i].id <= seq'
        BY <1>1, <1>3, <3>1 DEF NewAttempt, ReportInv, IdsInOrder
      <4> QED
        BY <1>1, <1>3, <2>2, <4>1, IdsKept, SMTT(60) DEF NewAttempt, ReportInv, Before, Out
    <3>3. OneReturnPerAttempt'
      <4>1. \A i \in DOMAIN returned : returned'[i].id = returned[i].id
        BY <3>1
      <4>2. \A i \in DOMAIN returned : returned[i].id < seq + 1
        BY <1>1 DEF ReportInv, IdsInOrder
      <4>3. \A i, j \in DOMAIN returned :
              returned[i].id = returned[j].id => i = j
        BY DEF ReportInv, OneReturnPerAttempt
      <4>4. \A i \in DOMAIN returned : returned'[i].id # returned'[Len(returned) + 1].id
        BY <1>1, <3>1, <4>1, <4>2
      <4> SUFFICES ASSUME NEW i \in DOMAIN returned', NEW j \in DOMAIN returned',
                          returned'[i].id = returned'[j].id
                   PROVE i = j
        BY DEF OneReturnPerAttempt
      <4>5. /\ i \in DOMAIN returned \/ i = Len(returned) + 1
            /\ j \in DOMAIN returned \/ j = Len(returned) + 1
        BY <3>1
      <4> QED
        BY <4>1, <4>3, <4>4, <4>5
    <3>4. NoEarlyReturn'
      BY <1>1, <2>2, <3>1, SMTT(60) DEF Others, ReportInv, IdsInOrder, NoEarlyReturn
    <3>5. DispatchedSendReports'
      <4>1. Len(returned) + 1 \in DOMAIN returned' /\ DOMAIN returned \subseteq DOMAIN returned'
        BY <3>1
      <4>2. frame'[l].id = seq + 1
        BY <1>3 DEF NewAttempt
      <4> SUFFICES ASSUME NEW m \in Loop, pc'[m] = "done", frame'[m].id # 0, ~stopping'
                   PROVE \E i \in DOMAIN returned' : returned'[i].id = frame'[m].id
        BY DEF DispatchedSendReports
      <4>3. CASE m = l
        BY <3>1, <4>1, <4>2, <4>3
      <4>4. CASE m # l
        <5>1. /\ pc[m] = "done" /\ frame[m].id # 0 /\ ~stopping
              /\ frame'[m] = frame[m]
          BY <1>3, <4>4 DEF NewAttempt, Others
        <5>2. PICK i \in DOMAIN returned : returned[i].id = frame[m].id
          BY <5>1 DEF ReportInv, DispatchedSendReports
        <5> QED
          BY <3>1, <4>1, <5>1, <5>2
      <4> QED
        BY <4>3, <4>4
    <3> QED
      BY <3>2, <3>3, <3>4, <3>5 DEF ReportInv
  <2> QED
    BY <1>3, <2>1, <2>2 DEF NewAttempt
<1>4. CASE SameAttempt(l)
  <2>1. IdsInOrder' /\ OneReturnPerAttempt'
    <3>1. \A i \in DOMAIN returned' : returned'[i].id <= seq'
      BY <1>4 DEF SameAttempt, ReportInv, IdsInOrder
    <3>2. /\ pc'[l] \in Before => frame'[l].id = 0
          /\ pc'[l] \in Out => frame'[l].id # 0
      BY <1>2, <1>4 DEF SameAttempt, ReportInv, IdsInOrder
    <3>3. seq <= seq'
      BY <1>1, <1>4 DEF SameAttempt
    <3>4. IdsInOrder'
      BY <1>1, <1>4, <3>1, <3>2, <3>3, IdsKept DEF SameAttempt, ReportInv
    <3>5. OneReturnPerAttempt'
      BY <1>4 DEF SameAttempt, ReportInv, OneReturnPerAttempt
    <3> QED
      BY <3>4, <3>5
  <2>2. NoEarlyReturn'
    BY <1>4 DEF SameAttempt, Others, ReportInv, NoEarlyReturn, Before, Out
  <2>3. DispatchedSendReports'
    BY <1>4 DEF SameAttempt, Others, ReportInv, IdsInOrder, DispatchedSendReports, Before, Out
  <2> QED
    BY <2>1, <2>2, <2>3 DEF ReportInv
<1>5. CASE EndAttempt(l)
  <2>1. /\ DOMAIN returned' = 1..(Len(returned) + 1) /\ DOMAIN returned = 1..Len(returned)
        /\ returned'[Len(returned) + 1].id = frame[l].id
        /\ \A i \in DOMAIN returned : returned'[i] = returned[i]
        /\ Len(returned) \in Nat
    BY <1>1, <1>5, Appended DEF EndAttempt
  <2>2. /\ pc[l] \in {"tools", "chat", "retry"} /\ frame[l].id # 0
        /\ \A i \in DOMAIN returned : returned[i].id # frame[l].id
    BY <1>5 DEF EndAttempt, ReportInv, IdsInOrder, NoEarlyReturn, Out
  <2>3. IdsInOrder'
    <3>1. \A i \in DOMAIN returned' : returned'[i].id <= seq'
      BY <1>1, <1>5, <2>1 DEF EndAttempt, ReportInv, IdsInOrder
    <3> QED
      BY <1>1, <1>5, <3>1, IdsKept DEF EndAttempt, ReportInv, Before, Out
  <2>4. OneReturnPerAttempt'
    BY <2>1, <2>2 DEF ReportInv, OneReturnPerAttempt
  <2>5. NoEarlyReturn'
    BY <1>5, <2>1, <2>2 DEF EndAttempt, Others, ReportInv, IdsInOrder, NoEarlyReturn
  <2>6. DispatchedSendReports'
    BY <1>5, <2>1 DEF EndAttempt, Others, ReportInv, DispatchedSendReports
  <2> QED
    BY <2>3, <2>4, <2>5, <2>6 DEF ReportInv
<1>6. CASE NoAttempt(l)
  <2>1. IdsInOrder' /\ OneReturnPerAttempt'
    <3>1. \A i \in DOMAIN returned' : returned'[i].id <= seq'
      BY <1>6 DEF NoAttempt, ReportInv, IdsInOrder
    <3>2. IdsInOrder'
      BY <1>1, <1>6, <3>1, IdsKept DEF NoAttempt, ReportInv, Out
    <3>3. OneReturnPerAttempt'
      BY <1>6 DEF NoAttempt, ReportInv, OneReturnPerAttempt
    <3> QED
      BY <3>2, <3>3
  <2>2. NoEarlyReturn'
    BY <1>6 DEF NoAttempt, Others, ReportInv, NoEarlyReturn
  <2>3. DispatchedSendReports'
    BY <1>6 DEF NoAttempt, Others, ReportInv, DispatchedSendReports
  <2> QED
    BY <2>1, <2>2, <2>3 DEF ReportInv
<1> QED
  BY <1>3, <1>4, <1>5, <1>6

(* The ends of a wait, in these terms. *)
LEMMA DispatchAttempt ==
  ASSUME TypeOK, NEW l \in Loop, Dispatch(l), stopping' = stopping
  PROVE (NewAttempt(l) \/ SameAttempt(l)) /\ Others(l)
<1>1. frame[l] \in Frame
  BY DEF TypeOK
<1>2. CASE stopping
  BY <1>2 DEF TypeOK, Dispatch, EndSend, Park, SameAttempt, Others, bus
<1>3. CASE ~stopping
  BY <1>1, <1>3 DEF TypeOK, Dispatch, Park, NewAttempt, Reports, Others, Frame
<1> QED
  BY <1>2, <1>3

LEMMA ThrowAttempt ==
  ASSUME TypeOK, NEW l \in Loop, Throw(l), stopping' = stopping
  PROVE NoAttempt(l) /\ Others(l)
BY NoFrameType DEF TypeOK, Throw, Free, Park, NoAttempt, Others, bus

LEMMA SettleAttempt ==
  ASSUME TypeOK, NEW l \in Loop, pc[l] \in {"listing", "recompose"}, stopping' = stopping,
         NEW est \in Estimate, Settle(l, est)
  PROVE (NewAttempt(l) \/ SameAttempt(l) \/ NoAttempt(l)) /\ Others(l)
<1>1. frame[l] \in Frame
  BY DEF TypeOK
<1>2. CASE Dispatch(l)
  BY <1>2, DispatchAttempt
<1>3. CASE Throw(l)
  BY <1>3, ThrowAttempt
<1>4. CASE Shrink(l, "recompose", est)
  BY <1>1, <1>4 DEF Shrink, TypeOK, Park, SameAttempt, Others, bus, Before, Frame
<1> QED
  BY <1>2, <1>3, <1>4 DEF Settle

LEMMA ReportAttempt ==
  ASSUME TypeOK, NEW l \in Loop, pc[l] \in Out, stopping' = stopping,
         NEW ok \in BOOLEAN, Report(l, ok)
  PROVE (EndAttempt(l) \/ SameAttempt(l)) /\ Others(l)
<1>1. Others(l) /\ pc'[l] = "done" /\ seq' = seq /\ frame'[l].id = frame[l].id
  BY DEF Report, TypeOK, Park, Others
<1>2. CASE stopping
  BY <1>1, <1>2 DEF Report, SameAttempt
<1>3. CASE ~stopping /\ ok = TRUE
  BY <1>1, <1>3 DEF Report, EndAttempt, Reports
<1>4. CASE ~stopping /\ ok = FALSE
  BY <1>1, <1>4 DEF Report, EndAttempt, Reports
<1> QED
  BY <1>2, <1>3, <1>4

LEMMA StepAttempt ==
  ASSUME TypeOK, NEW l \in Loop, Step(l)
  PROVE /\ Others(l)
        /\ NewAttempt(l) \/ SameAttempt(l) \/ EndAttempt(l) \/ NoAttempt(l)
<1>0. /\ frame[l] \in Frame
      /\ stopping' = stopping
  BY StepShape DEF TypeOK, world
<1>1. CASE Composed(l)
  BY <1>0, <1>1, DispatchAttempt, ThrowAttempt
  DEF Composed, Park, TypeOK, SameAttempt, Others, bus, Before
<1>2. CASE ComposeFailed(l)
  BY <1>0, <1>2, ThrowAttempt
  DEF ComposeFailed, EndSend, Park, TypeOK, SameAttempt, Others, bus, Before
<1>3. CASE Listed(l)
  <2>1. CASE EndSend(l) /\ stopping
    BY <1>0, <2>1 DEF EndSend, Park, TypeOK, SameAttempt, Others, bus
  <2>2. CASE Dispatch(l)
    BY <1>0, <2>2, DispatchAttempt
  <2>3. CASE \E est \in Estimate : Settle(l, est)
    BY <1>0, <1>3, <2>3, SettleAttempt DEF Listed
  <2> QED
    BY <1>3, <2>1, <2>2, <2>3 DEF Listed
<1>4. CASE Recomposed(l)
  BY <1>0, <1>4, SettleAttempt DEF Recomposed
<1>5. CASE ToolsListed(l)
  BY <1>0, <1>5, ThrowAttempt DEF ToolsListed, Park, TypeOK, SameAttempt, Others, Out
<1>6. CASE ChatOk(l)
  BY <1>0, <1>6, ReportAttempt DEF ChatOk, Out
<1>7. CASE ChatOverflow(l)
  BY <1>0, <1>7 DEF ChatOverflow, EndSend, Shrink, Park, TypeOK, SameAttempt, Others, bus, Out, Frame
<1>8. CASE ChatFailed(l)
  BY <1>0, <1>8, ReportAttempt DEF ChatFailed, Out
<1>9. CASE RetryComposed(l)
  BY <1>0, <1>9, DispatchAttempt DEF RetryComposed
<1>10. CASE RetryComposeFailed(l)
  BY <1>0, <1>10, ThrowAttempt, ReportAttempt DEF RetryComposeFailed, Out
<1>11. CASE LoopAgain(l)
  BY <1>0, <1>11 DEF LoopAgain, BeginSend, NewFrame, Park, TypeOK, NoAttempt, Others, bus
<1>12. CASE LoopEnd(l)
  BY <1>0, <1>12, NoFrameType DEF LoopEnd, Free, Park, TypeOK, NoAttempt, Others, bus
<1> QED
  BY <1>1, <1>2, <1>3, <1>4, <1>5, <1>6, <1>7, <1>8, <1>9, <1>10, <1>11, <1>12
  DEF Step

LEMMA ReportStep == TypeOK /\ TypeOK' /\ ReportInv /\ [Next]_vars => ReportInv'
<1> SUFFICES ASSUME TypeOK, TypeOK', ReportInv, [Next]_vars PROVE ReportInv'
  OBVIOUS
<1>1. CASE \/ UNCHANGED vars
           \/ ComposeRegistered \/ ComposeUnregistered \/ Teardown
           \/ \E k \in Key : TriggerBusy(k)
  <2>1. UNCHANGED <<pc, frame, seq, returned>> /\ (stopping => stopping')
    BY <1>1 DEF vars, ComposeRegistered, ComposeUnregistered, Teardown, TriggerBusy, bus
  <2> QED
    BY <2>1 DEF ReportInv, IdsInOrder, OneReturnPerAttempt, NoEarlyReturn, DispatchedSendReports
<1>2. ASSUME NEW k \in Key, NEW l \in Loop, TriggerIdle(k, l) PROVE ReportInv'
  <2>1. NoAttempt(l) /\ Others(l)
    BY <1>2 DEF TriggerIdle, BeginSend, NewFrame, Park, TypeOK, NoAttempt, Others, bus
  <2> QED
    BY <2>1, AttemptsKeepReports
<1>3. ASSUME NEW l \in Loop, Step(l) PROVE ReportInv'
  BY <1>3, StepAttempt, AttemptsKeepReports
<1> QED
  BY <1>1, <1>2, <1>3 DEF Next, Environment

LEMMA ReportInit == Init => ReportInv
BY NoFrameType DEF Init, ReportInv, IdsInOrder, OneReturnPerAttempt, NoEarlyReturn,
  DispatchedSendReports, Before, Out

THEOREM ReportInvariant == Spec => []ReportInv
<1>1. TypeOK /\ TypeOK' /\ ReportInv /\ [Next]_vars => ReportInv'
  BY ReportStep
<1> QED
  BY <1>1, ReportInit, TypeCorrect, PTL DEF Spec

(* Every attempt reports at most once, and none while it is out or after a *)
(* retry replaced it, whatever the retries and the loops.                  *)
THEOREM OneReplyPerSend == Spec => []OneTerminalReply
<1>1. ReportInv => OneTerminalReply
  BY DEF ReportInv, OneTerminalReply
<1> QED
  BY <1>1, ReportInvariant, PTL

(* A dispatched send of a living plugin never ends in silence. *)
THEOREM NoSendIsSilent == Spec => []DispatchedSendReports
<1>1. ReportInv => DispatchedSendReports
  BY DEF ReportInv
<1> QED
  BY <1>1, ReportInvariant, PTL

(* One report per send, neither more nor less. *)
THEOREM SendsReportOnce == Spec => []OneReportPerSend
<1>1. OneTerminalReply /\ DispatchedSendReports => OneReportPerSend
  BY DEF OneReportPerSend
<1> QED
  BY <1>1, OneReplyPerSend, NoSendIsSilent, PTL

----------------------------------------------------------------------------
(* The flags implement the abstract lock, step by step.                    *)

Working == {frame[l].key : l \in {m \in Loop : Active(m)}}
Demand == {k \in Key : wanted[k]}

LEMMA CoalescerInit == Init => Promise!CInit
BY DEF Init, Promise!CInit, Active

LEMMA MovesCoalesces ==
  ASSUME LockInv, NEW l \in Loop, Active(l), Moves(l), UNCHANGED world
  PROVE [Promise!CNext]_(Promise!cvars)
<1>0. PICK k \in Key : k = frame[l].key
  BY DEF LockInv, TypeOK, Frame
<1>1. \A m \in Loop : frame'[m].key = frame[m].key /\ (Active(m)' <=> Active(m))
  BY DEF Moves, LockInv, TypeOK, Active, Await
<1>2. Working' = Working
  BY <1>1 DEF Working
<1>3. CASE wanted' = wanted
  BY <1>2, <1>3 DEF Working, Demand, Promise!cvars, world
<1>4. CASE wanted' = [wanted EXCEPT ![frame[l].key] = FALSE]
  <2>1. Demand' = Demand \ {k}
    BY <1>0, <1>4 DEF Demand, LockInv, TypeOK
  <2>2. k \in Working
    BY <1>0 DEF Working
  <2>3. CASE k \in Demand
    <3>1. Promise!Again(k)
      BY <1>2, <2>1, <2>2, <2>3 DEF Working, Demand, Promise!Again, world
    <3> QED
      BY <1>0, <3>1 DEF Promise!CNext
  <2>4. CASE k \notin Demand
    BY <1>2, <2>1, <2>4 DEF Working, Demand, Promise!cvars, world
  <2> QED
    BY <2>3, <2>4
<1> QED
  BY <1>3, <1>4 DEF Moves

LEMMA LeavesCoalesces ==
  ASSUME LockInv, NEW l \in Loop, Active(l), Departs(l), UNCHANGED world
  PROVE Promise!CNext
<1>0. PICK k \in Key : k = frame[l].key /\ k \in Working
  BY DEF LockInv, TypeOK, Frame, Working
<1>1. \A m \in Loop : /\ Active(m)' <=> m # l /\ Active(m)
                      /\ m # l => frame'[m] = frame[m]
  BY DEF Departs, Free, Park, LockInv, TypeOK, Active
<1>2. \A m \in Loop : Active(m) /\ m # l => frame[m].key # k
  BY <1>0 DEF LockInv, SingleFlight
<1>3. Working' = Working \ {k}
  BY <1>0, <1>1, <1>2 DEF Working
<1>4. Demand' = Demand
  BY DEF Departs, Demand
<1>5. CASE stopping
  <2>1. Promise!Abandon(k)
    BY <1>0, <1>3, <1>4, <1>5 DEF Working, Demand, Promise!Abandon, world
  <2> QED
    BY <1>0, <2>1 DEF Promise!CNext
<1>6. CASE ~stopping
  <2>1. k \notin Demand
    BY <1>0, <1>6 DEF Departs, Demand, LockInv, NoForgottenTrigger
  <2>2. Promise!Rest(k)
    BY <1>0, <1>3, <1>4, <2>1 DEF Working, Demand, Promise!Rest, world
  <2> QED
    BY <1>0, <2>2 DEF Promise!CNext
<1> QED
  BY <1>5, <1>6

LEMMA TriggerIdleCoalesces ==
  ASSUME LockInv, NEW k \in Key, NEW l \in Loop, TriggerIdle(k, l)
  PROVE Promise!Serve(k)
<1>1. /\ \E p \in Await : pc' = [pc EXCEPT ![l] = p]
      /\ frame' = [frame EXCEPT ![l] = NewFrame(k)]
      /\ wanted' = [wanted EXCEPT ![k] = FALSE]
      /\ pc[l] = "free" /\ ~inFlight[k] /\ ~stopping /\ stopping' = stopping
  BY DEF TriggerIdle, BeginSend, Park, Await
<1>2. NewFrame(k).key = k
  BY DEF NewFrame
<1>3. /\ Active(l)' /\ frame'[l].key = k /\ ~Active(l)
      /\ \A m \in Loop : m # l => (Active(m)' <=> Active(m)) /\ frame'[m] = frame[m]
  BY <1>1, <1>2 DEF LockInv, TypeOK, Active, Await
<1>4. Working' = Working \cup {k}
  BY <1>3 DEF Working
<1>5. k \notin Working
  BY <1>1 DEF Working, LockInv, LockFollowsLoop
<1>6. Demand' = Demand
  <2>1. ~wanted[k]
    BY <1>1 DEF LockInv, NoForgottenTrigger
  <2> QED
    BY <1>1, <2>1 DEF Demand, LockInv, TypeOK
<1> QED
  BY <1>1, <1>4, <1>5, <1>6 DEF Working, Demand, Promise!Serve

LEMMA TriggerBusyCoalesces ==
  ASSUME LockInv, NEW k \in Key, TriggerBusy(k)
  PROVE Promise!Remember(k)
<1>1. k \in Working
  BY DEF TriggerBusy, LockInv, LockFollowsLoop, Working
<1>2. Working' = Working
  BY DEF TriggerBusy, Working, Active
<1>3. Demand' = Demand \cup {k}
  BY DEF TriggerBusy, Demand, LockInv, TypeOK
<1> QED
  BY <1>1, <1>2, <1>3 DEF TriggerBusy, Working, Demand, Promise!Remember

LEMMA CoalescerStep == LockInv /\ [Next]_vars => [Promise!CNext]_(Promise!cvars)
<1> SUFFICES ASSUME LockInv, [Next]_vars PROVE [Promise!CNext]_(Promise!cvars)
  OBVIOUS
<1>1. CASE UNCHANGED vars
  BY <1>1 DEF vars, Active, Promise!cvars
<1>2. CASE ComposeRegistered \/ ComposeUnregistered
  BY <1>2 DEF ComposeRegistered, ComposeUnregistered, Active, Promise!cvars, lock
<1>3. CASE Teardown
  <2>1. Promise!Close
    BY <1>3 DEF Teardown, Active, lock, Promise!Close
  <2> QED
    BY <2>1 DEF Promise!CNext
<1>4. ASSUME NEW k \in Key, TriggerBusy(k) PROVE Promise!CNext
  BY <1>4, TriggerBusyCoalesces DEF Promise!CNext
<1>5. ASSUME NEW k \in Key, NEW l \in Loop, TriggerIdle(k, l) PROVE Promise!CNext
  BY <1>5, TriggerIdleCoalesces DEF Promise!CNext
<1>6. ASSUME NEW l \in Loop, Step(l) PROVE [Promise!CNext]_(Promise!cvars)
  BY <1>6, StepShape, MovesCoalesces, LeavesCoalesces DEF LockInv
<1> QED
  BY <1>1, <1>2, <1>3, <1>4, <1>5, <1>6 DEF Next, Environment

(* The safety part of Coalesces, for every value of the constants: llm-core's *)
(* flags, loops and awaits implement the coalescing lock.                  *)
THEOREM ImplementsCoalescer ==
  Spec => Promise!CInit /\ [][Promise!CNext]_(Promise!cvars)
BY CoalescerInit, CoalescerStep, LockInvariant, PTL DEF Spec

----------------------------------------------------------------------------
(* After teardown nothing is announced, however many awaits were open.     *)

LEMMA StepQuiet ==
  ASSUME stopping, NEW l \in Loop, Step(l)
  PROVE UNCHANGED <<sent, returned, output>>
<1>1. ASSUME Dispatch(l) \/ Throw(l) \/ EndSend(l) \/ (\E est \in Estimate : Settle(l, est))
      PROVE UNCHANGED <<sent, returned>> /\ (EndSend(l) \/ Throw(l) => output' = output)
  BY <1>1 DEF Dispatch, Throw, EndSend, Settle, bus
<1>2. CASE Composed(l) \/ Listed(l) \/ Recomposed(l) \/ RetryComposed(l)
  BY <1>1, <1>2 DEF Composed, Listed, Recomposed, RetryComposed
<1>3. CASE ComposeFailed(l) \/ ToolsListed(l) \/ ChatOverflow(l) \/ RetryComposeFailed(l)
  BY <1>1, <1>3 DEF ComposeFailed, ToolsListed, ChatOverflow, RetryComposeFailed, Throw, bus
<1>4. CASE ChatOk(l) \/ ChatFailed(l)
  BY <1>4 DEF ChatOk, ChatFailed, Report
<1>5. CASE LoopAgain(l) \/ LoopEnd(l)
  BY <1>5 DEF LoopAgain, LoopEnd, bus
<1> QED
  BY <1>2, <1>3, <1>4, <1>5 DEF Step

THEOREM TeardownSilences == Spec => QuietAfterTeardown
<1>1. [Next]_vars => [stopping => UNCHANGED <<sent, returned, output>>]_vars
  <2> SUFFICES ASSUME Next, stopping PROVE UNCHANGED <<sent, returned, output>>
    OBVIOUS
  <2> QED
    BY StepQuiet DEF Next, Environment, ComposeRegistered, ComposeUnregistered, Teardown,
      TriggerBusy, TriggerIdle, bus
<1> QED
  BY <1>1, PTL DEF Spec, QuietAfterTeardown
=============================================================================
