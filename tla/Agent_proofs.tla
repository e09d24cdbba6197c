-------------------------- MODULE Agent_proofs --------------------------
(***************************************************************************)
(* The agents of a runtime and the parts of one, for every value of the     *)
(* constants: the life of agents (LifeInv, ExitInv), the loader (LInv), the *)
(* prompt (PInv), the dispatch (DInv), the log on the bus (MInv) and the    *)
(* gateway (GInv), each from the steps of its own specification, and then   *)
(* all of them side by side as the agents run (AgentInv).                  *)
(*                                                                         *)
(* LifeInv ties the flags of an agent to the stage its start() has reached; *)
(* it needs no assumption on when stops come.  ExitInv adds what is true   *)
(* as long as a single request has arrived, after boot.                    *)
(***************************************************************************)
EXTENDS MCAgent, SequenceTheorems, FiniteSetTheorems, WellFoundedInduction, TLAPS

FlagsFollowStage ==
  \A a \in Agent :
    /\ running[a] <=> stage[a] = "up"
    /\ started[a] <=> stage[a] # "new"
    /\ stopped[a] => started[a]
    /\ clockOn[a] => stage[a] = "up" /\ ~stopped[a]
    /\ orchestrating[a] => stage[a] = "failed" \/ (stage[a] = "up" /\ ~stopped[a])
    /\ restartable[a] => started[a] /\ ~stopped[a]
    /\ teardown[a] # "none" => stage[a] \in {"unloading", "up", "stillborn"}
    /\ teardown[a] = "done" => ~held[a]
    /\ stage[a] = "up" => (stopped[a] <=> teardown[a] # "none")

LifeInv == TypeOK /\ FlagsFollowStage

LEMMA LifeInit == Init => LifeInv
<1> SUFFICES ASSUME Init PROVE LifeInv
  OBVIOUS
<1>1. 1 \in 1..(AgentCount + 1) /\ {} \in SUBSET (1..0)
  BY AgentCountAssumption
<1>2. TypeOK
  BY <1>1 DEF Init, TypeOK, No, Stage
<1> QED
  BY <1>2 DEF Init, LifeInv, FlagsFollowStage, No

(* stop() on any set of agents, a step of a request or of boot. *)
LEMMA StopAllKeeps ==
  ASSUME LifeInv, NEW A \in SUBSET Agent, StopAll(A),
         UNCHANGED <<started, running, stage, held>>
  PROVE /\ FlagsFollowStage'
        /\ stopped' \in [Agent -> BOOLEAN]
        /\ clockOn' \in [Agent -> BOOLEAN]
        /\ orchestrating' \in [Agent -> BOOLEAN]
        /\ restartable' \in [Agent -> BOOLEAN]
        /\ teardown' \in [Agent -> {"none", "under way", "done"}]
<1>1. /\ stopped' = [a \in Agent |-> stopped[a] \/ a \in Stoppable(A)]
      /\ restartable' = [a \in Agent |-> restartable[a] /\ a \notin Stoppable(A)]
      /\ clockOn' = [a \in Agent |-> clockOn[a] /\ a \notin TornDownByStop(A)]
      /\ orchestrating' = [a \in Agent |-> orchestrating[a] /\ a \notin TornDownByStop(A)]
      /\ teardown' = [a \in Agent |-> IF a \in TornDownByStop(A) THEN "under way" ELSE teardown[a]]
  BY DEF StopAll, Without
<1>2. /\ stopped' \in [Agent -> BOOLEAN] /\ restartable' \in [Agent -> BOOLEAN]
      /\ clockOn' \in [Agent -> BOOLEAN] /\ orchestrating' \in [Agent -> BOOLEAN]
  BY <1>1 DEF LifeInv, TypeOK
<1>3. teardown' \in [Agent -> {"none", "under way", "done"}]
  BY <1>1 DEF LifeInv, TypeOK
<1>4. FlagsFollowStage'
  <2> SUFFICES ASSUME NEW a \in Agent
               PROVE /\ running'[a] <=> stage'[a] = "up"
                     /\ started'[a] <=> stage'[a] # "new"
                     /\ stopped'[a] => started'[a]
                     /\ clockOn'[a] => stage'[a] = "up" /\ ~stopped'[a]
                     /\ orchestrating'[a] => \/ stage'[a] = "failed"
                                             \/ stage'[a] = "up" /\ ~stopped'[a]
                     /\ restartable'[a] => started'[a] /\ ~stopped'[a]
                     /\ teardown'[a] # "none" => stage'[a] \in {"unloading", "up", "stillborn"}
                     /\ teardown'[a] = "done" => ~held'[a]
                     /\ stage'[a] = "up" => (stopped'[a] <=> teardown'[a] # "none")
    BY DEF FlagsFollowStage
  <2>1. CASE a \in TornDownByStop(A)
    BY <1>1, <2>1 DEF LifeInv, FlagsFollowStage, TornDownByStop, Stoppable
  <2>2. CASE a \in Stoppable(A) /\ a \notin TornDownByStop(A)
    BY <1>1, <2>2 DEF LifeInv, FlagsFollowStage, TornDownByStop, Stoppable
  <2>3. CASE a \notin Stoppable(A)
    BY <1>1, <2>3 DEF LifeInv, FlagsFollowStage, TornDownByStop, Stoppable
  <2> QED
    BY <2>1, <2>2, <2>3
<1> QED
  BY <1>2, <1>3, <1>4

LEMMA StartAgentKeeps ==
  ASSUME LifeInv, NEW a \in Agent, StartAgent(a)
  PROVE LifeInv'
<1>1. TypeOK'
  BY DEF LifeInv, StartAgent, TypeOK, Stage, boot, requests
<1>2. FlagsFollowStage'
  BY ZenonT(60) DEF LifeInv, StartAgent, TypeOK, FlagsFollowStage
<1> QED
  BY <1>1, <1>2 DEF LifeInv

LEMMA PluginSetUpKeeps ==
  ASSUME LifeInv, NEW a \in Agent, PluginSetUp(a)
  PROVE LifeInv'
<1>1. TypeOK'
  BY DEF LifeInv, PluginSetUp, TypeOK, boot, requests, flags, parts
<1>2. FlagsFollowStage'
  BY ZenonT(60) DEF LifeInv, PluginSetUp, TypeOK, FlagsFollowStage, flags, parts
<1> QED
  BY <1>1, <1>2 DEF LifeInv

LEMMA LoadedAfterStopKeeps ==
  ASSUME LifeInv, NEW a \in Agent, LoadedAfterStop(a)
  PROVE LifeInv'
<1>1. TypeOK'
  BY DEF LifeInv, LoadedAfterStop, TypeOK, Stage, boot, requests, flags, parts
<1>2. FlagsFollowStage'
  BY ZenonT(60) DEF LifeInv, LoadedAfterStop, TypeOK, FlagsFollowStage, flags, parts
<1> QED
  BY <1>1, <1>2 DEF LifeInv

LEMMA LoadedKeeps ==
  ASSUME LifeInv, NEW a \in Agent, Loaded(a)
  PROVE LifeInv'
<1>1. TypeOK'
  BY DEF LifeInv, Loaded, TypeOK, Stage, boot, requests
<1>2. FlagsFollowStage'
  BY ZenonT(60) DEF LifeInv, Loaded, TypeOK, FlagsFollowStage
<1> QED
  BY <1>1, <1>2 DEF LifeInv

LEMMA LoadedWithClashKeeps ==
  ASSUME LifeInv, NEW a \in Agent, LoadedWithClash(a)
  PROVE LifeInv'
<1>1. TypeOK'
  BY DEF LifeInv, LoadedWithClash, TypeOK, Stage, boot, requests, flags
<1>2. FlagsFollowStage'
  BY ZenonT(60) DEF LifeInv, LoadedWithClash, TypeOK, FlagsFollowStage, flags
<1> QED
  BY <1>1, <1>2 DEF LifeInv

LEMMA TeardownEndsKeeps ==
  ASSUME LifeInv, NEW a \in Agent, TeardownEnds(a)
  PROVE LifeInv'
<1>1. TypeOK'
  BY DEF LifeInv, TeardownEnds, TypeOK, Stage, boot, requests, flags, parts
<1>2. /\ teardown[a] = "under way"
      /\ teardown' = [teardown EXCEPT ![a] = "done"]
      /\ held' = [held EXCEPT ![a] = FALSE]
      /\ stage' = [stage EXCEPT ![a] = IF @ = "unloading" THEN "stillborn" ELSE @]
  BY DEF TeardownEnds
<1>3. /\ started' = started /\ stopped' = stopped /\ running' = running
      /\ clockOn' = clockOn /\ orchestrating' = orchestrating /\ restartable' = restartable
  BY DEF TeardownEnds, flags, parts
<1>4. /\ teardown \in [Agent -> {"none", "under way", "done"}]
      /\ held \in [Agent -> BOOLEAN]
      /\ stage \in [Agent -> Stage]
  BY DEF LifeInv, TypeOK
<1>5. FlagsFollowStage
  BY DEF LifeInv
<1>6. ASSUME NEW b \in Agent, b # a
      PROVE teardown'[b] = teardown[b] /\ held'[b] = held[b] /\ stage'[b] = stage[b]
  BY <1>2, <1>4, <1>6
<1>7. /\ teardown'[a] = "done" /\ ~held'[a]
      /\ stage[a] = "unloading" => stage'[a] = "stillborn"
      /\ stage[a] # "unloading" => stage'[a] = stage[a]
  BY <1>2, <1>4
<1>8. FlagsFollowStage'
  <2> SUFFICES ASSUME NEW b \in Agent
               PROVE /\ running'[b] <=> stage'[b] = "up"
                     /\ started'[b] <=> stage'[b] # "new"
                     /\ stopped'[b] => started'[b]
                     /\ clockOn'[b] => stage'[b] = "up" /\ ~stopped'[b]
                     /\ orchestrating'[b] => \/ stage'[b] = "failed"
                                             \/ stage'[b] = "up" /\ ~stopped'[b]
                     /\ restartable'[b] => started'[b] /\ ~stopped'[b]
                     /\ teardown'[b] # "none" => stage'[b] \in {"unloading", "up", "stillborn"}
                     /\ teardown'[b] = "done" => ~held'[b]
                     /\ stage'[b] = "up" => (stopped'[b] <=> teardown'[b] # "none")
    BY DEF FlagsFollowStage
  <2>1. CASE b # a
    BY <2>1, <1>3, <1>5, <1>6 DEF FlagsFollowStage
  <2>2. CASE b = a
    BY <2>2, <1>2, <1>3, <1>5, <1>7 DEF FlagsFollowStage
  <2> QED
    BY <2>1, <2>2
<1> QED
  BY <1>1, <1>8 DEF LifeInv

LEMMA NextAgentType ==
  ASSUME TypeOK, NEW a \in Agent, a = nextAgent
  PROVE /\ nextAgent + 1 \in 1..(AgentCount + 1)
        /\ handles \cup {a} \in SUBSET (1..((nextAgent + 1) - 1))
        /\ handles \in SUBSET (1..((nextAgent + 1) - 1))
<1>1. nextAgent \in Nat /\ 1 <= nextAgent /\ nextAgent <= AgentCount /\ AgentCount \in Nat
  BY AgentCountAssumption DEF Agent
<1>2. handles \subseteq 1..(nextAgent - 1)
  BY DEF TypeOK
<1>3. 1..(nextAgent - 1) \subseteq 1..((nextAgent + 1) - 1) /\ a \in 1..((nextAgent + 1) - 1)
  BY <1>1
<1> QED
  BY <1>1, <1>2, <1>3

LEMMA HandlesAreAgents == TypeOK => handles \in SUBSET Agent
<1> SUFFICES ASSUME TypeOK PROVE handles \subseteq Agent
  OBVIOUS
<1>1. handles \subseteq 1..(nextAgent - 1) /\ nextAgent \in 1..(AgentCount + 1)
  BY DEF TypeOK
<1>2. 1..(nextAgent - 1) \subseteq 1..AgentCount
  BY <1>1, AgentCountAssumption
<1> QED
  BY <1>1, <1>2 DEF Agent

LEMMA BootKeepsKeeps ==
  ASSUME LifeInv, NEW a \in Agent, BootKeeps(a)
  PROVE LifeInv'
<1>1. TypeOK'
  BY NextAgentType DEF LifeInv, BootKeeps, TypeOK, requests, flags, parts
<1>2. FlagsFollowStage'
  BY DEF LifeInv, BootKeeps, FlagsFollowStage, flags, parts
<1> QED
  BY <1>1, <1>2 DEF LifeInv

LEMMA BootSkipsKeeps ==
  ASSUME LifeInv, NEW a \in Agent, BootSkips(a)
  PROVE LifeInv'
<1>1. {a} \in SUBSET Agent
  OBVIOUS
<1>2. /\ FlagsFollowStage'
      /\ stopped' \in [Agent -> BOOLEAN]
      /\ clockOn' \in [Agent -> BOOLEAN]
      /\ orchestrating' \in [Agent -> BOOLEAN]
      /\ restartable' \in [Agent -> BOOLEAN]
      /\ teardown' \in [Agent -> {"none", "under way", "done"}]
  BY <1>1, StopAllKeeps DEF BootSkips
<1>3. TypeOK'
  BY <1>2, NextAgentType DEF LifeInv, BootSkips, TypeOK, requests
<1> QED
  BY <1>2, <1>3 DEF LifeInv

LEMMA RequestKeeps ==
  ASSUME LifeInv, NEW s \in Stopper, Restart(s) \/ Signal(s)
  PROVE LifeInv'
<1>1. /\ StopAll(handles)
      /\ UNCHANGED <<started, running, stage, held, boot, exited>>
      /\ awaited' = [awaited EXCEPT ![s] = TornDownByStop(handles)]
      /\ Interferes
      /\ request' = [request EXCEPT ![s] = "stopping"] \/ request' = [request EXCEPT ![s] = "settling"]
  BY DEF Restart, Signal
<1>2. handles \in SUBSET Agent
  BY HandlesAreAgents DEF LifeInv
<1>3. /\ FlagsFollowStage'
      /\ stopped' \in [Agent -> BOOLEAN]
      /\ clockOn' \in [Agent -> BOOLEAN]
      /\ orchestrating' \in [Agent -> BOOLEAN]
      /\ restartable' \in [Agent -> BOOLEAN]
      /\ teardown' \in [Agent -> {"none", "under way", "done"}]
  BY <1>1, <1>2, StopAllKeeps
<1>4. TornDownByStop(handles) \in SUBSET Agent
  BY <1>2 DEF TornDownByStop, Stoppable
<1>5. TypeOK'
  BY <1>1, <1>3, <1>4 DEF LifeInv, TypeOK, boot, Interferes
<1> QED
  BY <1>3, <1>5 DEF LifeInv

LEMMA DirectStopKeeps ==
  ASSUME LifeInv, NEW a \in Agent, DirectStop(a)
  PROVE LifeInv'
<1>1. {a} \in SUBSET Agent
  OBVIOUS
<1>2. /\ FlagsFollowStage'
      /\ stopped' \in [Agent -> BOOLEAN]
      /\ clockOn' \in [Agent -> BOOLEAN]
      /\ orchestrating' \in [Agent -> BOOLEAN]
      /\ restartable' \in [Agent -> BOOLEAN]
      /\ teardown' \in [Agent -> {"none", "under way", "done"}]
  BY <1>1, StopAllKeeps DEF DirectStop
<1>3. TypeOK'
  BY <1>2 DEF LifeInv, DirectStop, TypeOK, requests, boot
<1> QED
  BY <1>2, <1>3 DEF LifeInv

LEMMA ExitKeeps ==
  ASSUME LifeInv, NEW s \in Stopper, Exit(s)
  PROVE LifeInv'
BY DEF LifeInv, Exit, TypeOK, FlagsFollowStage, flags, parts, boot, requests

LEMMA LifeStep == LifeInv /\ [Next]_vars => LifeInv'
<1> SUFFICES ASSUME LifeInv, [Next]_vars PROVE LifeInv'
  OBVIOUS
<1>1. CASE UNCHANGED vars
  BY <1>1 DEF vars, LifeInv, TypeOK, FlagsFollowStage
<1>2. ASSUME NEW a \in Agent, AgentStep(a) PROVE LifeInv'
  BY <1>2, StartAgentKeeps, PluginSetUpKeeps, LoadedAfterStopKeeps, LoadedKeeps,
    LoadedWithClashKeeps, TeardownEndsKeeps, BootKeepsKeeps, BootSkipsKeeps DEF AgentStep
<1>3. ASSUME NEW a \in Agent, DirectStop(a) PROVE LifeInv'
  BY <1>3, DirectStopKeeps
<1>4. ASSUME NEW s \in Stopper, Restart(s) \/ Signal(s) \/ Exit(s) PROVE LifeInv'
  BY <1>4, RequestKeeps, ExitKeeps
<1> QED
  BY <1>1, <1>2, <1>3, <1>4 DEF Next

THEOREM LifeInvariant == Spec => []LifeInv
BY LifeInit, LifeStep, PTL DEF Spec

(* The flags, handles and requests keep their types; boot only ever holds   *)
(* the handles of agents it has moved past.                                *)
THEOREM TypeCorrect == Spec => []TypeOK
<1>1. LifeInv => TypeOK
  BY DEF LifeInv
<1> QED
  BY <1>1, LifeInvariant, PTL

(* However a stop and a start interleave, a stopped agent is quiet. *)
THEOREM StoppedIsQuiet == Spec => []QuietWhenStopped
<1>1. LifeInv => QuietWhenStopped
  BY DEF LifeInv, FlagsFollowStage, QuietWhenStopped
<1> QED
  BY <1>1, LifeInvariant, PTL

(* No plugin is torn down while the loader is still setting plugins up. *)
THEOREM LoadOwnsItsTeardown == Spec => []NoTeardownUnderLoad
<1>1. LifeInv => NoTeardownUnderLoad
  BY DEF LifeInv, FlagsFollowStage, NoTeardownUnderLoad
<1> QED
  BY <1>1, LifeInvariant, PTL

----------------------------------------------------------------------------
(* One request, after boot: the exit waits for every running agent.        *)

ExitInv ==
  /\ \A a \in Agent :
       /\ a < nextAgent => stage[a] \in {"up", "failed"}
       /\ a > nextAgent => stage[a] = "new"
       /\ stage[a] \notin {"unloading", "stillborn"}
       /\ ~BootDone /\ stopped[a] => stage[a] = "failed"
       /\ a \in handles => stage[a] = "up"
  /\ (\A s \in Stopper : request[s] = "unused") =>
       \A a \in Agent : stopped[a] => stage[a] = "failed"
  /\ \A s \in Stopper : request[s] # "unused" => BootDone /\ handles \subseteq awaited[s]
  /\ exited => \E s \in Stopper : request[s] # "unused" /\ StopsSettled(s)

LEMMA ExitInvInit == Init => ExitInv
BY DEF Init, ExitInv, No, Agent, BootDone

LEMMA Numbers ==
  ASSUME LifeInv, NEW a \in Agent
  PROVE nextAgent \in Nat /\ AgentCount \in Nat /\ a \in Nat /\ a <= AgentCount
<1>1. nextAgent \in 1..(AgentCount + 1)
  BY DEF LifeInv, TypeOK
<1> QED
  BY <1>1, AgentCountAssumption DEF Agent

(* An agent that is loading is the one boot is starting. *)
LEMMA LoadingIsNext ==
  ASSUME LifeInv, ExitInv, NEW a \in Agent, stage[a] = "loading"
  PROVE a = nextAgent /\ ~BootDone /\ ~stopped[a]
<1>1. a \in Nat /\ a <= AgentCount /\ AgentCount \in Nat /\ nextAgent \in Nat
  BY Numbers
<1>2. a = nextAgent
  BY <1>1 DEF ExitInv
<1>3. ~BootDone
  BY <1>1, <1>2 DEF BootDone
<1> QED
  BY <1>2, <1>3 DEF ExitInv

(* boot's own steps. *)
LEMMA AgentStepKeepsExit ==
  ASSUME LifeInv, ExitInv, NEW a \in Agent, AgentStep(a)
  PROVE ExitInv'
<1>0. nextAgent \in Nat /\ AgentCount \in Nat /\ a \in Nat /\ a <= AgentCount
  BY Numbers
<1>1. CASE StartAgent(a)
  <2>1. /\ stage' = [stage EXCEPT ![a] = "loading"] /\ stage[a] = "new" /\ a = nextAgent
        /\ UNCHANGED <<stopped, teardown, nextAgent, handles, request, awaited, exited>>
    BY <1>1 DEF StartAgent, boot, requests
  <2>2. \A b \in Agent : b # a => stage'[b] = stage[b]
    BY <2>1 DEF LifeInv, TypeOK
  <2>3. stage'[a] = "loading" /\ a \notin handles /\ ~stopped[a]
    BY <2>1 DEF LifeInv, TypeOK, ExitInv, FlagsFollowStage
  <2> QED
    BY <1>0, <2>1, <2>2, <2>3 DEF ExitInv, BootDone, StopsSettled
<1>2. CASE PluginSetUp(a)
  BY <1>2 DEF PluginSetUp, ExitInv, BootDone, StopsSettled, flags, parts, boot, requests
<1>3. CASE LoadedAfterStop(a)
  BY <1>3, LoadingIsNext DEF LoadedAfterStop
<1>4. CASE Loaded(a) \/ LoadedWithClash(a)
  <2>1. /\ stage[a] = "loading"
        /\ stage' = [stage EXCEPT ![a] = "up"] \/ stage' = [stage EXCEPT ![a] = "failed"]
        /\ UNCHANGED <<stopped, teardown, nextAgent, handles, request, awaited, exited>>
    BY <1>4 DEF Loaded, LoadedWithClash, boot, requests, flags
  <2>2. a = nextAgent /\ ~stopped[a] /\ a \notin handles
    BY <2>1, LoadingIsNext DEF ExitInv
  <2>3. /\ stage'[a] \in {"up", "failed"}
        /\ \A b \in Agent : b # a => stage'[b] = stage[b]
    BY <2>1 DEF LifeInv, TypeOK
  <2> QED
    BY <1>0, <2>1, <2>2, <2>3 DEF ExitInv, BootDone, StopsSettled
<1>5. CASE TeardownEnds(a)
  <2>1. stage' = stage
    BY <1>5 DEF TeardownEnds, ExitInv, LifeInv, TypeOK
  <2>2. \A b \in Agent : teardown[b] = "done" => teardown'[b] = "done"
    BY <1>5 DEF TeardownEnds, LifeInv, TypeOK
  <2>3. \A s \in Stopper : StopsSettled(s) => StopsSettled(s)'
    BY <1>5, <2>2 DEF TeardownEnds, StopsSettled, LifeInv, TypeOK, requests
  <2> QED
    BY <1>5, <2>1, <2>3 DEF TeardownEnds, ExitInv, BootDone, flags, boot, requests
<1>6. CASE BootKeeps(a)
  <2>1. /\ a = nextAgent /\ stage[a] = "up"
        /\ handles' = handles \cup {a} /\ nextAgent' = nextAgent + 1
        /\ UNCHANGED <<stopped, teardown, stage, request, awaited, exited>>
    BY <1>6 DEF BootKeeps, ExitInv, flags, requests
  <2>2. ~BootDone
    BY <1>0, <2>1 DEF BootDone
  <2>3. \A s \in Stopper : request[s] = "unused"
    BY <2>2 DEF ExitInv, LifeInv, TypeOK
  <2>4. \A b \in Agent : b \in Nat
    BY DEF Agent
  <2>5. /\ \A b \in Agent : b < nextAgent' => stage[b] \in {"up", "failed"}
        /\ \A b \in Agent : b > nextAgent' => stage[b] = "new"
    <3>1. /\ \A b \in Agent : b < nextAgent => stage[b] \in {"up", "failed"}
          /\ \A b \in Agent : b > nextAgent => stage[b] = "new"
      BY DEF ExitInv
    <3>2. \A b \in Agent : b < nextAgent' => b < nextAgent \/ b = nextAgent
      BY <1>0, <2>1, <2>4
    <3>3. \A b \in Agent : b > nextAgent' => b > nextAgent
      BY <1>0, <2>1, <2>4
    <3> QED
      BY <2>1, <3>1, <3>2, <3>3
  <2>6. \A b \in Agent : b \in handles' => stage[b] = "up"
    BY <2>1 DEF ExitInv
  <2>7. ~exited
    BY <2>3 DEF ExitInv
  <2> QED
    BY <2>1, <2>2, <2>3, <2>5, <2>6, <2>7 DEF ExitInv
<1>7. CASE BootSkips(a)
  <2>1. /\ a = nextAgent /\ stage[a] = "failed" /\ nextAgent' = nextAgent + 1
        /\ UNCHANGED <<stage, handles, request, awaited, exited>>
        /\ \A b \in Agent : stopped'[b] => stopped[b] \/ b = a
    BY <1>7 DEF BootSkips, requests, StopAll, Stoppable
  <2>2. ~BootDone
    BY <1>0, <2>1 DEF BootDone
  <2>3. \A s \in Stopper : request[s] = "unused"
    BY <2>2 DEF ExitInv, LifeInv, TypeOK
  <2>4. \A b \in Agent : b \in Nat
    BY DEF Agent
  <2> QED
    BY <1>0, <2>1, <2>2, <2>3, <2>4 DEF ExitInv, BootDone
<1> QED
  BY <1>1, <1>2, <1>3, <1>4, <1>5, <1>6, <1>7 DEF AgentStep

LEMMA RequestKeepsExit ==
  ASSUME LifeInv, ExitInv, interference' = {},
         NEW s \in Stopper, Restart(s) \/ Signal(s)
  PROVE ExitInv'
<1>0. BootDone /\ \A t \in Stopper : request[t] = "unused"
  BY DEF Restart, Signal, Interferes
<1>1. /\ BootDone /\ ~exited
      /\ request[s] = "unused" /\ request'[s] # "unused"
      /\ awaited'[s] = TornDownByStop(handles)
      /\ UNCHANGED <<stage, nextAgent, handles, exited>>
  BY <1>0 DEF Restart, Signal, LifeInv, TypeOK, boot
<1>2. handles \subseteq TornDownByStop(handles)
  <2> SUFFICES ASSUME NEW a \in handles PROVE a \in TornDownByStop(handles)
    OBVIOUS
  <2>1. a \in Agent /\ stage[a] = "up"
    BY HandlesAreAgents DEF LifeInv, ExitInv
  <2>2. ~stopped[a]
    BY <1>0, <2>1 DEF ExitInv
  <2> QED
    BY <2>1, <2>2 DEF LifeInv, FlagsFollowStage, TornDownByStop, Stoppable
<1>3. \A t \in Stopper : t # s => request'[t] = "unused"
  BY <1>0 DEF Restart, Signal, LifeInv, TypeOK
<1>4. \A a \in Agent : (~BootDone)' /\ stopped'[a] => stage'[a] = "failed"
  BY <1>1 DEF BootDone
<1>5. \A t \in Stopper : request'[t] # "unused" => BootDone' /\ handles' \subseteq awaited'[t]
  BY <1>1, <1>2, <1>3 DEF BootDone
<1>6. ~\A t \in Stopper : request'[t] = "unused"
  BY <1>1
<1>7. \A a \in Agent :
        /\ a < nextAgent' => stage'[a] \in {"up", "failed"}
        /\ a > nextAgent' => stage'[a] = "new"
        /\ stage'[a] \notin {"unloading", "stillborn"}
        /\ a \in handles' => stage'[a] = "up"
  BY <1>1 DEF ExitInv
<1>8. ~exited'
  BY <1>1
<1> QED
  BY <1>4, <1>5, <1>6, <1>7, <1>8 DEF ExitInv

LEMMA ExitStep ==
  LifeInv /\ (interference = {} => ExitInv) /\ [Next]_vars
    => (interference = {} => ExitInv)'
<1> SUFFICES ASSUME LifeInv, interference = {} => ExitInv, [Next]_vars, interference' = {}
             PROVE ExitInv'
  OBVIOUS
<1>0. interference = {}
  BY DEF Next, AgentStep, StartAgent, PluginSetUp, LoadedAfterStop, Loaded,
    LoadedWithClash, TeardownEnds, BootKeeps, BootSkips, DirectStop, Restart, Signal,
    Exit, Interferes, requests, vars
<1>1. CASE UNCHANGED vars
  BY <1>0, <1>1 DEF vars, ExitInv, BootDone, StopsSettled
<1>2. ASSUME NEW a \in Agent, AgentStep(a) PROVE ExitInv'
  BY <1>0, <1>2, AgentStepKeepsExit
<1>3. ASSUME NEW a \in Agent, DirectStop(a) PROVE ExitInv'
  BY <1>3 DEF DirectStop
<1>4. ASSUME NEW s \in Stopper, Restart(s) \/ Signal(s) PROVE ExitInv'
  BY <1>0, <1>4, RequestKeepsExit
<1>5. ASSUME NEW s \in Stopper, Exit(s) PROVE ExitInv'
  BY <1>0, <1>5 DEF Exit, ExitInv, BootDone, StopsSettled, flags, parts, boot, requests
<1> QED
  BY <1>1, <1>2, <1>3, <1>4, <1>5 DEF Next

(* With one restart or signal, after boot, the process exits only when the *)
(* plugins of every running agent have been torn down.  A second request   *)
(* breaks it: see the violation run.                                       *)
THEOREM ExitIsGraceful == Spec => []ExitAwaitsHandles
<1>1. LifeInv /\ (interference = {} => ExitInv) /\ [Next]_vars
        => (interference = {} => ExitInv)'
  BY ExitStep
<1>2. LifeInv /\ (interference = {} => ExitInv) => ExitAwaitsHandles
  BY HandlesAreAgents DEF LifeInv, ExitInv, FlagsFollowStage, ExitAwaitsHandles, StopsSettled
<1>3. Init => (interference = {} => ExitInv)
  BY ExitInvInit
<1> QED
  BY <1>1, <1>2, <1>3, LifeInvariant, PTL DEF Spec

(* A stop does not run into the load, leaves silence behind, and a graceful *)
(* exit waits for it.                                                      *)
THEOREM StopsAreOrderly == Spec => []StopIsOrderly
<1>1. QuietWhenStopped /\ NoTeardownUnderLoad /\ ExitAwaitsHandles => StopIsOrderly
  BY DEF StopIsOrderly
<1> QED
  BY <1>1, StoppedIsQuiet, LoadOwnsItsTeardown, ExitIsGraceful, PTL
----------------------------------------------------------------------------
(* The loader (Loader).                                                    *)

(* Where a plugin is: it waits for its import, for its setup, is in it, or  *)
(* is up; nowhere twice.                                                   *)
LPlaces ==
  /\ IsInjective(unread) /\ IsInjective(pending) /\ IsInjective(loaded)
  /\ ToSet(unread) \cap ToSet(pending) = {} /\ Up \cap ToSet(pending) = {}
  /\ current \notin Up \cup ToSet(pending)

LPhases ==
  /\ phase \in {"resolve", "import", "rejected"} =>
       loaded = <<>> /\ owner = [s \in Surface |-> Nobody] /\ \A p \in Plugin : skipped[p] # "unmet"
  /\ phase = "resolve" => pending = <<>>
  /\ phase # "sweep" => current = Nobody

(* What a setup has registered so far is the beginning of what it will, and *)
(* the actions of it are its own.                                          *)
Registering ==
  current # Nobody =>
    /\ Len(registered) <= Len(Traits(current).surfaces)
    /\ \A i \in DOMAIN registered : registered[i] = Traits(current).surfaces[i]
    /\ \A s \in ToSet(registered) \cap Action : owner[s] = current
    /\ \A s \in Surface : owner[s] = current => s \in ToSet(registered)
    /\ \A req \in Action \cap Traits(current).requires : owner[req] \in Up

OwnersAreUp == \A p \in Up : \A s \in Action \cap ToSet(Traits(p).surfaces) : owner[s] = p

(* Once a plugin was left out, all that wait will be.                      *)
Stuck ==
  phase \in {"sweep", "up"} /\ (\E p \in Plugin : skipped[p] = "unmet") =>
    /\ current = Nobody
    /\ \A i \in DOMAIN pending : ~Ready(pending[i])
    /\ \A p \in Plugin : skipped[p] = "unmet" => ~Ready(p)

LTyped ==
  /\ def \in Definition
  /\ phase \in {"resolve", "import", "sweep", "up", "rejected", "teardown", "down"}
  /\ unread \in Seq(Plugin) /\ pending \in Seq(Plugin) /\ loaded \in Seq(Plugin)
  /\ available \subseteq Plugin
  /\ current \in Plugin \cup {Nobody}
  /\ registered \in Seq(Surface)
  /\ owner \in [Surface -> Plugin \cup {Nobody}]
  /\ skipped \in [Plugin -> {"no", "import", "unmet", "setup"}]

LInv ==
  /\ LTyped /\ LPlaces /\ LPhases
  /\ Registering /\ OwnersAreUp /\ Stuck
  /\ NoLeak /\ ProvidersOutlive

(* The elements of a finite set by their rank in a strict order.           *)
Below(n, R, i) == {j \in n : <<j, i>> \in R \/ j = i}

LEMMA Ranks ==
  ASSUME NEW n, IsFiniteSet(n), NEW R,
         \A i \in n : <<i, i>> \notin R,
         \A i, j \in n : <<i, j>> \in R \/ <<j, i>> \in R \/ i = j,
         \A i, j, k \in n : <<i, j>> \in R /\ <<j, k>> \in R => <<i, k>> \in R
  PROVE  /\ Cardinality(n) \in Nat
         /\ \A i \in n : Cardinality(Below(n, R, i)) \in 1..Cardinality(n)
         /\ \A i, j \in n : <<i, j>> \in R => Cardinality(Below(n, R, i)) < Cardinality(Below(n, R, j))
         /\ \A k \in 1..Cardinality(n) : \E i \in n : Cardinality(Below(n, R, i)) = k
<1>1. ASSUME NEW i \in n
      PROVE  /\ Below(n, R, i) \in SUBSET n /\ i \in Below(n, R, i) /\ IsFiniteSet(Below(n, R, i))
             /\ Cardinality(Below(n, R, i)) \in Nat /\ Cardinality(n) \in Nat
             /\ Cardinality(Below(n, R, i)) >= 1 /\ Cardinality(Below(n, R, i)) <= Cardinality(n)
  <2> DEFINE below == Below(n, R, i)
  <2>1. below \in SUBSET n /\ i \in below
    BY DEF Below
  <2> HIDE DEF below
  <2>2. IsFiniteSet(below) /\ Cardinality(below) <= Cardinality(n)
    BY <2>1, FS_Subset
  <2>3. Cardinality(below) \in Nat /\ Cardinality(n) \in Nat
    BY <2>2, FS_CardinalityType
  <2>4. Cardinality(below) # 0
    BY <2>1, <2>2, FS_EmptySet
  <2> QED
    BY <2>1, <2>2, <2>3, <2>4 DEF below
<1>2. ASSUME NEW i \in n, NEW j \in n, <<i, j>> \in R
      PROVE  Cardinality(Below(n, R, i)) < Cardinality(Below(n, R, j))
  <2> DEFINE bi == Below(n, R, i)
             bj == Below(n, R, j)
  <2>1. bi \subseteq bj /\ j \in bj /\ j \notin bi
    BY <1>2 DEF Below
  <2>2. /\ IsFiniteSet(bj) /\ Cardinality(bi) \in Nat /\ Cardinality(bj) \in Nat
    BY <1>1
  <2> HIDE DEF bi, bj
  <2>3. Cardinality(bi) <= Cardinality(bj) /\ (Cardinality(bj) = Cardinality(bi) => bj = bi)
    BY <2>1, <2>2, FS_Subset
  <2>4. Cardinality(bi) < Cardinality(bj)
    BY <2>1, <2>2, <2>3
  <2> QED
    BY <2>4 DEF bi, bj
<1> DEFINE rank == [i \in n |-> Cardinality(Below(n, R, i))]
<1>3. Cardinality(n) \in Nat
  BY FS_CardinalityType
<1>4. \A i \in n : rank[i] \in 1..Cardinality(n)
  BY <1>1, <1>3
<1>5. \A i, j \in n : rank[i] = rank[j] => i = j
  <2> SUFFICES ASSUME NEW i \in n, NEW j \in n, i # j PROVE rank[i] # rank[j]
    OBVIOUS
  <2>1. rank[i] \in Nat /\ rank[j] \in Nat
    BY <1>1
  <2>2. rank[i] < rank[j] \/ rank[j] < rank[i]
    BY <1>2
  <2> QED
    BY <2>1, <2>2
<1>6. rank \in Injection(n, 1..Cardinality(n))
  BY <1>4, <1>5 DEF Injection, IsInjective
<1>7. IsFiniteSet(1..Cardinality(n)) /\ Cardinality(1..Cardinality(n)) = Cardinality(n)
  <2>1. 1 \in Int /\ Cardinality(n) \in Int
    BY <1>3
  <2>2. Cardinality(1..Cardinality(n)) = IF 1 > Cardinality(n) THEN 0 ELSE Cardinality(n) - 1 + 1
    BY <2>1, FS_Interval
  <2> QED
    BY <1>3, <2>1, <2>2, FS_Interval
<1>8. rank \in Surjection(n, 1..Cardinality(n))
  BY <1>6, <1>7, FS_Injection
<1>9. \A k \in 1..Cardinality(n) : \E i \in n : rank[i] = k
  BY <1>8 DEF Surjection
<1> QED
  BY <1>2, <1>3, <1>4, <1>9

(* What is left of a sequence when each element stays where it is first.   *)
LEMMA FirstOnes ==
  ASSUME NEW s \in Seq(Plugin)
  PROVE  FirstOccurrences(s) \in Seq(Plugin) /\ IsInjective(FirstOccurrences(s))
<1> DEFINE first == {i \in DOMAIN s : \A j \in 1..(i - 1) : s[j] # s[i]}
           R == {p \in Nat \X Nat : p[1] < p[2]}
           at(k) == CHOOSE i \in first : Cardinality({j \in first : j <= i}) = k
<1>1. DOMAIN s = 1..Len(s) /\ Len(s) \in Nat /\ first \subseteq 1..Len(s)
  BY LenProperties
<1>2. IsFiniteSet(first)
  <2>1. 1 \in Int /\ Len(s) \in Int
    BY <1>1
  <2>2. IsFiniteSet(1..Len(s))
    BY <2>1, FS_Interval
  <2> QED
    BY <1>1, <2>2, FS_Subset
<1>3. \A i, j \in first : s[i] = s[j] => i = j
  BY <1>1
<1>4. first \subseteq Nat
  BY <1>1
<1>5. \A k : at(k) = CHOOSE i \in first : Cardinality({j \in first : j <= i}) = k
  OBVIOUS
<1>6. FirstOccurrences(s) = [k \in 1..Cardinality(first) |-> s[at(k)]]
  BY DEF FirstOccurrences
<1>7. \A i \in first : s[i] \in Plugin
  BY <1>1
<1> HIDE DEF first
<1>r. \A i, j \in first : <<i, j>> \in R <=> i < j
  BY <1>4
<1> HIDE DEF R
<1>8. \A i \in first : {j \in first : j <= i} = Below(first, R, i)
  <2>1. ASSUME NEW i \in first, NEW j \in first PROVE (j <= i) <=> (<<j, i>> \in R \/ j = i)
    <3>1. <<j, i>> \in R <=> j < i
      BY <1>r
    <3>2. (j <= i) <=> (j < i \/ j = i)
      BY <1>4
    <3> QED
      BY <3>1, <3>2
  <2> QED
    BY <2>1 DEF Below
<1>9. /\ Cardinality(first) \in Nat
      /\ \A k \in 1..Cardinality(first) : \E i \in first : Cardinality(Below(first, R, i)) = k
  <2>2. \A i \in first : <<i, i>> \notin R
    BY <1>4, <1>r
  <2>3. ASSUME NEW i \in first, NEW j \in first PROVE <<i, j>> \in R \/ <<j, i>> \in R \/ i = j
    <3>1. i < j \/ j < i \/ i = j
      BY <1>4
    <3> QED
      BY <1>r, <3>1
  <2>4. ASSUME NEW i \in first, NEW j \in first, NEW k \in first, <<i, j>> \in R, <<j, k>> \in R
        PROVE  <<i, k>> \in R
    <3>1. i < j /\ j < k
      BY <1>r, <2>4
    <3>2. i < k
      BY <1>4, <3>1
    <3> QED
      BY <1>r, <3>2
  <2> QED
    BY <1>2, <2>2, <2>3, <2>4, Ranks
<1>10. ASSUME NEW k \in 1..Cardinality(first)
       PROVE  at(k) \in first /\ Cardinality({j \in first : j <= at(k)}) = k
  <2>1. \E i \in first : Cardinality({j \in first : j <= i}) = k
    BY <1>8, <1>9
  <2> QED
    BY <2>1
<1> HIDE DEF at
<1>11. FirstOccurrences(s) \in Seq(Plugin)
  <2> DEFINE N == Cardinality(first)
  <2>1. N \in Nat /\ \A k \in 1..N : s[at(k)] \in Plugin
    BY <1>7, <1>9, <1>10
  <2> HIDE DEF N
  <2>2. [k \in 1..N |-> s[at(k)]] \in Seq(Plugin)
    BY <2>1
  <2> QED
    BY <1>6, <2>2 DEF N
<1>12. \A k, m \in 1..Cardinality(first) : s[at(k)] = s[at(m)] => k = m
  <2> SUFFICES ASSUME NEW k \in 1..Cardinality(first), NEW m \in 1..Cardinality(first), s[at(k)] = s[at(m)]
               PROVE k = m
    OBVIOUS
  <2>1. at(k) = at(m)
    BY <1>3, <1>10
  <2> QED
    BY <1>10, <2>1
<1> QED
  BY <1>6, <1>11, <1>12 DEF IsInjective

(* Sequences without repetitions: what appending, dropping an end and      *)
(* taking out an element leave of them.                                    *)
LEMMA Appended ==
  ASSUME NEW S, NEW s \in Seq(S), NEW e \in S
  PROVE  /\ Append(s, e) \in Seq(S) /\ Len(Append(s, e)) = Len(s) + 1
         /\ Append(s, e)[Len(s) + 1] = e
         /\ \A i \in 1..Len(s) : Append(s, e)[i] = s[i]
         /\ ToSet(Append(s, e)) = ToSet(s) \cup {e}
         /\ IsInjective(s) /\ e \notin ToSet(s) => IsInjective(Append(s, e))
<1> DEFINE t == Append(s, e)
<1>1. /\ t \in Seq(S) /\ Len(t) = Len(s) + 1 /\ Len(s) \in Nat /\ t[Len(s) + 1] = e
      /\ \A i \in 1..Len(s) : t[i] = s[i]
      /\ DOMAIN s = 1..Len(s) /\ DOMAIN t = 1..(Len(s) + 1)
  BY LenProperties
<1> HIDE DEF t
<1>2. ToSet(t) = ToSet(s) \cup {e}
  <2>1. ASSUME NEW i \in DOMAIN t PROVE t[i] \in ToSet(s) \cup {e}
    <3>1. i \in 1..Len(s) \/ i = Len(s) + 1
      BY <1>1
    <3> QED
      BY <1>1, <3>1 DEF ToSet
  <2>2. ASSUME NEW i \in DOMAIN s PROVE s[i] \in ToSet(t)
    <3>1. i \in DOMAIN t /\ t[i] = s[i]
      BY <1>1
    <3> QED
      BY <3>1 DEF ToSet
  <2>3. e \in ToSet(t)
    <3>1. Len(s) + 1 \in DOMAIN t
      BY <1>1
    <3> QED
      BY <1>1, <3>1 DEF ToSet
  <2> QED
    BY <2>1, <2>2, <2>3 DEF ToSet
<1>3. ASSUME IsInjective(s), e \notin ToSet(s) PROVE IsInjective(t)
  <2> SUFFICES ASSUME NEW i \in DOMAIN t, NEW j \in DOMAIN t, t[i] = t[j] PROVE i = j
    BY DEF IsInjective
  <2>1. (i \in 1..Len(s) \/ i = Len(s) + 1) /\ (j \in 1..Len(s) \/ j = Len(s) + 1)
    BY <1>1
  <2>2. \A k \in 1..Len(s) : t[k] # e
    BY <1>1, <1>3 DEF ToSet
  <2> QED
    BY <1>1, <1>3, <2>1, <2>2 DEF IsInjective
<1> QED
  BY <1>1, <1>2, <1>3 DEF t

LeavesOut(s, n, t) ==
  /\ Len(t) = Len(s) - 1
  /\ \A i \in 1..Len(t) : t[i] = IF i < n THEN s[i] ELSE s[i + 1]

LEMMA TakenOut ==
  ASSUME NEW S, NEW s \in Seq(S), NEW n \in DOMAIN s, IsInjective(s),
         NEW t, t \in Seq(S), LeavesOut(s, n, t)
  PROVE  IsInjective(t) /\ ToSet(t) = ToSet(s) \ {s[n]}
<1>0. Len(t) = Len(s) - 1 /\ \A i \in 1..Len(t) : t[i] = IF i < n THEN s[i] ELSE s[i + 1]
  BY DEF LeavesOut
<1>1. /\ Len(s) \in Nat /\ Len(t) \in Nat /\ DOMAIN s = 1..Len(s) /\ DOMAIN t = 1..Len(t)
      /\ n \in 1..Len(s) /\ Len(t) = Len(s) - 1
  BY <1>0, LenProperties
<1> DEFINE at == [i \in DOMAIN t |-> IF i < n THEN i ELSE i + 1]
<1>2. \A i \in DOMAIN t : at[i] \in DOMAIN s /\ at[i] # n /\ t[i] = s[at[i]]
  BY <1>0, <1>1
<1>3. \A i, j \in DOMAIN t : at[i] = at[j] => i = j
  BY <1>1
<1>4. \A k \in DOMAIN s : k # n => \E i \in DOMAIN t : at[i] = k
  <2> SUFFICES ASSUME NEW k \in DOMAIN s, k # n PROVE \E i \in DOMAIN t : at[i] = k
    OBVIOUS
  <2>1. CASE k < n
    <3>1. k \in DOMAIN t /\ at[k] = k
      BY <1>1, <2>1
    <3> QED
      BY <3>1
  <2>2. CASE ~(k < n)
    <3>1. k - 1 \in DOMAIN t /\ at[k - 1] = k
      BY <1>1, <2>2
    <3> QED
      BY <3>1
  <2> QED
    BY <2>1, <2>2
<1> HIDE DEF at
<1>5. IsInjective(t)
  <2> SUFFICES ASSUME NEW i \in DOMAIN t, NEW j \in DOMAIN t, t[i] = t[j] PROVE i = j
    BY DEF IsInjective
  <2>1. at[i] = at[j]
    BY <1>2 DEF IsInjective
  <2> QED
    BY <1>3, <2>1
<1>6. \A k \in DOMAIN s : s[k] = s[n] => k = n
  BY DEF IsInjective
<1>7. ASSUME NEW e \in ToSet(t) PROVE e \in ToSet(s) \ {s[n]}
  BY <1>2, <1>6 DEF ToSet
<1>8. ASSUME NEW e \in ToSet(s) \ {s[n]} PROVE e \in ToSet(t)
  <2>1. PICK k \in DOMAIN s : s[k] = e /\ k # n
    BY DEF ToSet
  <2>2. PICK i \in DOMAIN t : at[i] = k
    BY <1>4, <2>1
  <2> QED
    BY <1>2, <2>1, <2>2 DEF ToSet
<1> QED
  BY <1>5, <1>7, <1>8

LEMMA TailTaken ==
  ASSUME NEW S, NEW s \in Seq(S), s # <<>>, IsInjective(s)
  PROVE  /\ Tail(s) \in Seq(S) /\ IsInjective(Tail(s)) /\ ToSet(Tail(s)) = ToSet(s) \ {Head(s)}
         /\ Head(s) \in ToSet(s) /\ Head(s) \in S
<1>1. /\ Len(s) \in Nat /\ DOMAIN s = 1..Len(s) /\ Len(s) # 0 /\ Head(s) = s[1]
  BY LenProperties
<1>2. 1 \in DOMAIN s
  BY <1>1
<1>3. /\ Tail(s) \in Seq(S) /\ Len(Tail(s)) = Len(s) - 1
      /\ \A i \in 1..Len(Tail(s)) : Tail(s)[i] = s[i + 1]
  BY HeadTailProperties
<1> DEFINE n == 1
<1>4. LeavesOut(s, n, Tail(s))
  BY <1>1, <1>3 DEF LeavesOut
<1>5. IsInjective(Tail(s)) /\ ToSet(Tail(s)) = ToSet(s) \ {s[n]}
  <2> HIDE DEF n
  <2>1. n \in DOMAIN s
    BY <1>2 DEF n
  <2>2. Tail(s) \in Seq(S)
    BY <1>3
  <2> QED
    BY <1>4, <2>1, <2>2, TakenOut, ZenonT(60)
<1> QED
  BY <1>1, <1>2, <1>3, <1>5 DEF ToSet

LEMMA AllButLast ==
  ASSUME NEW S, NEW s \in Seq(S), s # <<>>
  PROVE  /\ Len(s) \in Nat /\ DOMAIN s = 1..Len(s) /\ Len(s) \in DOMAIN s /\ s[Len(s)] \in S
         /\ SubSeq(s, 1, Len(s) - 1) \in Seq(S)
         /\ DOMAIN SubSeq(s, 1, Len(s) - 1) = 1..(Len(s) - 1)
         /\ Len(SubSeq(s, 1, Len(s) - 1)) = Len(s) - 1
         /\ \A i \in 1..(Len(s) - 1) : SubSeq(s, 1, Len(s) - 1)[i] = s[i]
<1>1. Len(s) \in Nat /\ DOMAIN s = 1..Len(s) /\ Len(s) # 0
  BY LenProperties
<1>2. Len(s) \in DOMAIN s /\ \A i \in 1..Len(s) : s[i] \in S
  BY <1>1, ElementOfSeq
<1> DEFINE t == SubSeq(s, 1, Len(s) - 1)
<1>3. 1 \in Int /\ Len(s) - 1 \in Int /\ \A i \in 1..(Len(s) - 1) : s[i] \in S
  BY <1>1, <1>2
<1>4. /\ t \in Seq(S) /\ Len(t) = IF 1 <= Len(s) - 1 THEN Len(s) - 1 - 1 + 1 ELSE 0
      /\ \A i \in 1..(Len(s) - 1 - 1 + 1) : t[i] = s[1 + i - 1]
  BY <1>3, SubSeqProperties
<1> HIDE DEF t
<1>5. Len(s) - 1 - 1 + 1 = Len(s) - 1 /\ (1 <= Len(s) - 1 \/ Len(s) - 1 = 0)
  BY <1>1, SMTT(60)
<1>6. Len(t) = Len(s) - 1
  BY <1>4, <1>5
<1>7. ASSUME NEW i \in 1..(Len(s) - 1) PROVE t[i] = s[i]
  <2>1. i \in 1..(Len(s) - 1 - 1 + 1) /\ 1 + i - 1 = i
    BY <1>5
  <2> QED
    BY <1>4, <2>1
<1>8. DOMAIN t = 1..(Len(s) - 1)
  BY <1>4, <1>6, LenProperties
<1> QED
  BY <1>1, <1>2, <1>4, <1>6, <1>7, <1>8 DEF t

LEMMA FrontTaken ==
  ASSUME NEW S, NEW s \in Seq(S), s # <<>>, IsInjective(s)
  PROVE  /\ Front(s) \in Seq(S) /\ IsInjective(Front(s)) /\ ToSet(Front(s)) = ToSet(s) \ {Last(s)}
         /\ Last(s) \in ToSet(s) /\ Last(s) \in S
         /\ \A i \in DOMAIN Front(s) : i \in DOMAIN s /\ Front(s)[i] = s[i] /\ s[i] # Last(s)
<1>1. /\ Len(s) \in Nat /\ DOMAIN s = 1..Len(s) /\ Len(s) # 0 /\ Last(s) = s[Len(s)]
  BY LenProperties DEF Last
<1>2. Len(s) \in DOMAIN s
  BY <1>1
<1>3. /\ Front(s) \in Seq(S) /\ Len(Front(s)) = Len(s) - 1
      /\ \A i \in 1..Len(Front(s)) : Front(s)[i] = s[i]
  BY AllButLast DEF Front
<1>4. LeavesOut(s, Len(s), Front(s))
  BY <1>1, <1>3 DEF LeavesOut
<1>5. IsInjective(Front(s)) /\ ToSet(Front(s)) = ToSet(s) \ {s[Len(s)]}
  BY <1>2, <1>3, <1>4, TakenOut
<1>6. DOMAIN Front(s) = 1..Len(Front(s))
  BY <1>3, LenProperties
<1>7. \A i \in DOMAIN Front(s) : i \in DOMAIN s /\ Front(s)[i] = s[i] /\ i # Len(s)
  BY <1>1, <1>3, <1>6
<1> QED
  BY <1>1, <1>2, <1>3, <1>5, <1>7 DEF ToSet, IsInjective

LEMMA Removed ==
  ASSUME NEW S, NEW s \in Seq(S), NEW n \in DOMAIN s, IsInjective(s)
  PROVE  /\ RemoveAt(s, n) \in Seq(S) /\ IsInjective(RemoveAt(s, n))
         /\ ToSet(RemoveAt(s, n)) = ToSet(s) \ {s[n]}
<1>1. /\ Len(s) \in Nat /\ DOMAIN s = 1..Len(s) /\ n \in 1..Len(s)
  BY LenProperties
<1> DEFINE u == SubSeq(s, 1, n - 1)
           v == SubSeq(s, n + 1, Len(s))
<1>2. u \in Seq(S) /\ Len(u) = n - 1 /\ \A i \in 1..(n - 1) : u[i] = s[i]
  <2>1. 1 \in Int /\ n - 1 \in Int /\ \A i \in 1..(n - 1) : s[i] \in S
    BY <1>1
  <2>2. /\ u \in Seq(S) /\ Len(u) = IF 1 <= n - 1 THEN n - 1 - 1 + 1 ELSE 0
        /\ \A i \in 1..(n - 1 - 1 + 1) : u[i] = s[1 + i - 1]
    BY <2>1, SubSeqProperties
  <2> HIDE DEF u
  <2> QED
    BY <1>1, <2>2
<1>3. v \in Seq(S) /\ Len(v) = Len(s) - n /\ \A i \in 1..(Len(s) - n) : v[i] = s[n + i]
  <2>1. n + 1 \in Int /\ Len(s) \in Int /\ \A i \in (n + 1)..Len(s) : s[i] \in S
    BY <1>1
  <2>2. /\ v \in Seq(S) /\ Len(v) = IF n + 1 <= Len(s) THEN Len(s) - (n + 1) + 1 ELSE 0
        /\ \A i \in 1..(Len(s) - (n + 1) + 1) : v[i] = s[(n + 1) + i - 1]
    BY <2>1, SubSeqProperties
  <2> HIDE DEF v
  <2>3. Len(s) - (n + 1) + 1 = Len(s) - n /\ (n + 1 <= Len(s) \/ Len(s) - n = 0)
    BY <1>1
  <2>4. Len(v) = Len(s) - n
    BY <2>2, <2>3
  <2>5. ASSUME NEW i \in 1..(Len(s) - n) PROVE v[i] = s[n + i]
    <3>1. i \in 1..(Len(s) - (n + 1) + 1) /\ (n + 1) + i - 1 = n + i
      BY <1>1
    <3> QED
      BY <2>2, <3>1
  <2> QED
    BY <2>2, <2>4, <2>5
<1>4. RemoveAt(s, n) = u \o v
  BY DEF RemoveAt
<1> HIDE DEF u, v
<1> DEFINE t == u \o v
<1>5. /\ t \in Seq(S) /\ Len(t) = Len(u) + Len(v)
      /\ \A i \in 1..(Len(u) + Len(v)) : t[i] = IF i <= Len(u) THEN u[i] ELSE v[i - Len(u)]
  BY <1>2, <1>3, ConcatProperties
<1> HIDE DEF t
<1>6. Len(t) = Len(s) - 1
  BY <1>1, <1>2, <1>3, <1>5
<1>7. \A i \in 1..Len(t) : t[i] = IF i < n THEN s[i] ELSE s[i + 1]
  <2> SUFFICES ASSUME NEW i \in 1..Len(t) PROVE t[i] = IF i < n THEN s[i] ELSE s[i + 1]
    OBVIOUS
  <2>1. i \in 1..(Len(u) + Len(v)) /\ i \in Nat
    BY <1>1, <1>2, <1>3, <1>5
  <2>2. CASE i < n
    <3>1. i <= Len(u) /\ i \in 1..(n - 1)
      BY <1>1, <1>2, <2>1, <2>2
    <3> QED
      BY <1>2, <1>5, <2>1, <2>2, <3>1
  <2>3. CASE ~(i < n)
    <3>1. ~(i <= Len(u)) /\ i - Len(u) \in 1..(Len(s) - n) /\ n + (i - Len(u)) = i + 1
      <4>1. \A j, p, q \in Nat : p > 0 /\ ~(j < p) /\ j <= (p - 1) + q =>
              ~(j <= p - 1) /\ j - (p - 1) \in 1..q /\ p + (j - (p - 1)) = j + 1
        OBVIOUS
      <4>2. Len(u) = n - 1 /\ Len(v) = Len(s) - n
        BY <1>2, <1>3
      <4>3. n \in Nat /\ n > 0 /\ Len(s) - n \in Nat
        BY <1>1
      <4>4. i <= (n - 1) + (Len(s) - n)
        BY <2>1, <4>2, <4>3
      <4> HIDE DEF u, v
      <4> QED
        BY <2>1, <2>3, <4>1, <4>2, <4>3, <4>4
    <3>2. t[i] = v[i - Len(u)]
      BY <1>5, <2>1, <3>1
    <3> QED
      BY <1>3, <2>3, <3>1, <3>2
  <2> QED
    BY <2>2, <2>3
<1>8. LeavesOut(s, n, t)
  BY <1>6, <1>7 DEF LeavesOut
<1>9. IsInjective(t) /\ ToSet(t) = ToSet(s) \ {s[n]}
  BY <1>5, <1>8, TakenOut
<1> QED
  BY <1>4, <1>5, <1>9 DEF t

----------------------------------------------------------------------------
(* What the definition of an agent says of a plugin. *)
LEMMA TraitsType ==
  ASSUME def \in Definition, NEW p \in Plugin
  PROVE  /\ Traits(p).requires \subseteq Plugin \cup Action
         /\ Traits(p).surfaces \in Seq(Surface)
         /\ Len(Traits(p).surfaces) \in Nat
         /\ DOMAIN Traits(p).surfaces = 1..Len(Traits(p).surfaces)
         /\ def.plugins \in Seq(Plugin) /\ def.privatePlugins \in Seq(Plugin)
<1>1. Traits(p).surfaces \in Seq(Surface)
  BY DefinitionAssumption DEF Traits
<1> QED
  BY <1>1, DefinitionAssumption, LenProperties DEF Traits

LEMMA Apart ==
  /\ Nobody \notin Plugin
  /\ \A x \in Action : x \in Surface /\ x \notin Block
  /\ \A x \in Surface : x \in Action \/ x \in Block
BY NobodyAssumption, NamesAssumption DEF Surface

LEMMA UpType == LTyped => Up \in SUBSET Plugin /\ ToSet(pending) \in SUBSET Plugin /\ ToSet(unread) \in SUBSET Plugin
<1> SUFFICES ASSUME LTyped PROVE Up \in SUBSET Plugin /\ ToSet(pending) \in SUBSET Plugin /\ ToSet(unread) \in SUBSET Plugin
  OBVIOUS
<1>1. loaded \in Seq(Plugin) /\ pending \in Seq(Plugin) /\ unread \in Seq(Plugin)
  BY DEF LTyped
<1> QED
  BY <1>1 DEF ToSet, Up

LEMMA LoaderInit == LInit => LInv
<1> SUFFICES ASSUME LInit PROVE LInv
  OBVIOUS
<1>1. LTyped
  BY DEF LInit, LTyped
<1>2. Up = {} /\ ToSet(pending) = {} /\ ToSet(unread) = {}
  BY DEF LInit, Up, ToSet
<1>3. LPlaces
  BY <1>2 DEF LInit, LPlaces, IsInjective
<1>4. LPhases
  BY DEF LInit, LPhases
<1>5. Registering /\ OwnersAreUp /\ Stuck /\ NoLeak /\ ProvidersOutlive
  BY <1>2 DEF LInit, Registering, OwnersAreUp, Stuck, NoLeak, ProvidersOutlive
<1> QED
  BY <1>1, <1>3, <1>4, <1>5 DEF LInv

(* The phases before and after the setups have nothing set up, or nothing   *)
(* in its setup.                                                           *)
LEMMA NothingYet ==
  ASSUME LInv, phase \in {"resolve", "import", "rejected"}
  PROVE  /\ Up = {} /\ loaded = <<>> /\ current = Nobody
         /\ \A s \in Surface : owner[s] = Nobody
         /\ \A p \in Plugin : skipped[p] # "unmet"
<1>1. loaded = <<>> /\ current = Nobody /\ owner = [s \in Surface |-> Nobody]
  BY DEF LInv, LPhases
<1> QED
  BY <1>1 DEF LInv, LPhases, Up, ToSet

LEMMA ResolveKeeps == ASSUME LInv, Resolve PROVE LInv'
<1>1. /\ phase = "resolve" /\ phase' \in {"import", "rejected"}
      /\ unread' = unread \/ unread' = LoadOrder
      /\ UNCHANGED <<def, available, pending, current, registered, owner, loaded, skipped>>
  BY DEF Resolve
<1>2. LoadOrder \in Seq(Plugin) /\ IsInjective(LoadOrder)
  <2>1. def.plugins \in Seq(Plugin) /\ def.privatePlugins \in Seq(Plugin)
    BY DefinitionAssumption DEF LInv, LTyped
  <2>2. def.plugins \o def.privatePlugins \in Seq(Plugin)
    BY <2>1, ConcatProperties
  <2> QED
    BY <2>2, FirstOnes DEF LoadOrder
<1>3. pending = <<>> /\ ToSet(pending) = {}
  BY <1>1 DEF LInv, LPhases, ToSet
<1>4. unread' \in Seq(Plugin) /\ IsInjective(unread')
  BY <1>1, <1>2 DEF LInv, LTyped, LPlaces
<1>5. LTyped'
  BY <1>1, <1>4 DEF LInv, LTyped
<1>6. ToSet(pending)' = {} /\ Up' = Up
  BY <1>1, <1>3 DEF Up, ToSet
<1>7. LPlaces'
  BY <1>1, <1>3, <1>4, <1>6 DEF LInv, LPlaces
<1>8. LPhases'
  BY <1>1 DEF LInv, LPhases
<1>9. Registering' /\ Stuck' /\ NoLeak'
  BY <1>1 DEF LInv, LPhases, Registering, Stuck, NoLeak
<1>10. OwnersAreUp' /\ ProvidersOutlive'
  BY <1>1, <1>6 DEF LInv, OwnersAreUp, ProvidersOutlive, Traits
<1> QED
  BY <1>5, <1>7, <1>8, <1>9, <1>10 DEF LInv

LEMMA ImportKeeps == ASSUME LInv, Import PROVE LInv'
<1> DEFINE p == Head(unread)
<1>1. /\ phase = "import" /\ unread # <<>> /\ unread' = Tail(unread)
      /\ UNCHANGED <<def, phase, current, registered, owner, loaded>>
  BY DEF Import
<1>2. \/ pending' = Append(pending, p) /\ available' = available \cup {p} /\ UNCHANGED skipped
      \/ skipped' = [skipped EXCEPT ![p] = "import"] /\ UNCHANGED <<pending, available>>
  BY DEF Import
<1>3. /\ unread' \in Seq(Plugin) /\ IsInjective(unread') /\ ToSet(unread)' = ToSet(unread) \ {p}
      /\ p \in ToSet(unread) /\ p \in Plugin
  BY <1>1, TailTaken DEF LInv, LTyped, LPlaces
<1>4. Up = {} /\ current = Nobody /\ \A q \in Plugin : skipped[q] # "unmet"
  BY <1>1, NothingYet
<1>5. p \notin ToSet(pending)
  BY <1>3 DEF LInv, LPlaces
<1>6. /\ pending' \in Seq(Plugin) /\ IsInjective(pending')
      /\ ToSet(pending') \subseteq ToSet(pending) \cup {p}
  <2>1. pending \in Seq(Plugin) /\ IsInjective(pending)
    BY DEF LInv, LTyped, LPlaces
  <2>2. /\ Append(pending, p) \in Seq(Plugin) /\ ToSet(Append(pending, p)) = ToSet(pending) \cup {p}
        /\ IsInjective(Append(pending, p))
    BY <1>3, <1>5, <2>1, Appended
  <2> QED
    BY <1>2, <2>1, <2>2
<1>7. /\ available' \in SUBSET Plugin /\ skipped' \in [Plugin -> {"no", "import", "unmet", "setup"}]
      /\ \A q \in Plugin : skipped'[q] # "unmet"
  BY <1>2, <1>3, <1>4 DEF LInv, LTyped
<1> HIDE DEF p
<1>8. LTyped'
  BY <1>1, <1>3, <1>6, <1>7 DEF LInv, LTyped
<1>9. Up' = {}
  BY <1>1, <1>4 DEF Up, ToSet
<1>10. LPlaces'
  <2>1. ToSet(unread)' = ToSet(unread') /\ ToSet(pending)' = ToSet(pending')
    BY DEF ToSet
  <2>2. Nobody \notin ToSet(pending')
    BY <1>6, Apart DEF ToSet
  <2>3. IsInjective(loaded')
    BY <1>1 DEF LInv, LPlaces
  <2>4. ToSet(unread') \cap ToSet(pending') = {}
    BY <1>3, <1>5, <1>6, <2>1 DEF LInv, LPlaces
  <2> QED
    BY <1>1, <1>3, <1>4, <1>6, <1>9, <2>1, <2>2, <2>3, <2>4 DEF LPlaces
<1>11. LPhases'
  BY <1>1, <1>7 DEF LInv, LPhases
<1>12. Registering' /\ Stuck' /\ NoLeak'
  BY <1>1, <1>4 DEF Registering, Stuck, NoLeak
<1>13. OwnersAreUp' /\ ProvidersOutlive'
  BY <1>1, <1>9 DEF LInv, OwnersAreUp, ProvidersOutlive, Traits
<1> QED
  BY <1>8, <1>10, <1>11, <1>12, <1>13 DEF LInv

(* The steps that only move on to the next phase. *)
LEMMA PhaseKeeps ==
  ASSUME LInv, phase' # "resolve", current = Nobody,
         \/ phase = "import" /\ phase' = "sweep"
         \/ phase = "sweep" /\ phase' = "up"
         \/ phase \in {"up", "teardown"} /\ phase' \in {"teardown", "down"},
         UNCHANGED <<def, unread, available, pending, current, registered, owner, loaded, skipped>>
  PROVE  LInv'
<1>1. LTyped'
  BY DEF LInv, LTyped
<1>2. Up' = Up /\ \A p : Ready(p)' = Ready(p)
  BY DEF Up, ToSet, Ready, IsMet, Traits
<1>3. LPlaces' /\ Registering' /\ OwnersAreUp' /\ ProvidersOutlive'
  BY <1>2 DEF LInv, LPlaces, Registering, OwnersAreUp, ProvidersOutlive, Traits, ToSet
<1>4. LPhases'
  BY DEF LInv, LPhases
<1>5. Stuck'
  <2>1. CASE phase = "import"
    BY <2>1, NothingYet DEF Stuck
  <2>2. CASE phase # "import"
    BY <1>2, <2>2 DEF LInv, Stuck
  <2> QED
    BY <2>1, <2>2
<1>6. NoLeak'
  <2>1. CASE phase = "import"
    BY <2>1, NothingYet DEF NoLeak
  <2>2. CASE phase # "import"
    BY <1>2, <2>2 DEF LInv, NoLeak
  <2> QED
    BY <2>1, <2>2
<1> QED
  BY <1>1, <1>3, <1>4, <1>5, <1>6 DEF LInv

LEMMA BeginSetupKeeps == ASSUME LInv, BeginSetup PROVE LInv'
<1>1. PICK n \in DOMAIN pending :
        /\ Ready(pending[n]) /\ current' = pending[n] /\ pending' = RemoveAt(pending, n)
  BY DEF BeginSetup
<1>2. /\ phase = "sweep" /\ current = Nobody /\ registered' = <<>>
      /\ UNCHANGED <<def, phase, unread, available, owner, loaded, skipped>>
  BY DEF BeginSetup, Sweeping
<1>3. pending \in Seq(Plugin) /\ IsInjective(pending)
  BY DEF LInv, LTyped, LPlaces
<1>4. /\ pending' \in Seq(Plugin) /\ IsInjective(pending')
      /\ ToSet(pending') = ToSet(pending) \ {pending[n]}
  BY <1>1, <1>3, Removed
<1>5. current' \in Plugin /\ current' \in ToSet(pending)
  BY <1>1, <1>3 DEF ToSet
<1>6. Up' = Up /\ ToSet(pending)' = ToSet(pending') /\ ToSet(unread)' = ToSet(unread)
  BY <1>2 DEF Up, ToSet
<1>7. current' \notin Up /\ current' \notin ToSet(pending')
  BY <1>1, <1>4, <1>5 DEF LInv, LPlaces
<1>8. LTyped'
  <2>1. <<>> \in Seq(Surface)
    OBVIOUS
  <2> QED
    BY <1>2, <1>4, <1>5, <2>1 DEF LInv, LTyped
<1>9. LPlaces'
  BY <1>2, <1>4, <1>6, <1>7 DEF LInv, LPlaces
<1>10. LPhases'
  BY <1>2 DEF LInv, LPhases
<1>11. \A s \in Surface : owner[s] \in Up \cup {Nobody}
  BY <1>2 DEF LInv, NoLeak
<1>12. Registering'
  <2>1. ASSUME NEW req \in Action \cap Traits(current').requires PROVE owner[req] \in Up
    <3>1. owner[req] # Nobody
      BY <1>1 DEF Ready, IsMet
    <3> QED
      BY <1>11, <3>1, Apart
  <2>2. Len(Traits(current').surfaces) \in Nat
    BY <1>5, TraitsType DEF LInv, LTyped
  <2>3. Len(registered') = 0 /\ DOMAIN registered' = {} /\ ToSet(registered') = {}
    BY <1>2 DEF ToSet
  <2>4. \A s \in Surface : owner[s] # current'
    BY <1>5, <1>7, <1>11, Apart
  <2>5. Traits(current)' = Traits(current')
    BY <1>2 DEF Traits
  <2>6. ToSet(registered)' = ToSet(registered')
    BY DEF ToSet
  <2> QED
    BY <1>2, <1>6, <2>1, <2>2, <2>3, <2>4, <2>5, <2>6 DEF Registering
<1>13. OwnersAreUp' /\ ProvidersOutlive'
  BY <1>2, <1>6 DEF LInv, OwnersAreUp, ProvidersOutlive, Traits
<1>14. Stuck'
  <2>1. \A p \in Plugin : skipped[p] # "unmet"
    BY <1>1, <1>2 DEF LInv, Stuck
  <2> QED
    BY <1>2, <2>1 DEF Stuck
<1>15. NoLeak'
  BY <1>2, <1>6, <1>11 DEF NoLeak
<1> QED
  BY <1>8, <1>9, <1>10, <1>12, <1>13, <1>14, <1>15 DEF LInv

LEMMA SkipFirstKeeps == ASSUME LInv, SkipFirst PROVE LInv'
<1> DEFINE p == Head(pending)
<1>1. /\ phase = "sweep" /\ current = Nobody /\ pending # <<>>
      /\ \A i \in DOMAIN pending : ~Ready(pending[i])
      /\ skipped' = [skipped EXCEPT ![p] = "unmet"] /\ pending' = Tail(pending)
      /\ UNCHANGED <<def, phase, unread, available, current, registered, owner, loaded>>
  BY DEF SkipFirst, Sweeping
<1>2. pending \in Seq(Plugin) /\ IsInjective(pending)
  BY DEF LInv, LTyped, LPlaces
<1>3. /\ pending' \in Seq(Plugin) /\ IsInjective(pending') /\ ToSet(pending') = ToSet(pending) \ {p}
      /\ p \in ToSet(pending) /\ p \in Plugin
  BY <1>1, <1>2, TailTaken
<1> HIDE DEF p
<1>4. /\ skipped' \in [Plugin -> {"no", "import", "unmet", "setup"}]
      /\ \A q \in Plugin : skipped'[q] = "unmet" => q = p \/ skipped[q] = "unmet"
  BY <1>1 DEF LInv, LTyped
<1>5. /\ Up' = Up /\ ToSet(pending)' = ToSet(pending') /\ ToSet(unread)' = ToSet(unread)
      /\ \A q : Ready(q)' = Ready(q)
  BY <1>1 DEF Up, ToSet, Ready, IsMet, Traits
<1>6. \A q \in ToSet(pending) : ~Ready(q)
  BY <1>1 DEF ToSet
<1>7. LTyped'
  BY <1>1, <1>3, <1>4 DEF LInv, LTyped
<1>8. LPlaces'
  BY <1>1, <1>3, <1>5 DEF LInv, LPlaces
<1>9. LPhases'
  BY <1>1 DEF LInv, LPhases
<1>10. Registering' /\ OwnersAreUp' /\ ProvidersOutlive' /\ NoLeak'
  BY <1>1, <1>5 DEF LInv, Registering, OwnersAreUp, ProvidersOutlive, NoLeak, Traits
<1>11. Stuck'
  <2>1. \A i \in DOMAIN pending' : ~Ready(pending'[i])
    BY <1>3, <1>6 DEF ToSet
  <2>2. \A q \in Plugin : skipped'[q] = "unmet" => ~Ready(q)
    BY <1>1, <1>3, <1>4, <1>6 DEF LInv, Stuck
  <2>3. \A i \in DOMAIN pending' : ~Ready(pending[i])'
    BY <1>5, <2>1 DEF Ready, IsMet, Traits
  <2>4. \A q \in Plugin : skipped'[q] = "unmet" => ~Ready(q)'
    BY <1>5, <2>2
  <2> QED
    BY <1>1, <2>3, <2>4 DEF Stuck
<1> QED
  BY <1>7, <1>8, <1>9, <1>10, <1>11 DEF LInv

(* In a setup: what the sweep has come to. *)
LEMMA InSetup ==
  ASSUME LInv, current # Nobody
  PROVE  /\ current \in Plugin /\ phase = "sweep" /\ current \notin Up /\ current \notin ToSet(pending)
         /\ Traits(current).surfaces \in Seq(Surface)
         /\ Len(Traits(current).surfaces) \in Nat /\ Len(registered) \in Nat
         /\ DOMAIN Traits(current).surfaces = 1..Len(Traits(current).surfaces)
         /\ DOMAIN registered = 1..Len(registered)
         /\ registered \in Seq(Surface) /\ ToSet(registered) \in SUBSET Surface
         /\ Len(registered) <= Len(Traits(current).surfaces)
         /\ \A i \in DOMAIN registered : registered[i] = Traits(current).surfaces[i]
         /\ \A s \in ToSet(registered) \cap Action : owner[s] = current
         /\ \A s \in Surface : owner[s] = current => s \in ToSet(registered)
         /\ \A req \in Action \cap Traits(current).requires : owner[req] \in Up
         /\ \A p \in Plugin : skipped[p] # "unmet"
         /\ \A s \in Surface : owner[s] \in Up \cup {current, Nobody}
<1>1. current \in Plugin /\ phase = "sweep" /\ registered \in Seq(Surface)
  BY DEF LInv, LTyped, LPhases
<1>2. ToSet(registered) \in SUBSET Surface /\ Len(registered) \in Nat /\ DOMAIN registered = 1..Len(registered)
  BY <1>1, LenProperties DEF ToSet
<1>3. /\ Traits(current).surfaces \in Seq(Surface) /\ Len(Traits(current).surfaces) \in Nat
      /\ DOMAIN Traits(current).surfaces = 1..Len(Traits(current).surfaces)
  BY <1>1, TraitsType DEF LInv, LTyped
<1>4. current \notin Up /\ current \notin ToSet(pending)
  BY DEF LInv, LPlaces
<1>5. \A p \in Plugin : skipped[p] # "unmet"
  BY <1>1 DEF LInv, Stuck
<1>6. \A s \in Surface : owner[s] \in Up \cup {current, Nobody}
  BY <1>1 DEF LInv, NoLeak
<1> QED
  BY <1>1, <1>2, <1>3, <1>4, <1>5, <1>6 DEF LInv, Registering

LEMMA RegisterKeeps == ASSUME LInv, Register PROVE LInv'
<1> DEFINE n == NextSurface
<1>1. /\ current # Nobody /\ Len(registered) # Len(Traits(current).surfaces)
      /\ n \in Action => owner[n] = Nobody
      /\ owner' = [owner EXCEPT ![n] = current] /\ registered' = Append(registered, n)
      /\ UNCHANGED <<def, phase, unread, available, pending, current, loaded, skipped>>
  BY DEF Register, Finished, Clashes
<1>2. /\ n \in Surface /\ Len(registered) + 1 <= Len(Traits(current).surfaces)
      /\ n = Traits(current).surfaces[Len(registered) + 1]
  <2>1. Len(registered) + 1 \in 1..Len(Traits(current).surfaces)
    BY <1>1, InSetup
  <2> QED
    BY <1>1, <2>1, InSetup, ElementOfSeq DEF NextSurface
<1> HIDE DEF n
<1>3. /\ registered' \in Seq(Surface) /\ ToSet(registered') = ToSet(registered) \cup {n}
      /\ Len(registered') = Len(registered) + 1 /\ registered'[Len(registered) + 1] = n
      /\ \A i \in 1..Len(registered) : registered'[i] = registered[i]
  BY <1>1, <1>2, InSetup, Appended
<1>4. /\ owner' \in [Surface -> Plugin \cup {Nobody}] /\ owner'[n] = current
      /\ \A s \in Surface : s # n => owner'[s] = owner[s]
  BY <1>1, <1>2, InSetup DEF LInv, LTyped
<1>5. /\ Up' = Up /\ Traits(current)' = Traits(current) /\ ToSet(registered)' = ToSet(registered')
      /\ ToSet(pending)' = ToSet(pending) /\ ToSet(unread)' = ToSet(unread)
  BY <1>1 DEF Up, ToSet, Traits
<1>6. LTyped'
  BY <1>1, <1>3, <1>4 DEF LInv, LTyped
<1>7. LPlaces'
  BY <1>1, <1>5 DEF LInv, LPlaces
<1>8. LPhases'
  BY <1>1, InSetup DEF LInv, LPhases
<1>9. Registering'
  <2>1. Len(registered') <= Len(Traits(current).surfaces)
    BY <1>2, <1>3
  <2>2. ASSUME NEW i \in DOMAIN registered' PROVE registered'[i] = Traits(current).surfaces[i]
    <3>1. i \in 1..Len(registered) \/ i = Len(registered) + 1
      BY <1>1, <1>3, InSetup, LenProperties
    <3> QED
      BY <1>1, <1>2, <1>3, <3>1, InSetup
  <2>3. ASSUME NEW s \in ToSet(registered') \cap Action PROVE owner'[s] = current
    BY <1>1, <1>3, <1>4, InSetup, Apart
  <2>4. ASSUME NEW s \in Surface, owner'[s] = current PROVE s \in ToSet(registered')
    BY <1>1, <1>3, <1>4, <2>4, InSetup
  <2>5. ASSUME NEW req \in Action \cap Traits(current).requires PROVE owner'[req] \in Up
    <3>1. owner[req] \in Up /\ owner[req] # Nobody
      BY <1>1, InSetup, UpType, Apart DEF LInv
    <3> QED
      BY <1>1, <1>4, <3>1, Apart
  <2> QED
    BY <1>1, <1>5, <2>1, <2>2, <2>3, <2>4, <2>5 DEF Registering
<1>10. OwnersAreUp'
  <2> SUFFICES ASSUME NEW p \in Up, NEW s \in Action \cap ToSet(Traits(p).surfaces) PROVE owner'[s] = p
    BY <1>1, <1>5 DEF OwnersAreUp, Traits
  <2>1. owner[s] = p /\ p # Nobody
    BY UpType, Apart DEF LInv, OwnersAreUp
  <2> QED
    BY <1>1, <1>4, <2>1, Apart
<1>11. Stuck'
  BY <1>1, InSetup DEF Stuck
<1>12. NoLeak'
  BY <1>1, <1>4, <1>5, InSetup DEF NoLeak
<1>13. ProvidersOutlive'
  <2> SUFFICES ASSUME NEW j \in DOMAIN loaded, NEW req \in Action \cap Traits(loaded[j]).requires
               PROVE  \E i \in 1..(j - 1) : owner'[req] = loaded[i]
    BY <1>1 DEF ProvidersOutlive, Traits
  <2>1. PICK i \in 1..(j - 1) : owner[req] = loaded[i]
    BY DEF LInv, ProvidersOutlive
  <2>2. loaded[i] \in Plugin
    <3>1. loaded \in Seq(Plugin)
      BY DEF LInv, LTyped
    <3>2. i \in DOMAIN loaded
      BY <3>1, LenProperties
    <3> QED
      BY <3>1, <3>2, LenProperties
  <2> QED
    BY <1>1, <1>4, <2>1, <2>2, Apart
<1> QED
  BY <1>6, <1>7, <1>8, <1>9, <1>10, <1>11, <1>12, <1>13 DEF LInv

LEMMA SetupSucceedsKeeps == ASSUME LInv, SetupSucceeds PROVE LInv'
<1>1. /\ current # Nobody /\ Len(registered) = Len(Traits(current).surfaces)
      /\ loaded' = Append(loaded, current) /\ current' = Nobody
      /\ UNCHANGED <<def, phase, unread, available, pending, registered, owner, skipped>>
  BY DEF SetupSucceeds, Finished
<1>2. /\ current \in Plugin /\ phase = "sweep" /\ current \notin ToSet(loaded)
      /\ loaded \in Seq(Plugin) /\ IsInjective(loaded)
  BY <1>1, InSetup DEF LInv, LTyped, LPlaces, Up
<1>3. /\ loaded' \in Seq(Plugin) /\ IsInjective(loaded') /\ ToSet(loaded') = ToSet(loaded) \cup {current}
      /\ loaded'[Len(loaded) + 1] = current /\ \A i \in 1..Len(loaded) : loaded'[i] = loaded[i]
      /\ Len(loaded') = Len(loaded) + 1
  BY <1>1, <1>2, Appended
<1>4. Len(loaded) \in Nat /\ DOMAIN loaded = 1..Len(loaded) /\ DOMAIN loaded' = 1..(Len(loaded) + 1)
  BY <1>2, <1>3, LenProperties
<1>5. /\ Up' = Up \cup {current} /\ ToSet(pending)' = ToSet(pending) /\ ToSet(unread)' = ToSet(unread)
      /\ \A p : Traits(p)' = Traits(p)
  BY <1>1, <1>3 DEF Up, ToSet, Traits
<1>6. LTyped'
  BY <1>1, <1>3 DEF LInv, LTyped
<1>7. LPlaces'
  <2>1. Nobody \notin Up' \cup ToSet(pending)
    BY <1>2, <1>5, UpType, Apart DEF LInv
  <2>2. Up' \cap ToSet(pending) = {}
    BY <1>1, <1>5, InSetup DEF LInv, LPlaces
  <2> QED
    BY <1>1, <1>3, <1>5, <2>1, <2>2 DEF LInv, LPlaces
<1>8. LPhases'
  BY <1>1, <1>2 DEF LInv, LPhases
<1>9. Registering'
  BY <1>1 DEF Registering
<1>10. OwnersAreUp'
  <2> SUFFICES ASSUME NEW p \in Up \cup {current}, NEW s \in Action \cap ToSet(Traits(p).surfaces)
               PROVE owner[s] = p
    BY <1>1, <1>5 DEF OwnersAreUp, Traits
  <2>1. CASE p = current
    <3>1. PICK i \in 1..Len(registered) : Traits(current).surfaces[i] = s
      BY <1>1, <2>1, InSetup DEF ToSet
    <3>2. s \in ToSet(registered)
      BY <1>1, <3>1, InSetup DEF ToSet
    <3> QED
      BY <1>1, <2>1, <3>2, InSetup
  <2>2. CASE p \in Up
    BY <2>2 DEF LInv, OwnersAreUp
  <2> QED
    BY <2>1, <2>2
<1>11. Stuck'
  BY <1>1, InSetup DEF Stuck
<1>12. NoLeak'
  BY <1>1, <1>5, InSetup DEF NoLeak
<1>13. ProvidersOutlive'
  <2> SUFFICES ASSUME NEW j \in DOMAIN loaded', NEW req \in Action \cap Traits(loaded'[j]).requires
               PROVE  \E i \in 1..(j - 1) : owner[req] = loaded'[i]
    BY <1>1 DEF ProvidersOutlive, Traits
  <2>1. CASE j \in DOMAIN loaded
    <3>1. loaded'[j] = loaded[j]
      BY <1>3, <1>4, <2>1
    <3>2. PICK i \in 1..(j - 1) : owner[req] = loaded[i]
      BY <2>1, <3>1 DEF LInv, ProvidersOutlive
    <3>3. loaded'[i] = loaded[i]
      BY <1>3, <1>4, <2>1
    <3> QED
      BY <3>2, <3>3
  <2>2. CASE j = Len(loaded) + 1
    <3>1. owner[req] \in Up
      BY <1>1, <1>3, <2>2, InSetup
    <3>2. PICK i \in DOMAIN loaded : owner[req] = loaded[i]
      BY <3>1 DEF Up, ToSet
    <3>3. loaded'[i] = loaded[i] /\ i \in 1..(j - 1)
      BY <1>3, <1>4, <2>2
    <3> QED
      BY <3>2, <3>3
  <2> QED
    BY <1>4, <2>1, <2>2
<1> QED
  BY <1>6, <1>7, <1>8, <1>9, <1>10, <1>11, <1>12, <1>13 DEF LInv

LEMMA SetupFailsKeeps == ASSUME LInv, SetupFails PROVE LInv'
<1>1. /\ current # Nobody /\ current' = Nobody
      /\ owner' = [s \in Surface |-> IF s \in ToSet(registered) THEN Nobody ELSE owner[s]]
      /\ skipped' = [skipped EXCEPT ![current] = "setup"]
      /\ UNCHANGED <<def, phase, unread, available, pending, registered, loaded>>
  BY DEF SetupFails, Undo
<1>2. /\ owner' \in [Surface -> Plugin \cup {Nobody}]
      /\ \A s \in Surface : owner'[s] = Nobody \/ owner'[s] = owner[s]
      /\ \A s \in Surface : s \in ToSet(registered) => owner'[s] = Nobody
      /\ \A s \in Surface : s \notin ToSet(registered) => owner'[s] = owner[s]
  BY <1>1 DEF LInv, LTyped
<1>3. /\ skipped' \in [Plugin -> {"no", "import", "unmet", "setup"}]
      /\ \A p \in Plugin : skipped'[p] # "unmet"
  BY <1>1, InSetup DEF LInv, LTyped
<1>4. /\ Up' = Up /\ ToSet(pending)' = ToSet(pending) /\ ToSet(unread)' = ToSet(unread)
      /\ \A p : Traits(p)' = Traits(p)
  BY <1>1 DEF Up, ToSet, Traits
<1>5. \A s \in Action : owner[s] \in Up => owner'[s] = owner[s]
  BY <1>1, <1>2, InSetup, Apart
<1>6. LTyped'
  BY <1>1, <1>2, <1>3 DEF LInv, LTyped
<1>7. LPlaces'
  <2>1. Nobody \notin Up \cup ToSet(pending)
    BY UpType, Apart DEF LInv
  <2> QED
    BY <1>1, <1>4, <2>1 DEF LInv, LPlaces
<1>8. LPhases'
  BY <1>1, InSetup DEF LInv, LPhases
<1>9. Registering'
  BY <1>1 DEF Registering
<1>10. OwnersAreUp'
  <2> SUFFICES ASSUME NEW p \in Up, NEW s \in Action \cap ToSet(Traits(p).surfaces) PROVE owner'[s] = p
    BY <1>1, <1>4 DEF OwnersAreUp, Traits
  <2>1. owner[s] = p
    BY DEF LInv, OwnersAreUp
  <2> QED
    BY <1>5, <2>1
<1>11. Stuck'
  BY <1>3 DEF Stuck
<1>12. NoLeak'
  <2> SUFFICES ASSUME NEW s \in Surface PROVE owner'[s] \in Up \cup {Nobody}
    BY <1>1, <1>4 DEF NoLeak
  <2> QED
    BY <1>1, <1>2, InSetup
<1>13. ProvidersOutlive'
  <2> SUFFICES ASSUME NEW j \in DOMAIN loaded, NEW req \in Action \cap Traits(loaded[j]).requires
               PROVE  \E i \in 1..(j - 1) : owner'[req] = loaded[i]
    BY <1>1 DEF ProvidersOutlive, Traits
  <2>1. PICK i \in 1..(j - 1) : owner[req] = loaded[i]
    BY DEF LInv, ProvidersOutlive
  <2>2. loaded[i] \in Up
    <3>1. loaded \in Seq(Plugin)
      BY DEF LInv, LTyped
    <3>2. i \in DOMAIN loaded
      BY <3>1, LenProperties
    <3> QED
      BY <3>2 DEF Up, ToSet
  <2> QED
    BY <1>5, <2>1, <2>2
<1> QED
  BY <1>6, <1>7, <1>8, <1>9, <1>10, <1>11, <1>12, <1>13 DEF LInv

LEMMA TearDownNextKeeps == ASSUME LInv, TearDownNext PROVE LInv'
<1> DEFINE p == Last(loaded)
<1>1. /\ phase = "teardown" /\ loaded # <<>> /\ loaded' = Front(loaded)
      /\ owner' = owner \/ owner' = [s \in Surface |-> IF owner[s] = p THEN Nobody ELSE owner[s]]
      /\ UNCHANGED <<def, phase, unread, available, pending, current, registered, skipped>>
  BY DEF TearDownNext
<1>2. loaded \in Seq(Plugin) /\ IsInjective(loaded) /\ current = Nobody
  BY <1>1 DEF LInv, LTyped, LPlaces, LPhases
<1>3. /\ loaded' \in Seq(Plugin) /\ IsInjective(loaded') /\ ToSet(loaded') = ToSet(loaded) \ {p}
      /\ p \in ToSet(loaded) /\ p \in Plugin
      /\ \A i \in DOMAIN loaded' : i \in DOMAIN loaded /\ loaded'[i] = loaded[i] /\ loaded[i] # p
  BY <1>1, <1>2, FrontTaken
<1> HIDE DEF p
<1>4. /\ owner' \in [Surface -> Plugin \cup {Nobody}]
      /\ \A s \in Surface : owner[s] # p => owner'[s] = owner[s]
  BY <1>1 DEF LInv, LTyped
<1>5. /\ Up' = Up \ {p} /\ ToSet(pending)' = ToSet(pending) /\ ToSet(unread)' = ToSet(unread)
      /\ \A q : Traits(q)' = Traits(q)
  BY <1>1, <1>3 DEF Up, ToSet, Traits
<1>6. LTyped'
  BY <1>1, <1>3, <1>4 DEF LInv, LTyped
<1>7. LPlaces'
  BY <1>1, <1>3, <1>5 DEF LInv, LPlaces
<1>8. LPhases'
  BY <1>1 DEF LInv, LPhases
<1>9. Registering' /\ Stuck' /\ NoLeak'
  BY <1>1, <1>2 DEF Registering, Stuck, NoLeak
<1>10. OwnersAreUp'
  <2> SUFFICES ASSUME NEW q \in Up \ {p}, NEW s \in Action \cap ToSet(Traits(q).surfaces) PROVE owner'[s] = q
    BY <1>1, <1>5 DEF OwnersAreUp, Traits
  <2>1. owner[s] = q /\ s \in Surface
    BY Apart DEF LInv, OwnersAreUp
  <2> QED
    BY <1>4, <2>1
<1>11. ProvidersOutlive'
  <2> SUFFICES ASSUME NEW j \in DOMAIN loaded', NEW req \in Action \cap Traits(loaded'[j]).requires
               PROVE  \E i \in 1..(j - 1) : owner'[req] = loaded'[i]
    BY <1>1 DEF ProvidersOutlive, Traits
  <2>1. j \in DOMAIN loaded /\ req \in Action \cap Traits(loaded[j]).requires
    BY <1>3
  <2>2. PICK i \in 1..(j - 1) : owner[req] = loaded[i]
    BY <2>1 DEF LInv, ProvidersOutlive
  <2>3. i \in DOMAIN loaded'
    <3>1. DOMAIN loaded' = 1..Len(loaded') /\ Len(loaded') \in Nat
      BY <1>3, LenProperties
    <3> QED
      BY <3>1
  <2>4. loaded'[i] = loaded[i] /\ loaded[i] # p
    BY <1>3, <2>3
  <2>5. owner'[req] = owner[req]
    BY <1>4, <2>2, <2>4, Apart
  <2> QED
    BY <2>2, <2>4, <2>5
<1> QED
  BY <1>6, <1>7, <1>8, <1>9, <1>10, <1>11 DEF LInv

LEMMA LoaderStep == LInv /\ [LNext]_lvars => LInv'
<1> SUFFICES ASSUME LInv, [LNext]_lvars PROVE LInv'
  OBVIOUS
<1>1. CASE Resolve
  BY <1>1, ResolveKeeps
<1>2. CASE Import
  BY <1>2, ImportKeeps
<1>3. CASE BeginSweep
  <2>1. current = Nobody
    BY <1>3, NothingYet DEF BeginSweep
  <2> QED
    BY <1>3, <2>1, PhaseKeeps DEF BeginSweep
<1>4. CASE BeginSetup
  BY <1>4, BeginSetupKeeps
<1>5. CASE SkipFirst
  BY <1>5, SkipFirstKeeps
<1>6. CASE Register
  BY <1>6, RegisterKeeps
<1>7. CASE SetupSucceeds
  BY <1>7, SetupSucceedsKeeps
<1>8. CASE SetupFails
  BY <1>8, SetupFailsKeeps
<1>9. CASE LoadDone
  BY <1>9, PhaseKeeps DEF LoadDone, Sweeping
<1>10. CASE BeginTeardown
  <2>1. current = Nobody
    BY <1>10 DEF BeginTeardown, LInv, LPhases
  <2> QED
    BY <1>10, <2>1, PhaseKeeps DEF BeginTeardown
<1>11. CASE TearDownNext
  BY <1>11, TearDownNextKeeps
<1>12. CASE TeardownDone
  <2>1. current = Nobody
    BY <1>12 DEF TeardownDone, LInv, LPhases
  <2> QED
    BY <1>12, <2>1, PhaseKeeps DEF TeardownDone
<1>13. CASE UNCHANGED lvars
  <2>1. Up' = Up /\ \A p : Ready(p)' = Ready(p)
    BY <1>13 DEF lvars, Up, ToSet, Ready, IsMet, Traits
  <2>5. LTyped' /\ LPhases'
    BY <1>13 DEF lvars, LInv, LTyped, LPhases
  <2>6. LPlaces'
    BY <1>13, <2>1 DEF lvars, LInv, LPlaces, ToSet
  <2>0. LTyped' /\ LPlaces' /\ LPhases'
    BY <2>5, <2>6
  <2>4. Registering'
    BY <1>13, <2>1 DEF lvars, LInv, Registering, ToSet, Traits
  <2>2. LTyped' /\ LPlaces' /\ LPhases' /\ Registering'
    BY <2>0, <2>4
  <2>3. OwnersAreUp' /\ Stuck' /\ NoLeak' /\ ProvidersOutlive'
    BY <1>13, <2>1 DEF lvars, LInv, OwnersAreUp, Stuck, NoLeak, ProvidersOutlive, ToSet, Traits
  <2> QED
    BY <2>2, <2>3 DEF LInv
<1> QED
  BY <1>1, <1>2, <1>3, <1>4, <1>5, <1>6, <1>7, <1>8, <1>9, <1>10, <1>11, <1>12, <1>13
  DEF LNext, Loading, Unloading

LEMMA LoaderTypes == LInv => LTypeOK
<1> SUFFICES ASSUME LInv PROVE LTypeOK
  OBVIOUS
<1>1. /\ loaded \in Seq(Plugin) /\ pending \in Seq(Plugin) /\ IsInjective(loaded) /\ IsInjective(pending)
      /\ ToSet(loaded) \cap ToSet(pending) = {}
  BY DEF LInv, LTyped, LPlaces, Up
<1> DEFINE s == loaded \o pending
<1>2. /\ s \in Seq(Plugin) /\ Len(s) = Len(loaded) + Len(pending)
      /\ \A i \in 1..(Len(loaded) + Len(pending)) :
           s[i] = IF i <= Len(loaded) THEN loaded[i] ELSE pending[i - Len(loaded)]
  BY <1>1, ConcatProperties
<1>3. /\ Len(loaded) \in Nat /\ Len(pending) \in Nat /\ DOMAIN loaded = 1..Len(loaded)
      /\ DOMAIN pending = 1..Len(pending)
  BY <1>1, LenProperties
<1>4. DOMAIN s = 1..(Len(loaded) + Len(pending))
  BY <1>2, LenProperties
<1> HIDE DEF s
<1>5. ASSUME NEW i \in DOMAIN s
      PROVE  \/ i <= Len(loaded) /\ i \in DOMAIN loaded /\ s[i] = loaded[i]
             \/ ~(i <= Len(loaded)) /\ i - Len(loaded) \in DOMAIN pending /\ s[i] = pending[i - Len(loaded)]
  BY <1>2, <1>3, <1>4
<1>6. IsInjective(s)
  <2> SUFFICES ASSUME NEW i \in DOMAIN s, NEW j \in DOMAIN s, s[i] = s[j] PROVE i = j
    BY DEF IsInjective
  <2>1. CASE i <= Len(loaded) /\ j <= Len(loaded)
    BY <1>1, <1>5, <2>1 DEF IsInjective
  <2>2. CASE ~(i <= Len(loaded)) /\ ~(j <= Len(loaded))
    <3>1. i - Len(loaded) = j - Len(loaded)
      BY <1>1, <1>5, <2>2 DEF IsInjective
    <3> QED
      BY <1>3, <1>4, <3>1
  <2>3. ASSUME NEW k \in DOMAIN s, NEW m \in DOMAIN s, k <= Len(loaded), ~(m <= Len(loaded))
        PROVE  s[k] # s[m]
    <3>1. s[k] \in ToSet(loaded)
      BY <1>5, <2>3 DEF ToSet
    <3>2. s[m] \in ToSet(pending)
      BY <1>5, <2>3 DEF ToSet
    <3> QED
      BY <1>1, <3>1, <3>2
  <2> QED
    BY <2>1, <2>2, <2>3
<1>7. \A p \in ToSet(loaded) : \A x \in Action \cap ToSet(Traits(p).surfaces) : owner[x] = p
  BY DEF LInv, OwnersAreUp, Up
<1> QED
  BY <1>6, <1>7 DEF LInv, LTyped, LPlaces, LTypeOK, s

(* The loader, whatever the plugins of an agent require, register and fail *)
(* at: it is LInv in every state.                                          *)
THEOREM LoaderInvariant == LSpec => []LInv
<1>1. LInit => LInv
  BY LoaderInit
<1>2. LInv /\ [LNext]_lvars => LInv'
  BY LoaderStep
<1> QED
  BY <1>1, <1>2, PTL DEF LSpec

----------------------------------------------------------------------------
(* The prompt (Prompt).                                                    *)

PBlock == [id : BlockId, target : {"system", "messages"}, priority : Int]
Rendering == Seq([id : BlockId, text : Text])
Composition == [system : Rendering, messages : Rendering, copy : Seq(PBlock)]
OneEach(s) == \A i, j \in DOMAIN s : s[i].id = s[j].id => i = j

PTyped ==
  /\ plan \in Plans /\ todo \in Seq(ToSet(plan)) /\ up \in Seq(ToSet(plan))
  /\ mode \in {"loading", "running", "stopped"}
  /\ blocks \in Seq(PBlock) /\ OneEach(blocks)
  /\ answering \subseteq Tool
  /\ tools \in Seq(Tool) /\ IsInjective(tools)
  /\ text \in [BlockId -> Text]
  /\ failing \subseteq BlockId
  /\ composing \in Composition /\ prompt \in Composition
  /\ changed \subseteq BlockId

(* From the first setup on a tool answers, or its plugin failed after it    *)
(* had declared it.                                                        *)
ToolsAnswer ==
  mode \in {"loading", "running"} => \A t \in ToSet(tools) : t \in answering \/ FailedSetup(t)

PInv == PTyped /\ ToolsAnswer

LEMMA Least == ASSUME NEW n \in SUBSET Nat, n # {} PROVE Min(n) \in n /\ \A i \in n : Min(n) <= i
<1> DEFINE R == OpToRel(<, Nat)
<1>1. IsWellFoundedOn(R, Nat)
  BY NatLessThanWellFounded
<1>2. R = {ss \in Nat \X Nat : ss[1] < ss[2]}
  BY DEF OpToRel
<1> HIDE DEF R
<1>3. PICK m \in n : \A i \in n : ~(<<i, m>> \in R)
  BY <1>1, WFMin
<1>4. \A i \in n : ~(i < m)
  BY <1>2, <1>3
<1>5. \A i \in n : m <= i
  BY <1>4
<1> QED
  BY <1>3, <1>5 DEF Min

LEMMA Greatest == Max(Text) \in Text
<1> DEFINE R == {p \in Nat \X Nat : p[1] < p[2]}
<1>1. Text \subseteq Nat /\ Text # {} /\ IsFiniteSet(Text)
  BY TextAssumption
<1>2. \A i, j \in Text : <<i, j>> \in R <=> i < j
  BY <1>1
<1> HIDE DEF R
<1>3. \A i \in Text : <<i, i>> \notin R
  BY <1>1, <1>2
<1>4. ASSUME NEW i \in Text, NEW j \in Text PROVE <<i, j>> \in R \/ <<j, i>> \in R \/ i = j
  <2>1. i < j \/ j < i \/ i = j
    BY <1>1
  <2> QED
    BY <1>2, <2>1
<1>5. ASSUME NEW i \in Text, NEW j \in Text, NEW k \in Text, <<i, j>> \in R, <<j, k>> \in R
      PROVE  <<i, k>> \in R
  <2>1. i < j /\ j < k
    BY <1>2, <1>5
  <2>2. i < k
    BY <1>1, <2>1
  <2> QED
    BY <1>2, <2>2
<1>6. /\ Cardinality(Text) \in Nat
      /\ \A k \in 1..Cardinality(Text) : \E i \in Text : Cardinality(Below(Text, R, i)) = k
  BY <1>1, <1>3, <1>4, <1>5, Ranks
<1>7. Cardinality(Text) \in 1..Cardinality(Text)
  BY <1>1, <1>6, FS_EmptySet
<1>8. PICK i \in Text : Cardinality(Below(Text, R, i)) = Cardinality(Text)
  BY <1>6, <1>7
<1>9. Below(Text, R, i) = Text
  <2>1. Below(Text, R, i) \subseteq Text
    BY DEF Below
  <2> QED
    BY <1>1, <1>8, <2>1, FS_Subset
<1>10. \A j \in Text : j < i \/ j = i
  BY <1>2, <1>9 DEF Below
<1>11. \A j \in Text : i >= j
  BY <1>1, <1>10
<1> QED
  BY <1>11 DEF Max

(* What a compose makes of the blocks is a list of renderings. *)
LEMMA RankedType ==
  ASSUME NEW n, IsFiniteSet(n), NEW R,
         \A i \in n : <<i, i>> \notin R,
         \A i, j \in n : <<i, j>> \in R \/ <<j, i>> \in R \/ i = j,
         \A i, j, k \in n : <<i, j>> \in R /\ <<j, k>> \in R => <<i, k>> \in R
  PROVE  Cardinality(n) \in Nat /\ Ranked(n, R) \in [1..Cardinality(n) -> n]
<1>1. /\ Cardinality(n) \in Nat
      /\ \A k \in 1..Cardinality(n) : \E i \in n : Cardinality(Below(n, R, i)) = k
  BY Ranks
<1>2. Ranked(n, R) = [k \in 1..Cardinality(n) |-> CHOOSE i \in n : Cardinality(Below(n, R, i)) = k]
  BY DEF Ranked, Below
<1>3. \A k \in 1..Cardinality(n) : (CHOOSE i \in n : Cardinality(Below(n, R, i)) = k) \in n
  BY <1>1
<1> QED
  BY <1>1, <1>2, <1>3

LEMMA RenderedType ==
  ASSUME PTyped, NEW copy \in Seq(PBlock), NEW target
  PROVE  Rendered(copy, target) \in Rendering
<1> DEFINE n == {i \in DOMAIN copy : /\ copy[i].target = target
                                     /\ copy[i].id \notin failing
                                     /\ text[copy[i].id] # 0}
           R == ByPriority(copy)
           sorted == Ranked(n, R)
           item(k) == [id |-> copy[sorted[k]].id, text |-> text[copy[sorted[k]].id]]
<1>1. Len(copy) \in Nat /\ DOMAIN copy = 1..Len(copy) /\ \A i \in DOMAIN copy : copy[i] \in PBlock
  BY LenProperties, ElementOfSeq
<1>2. n \subseteq DOMAIN copy /\ \A i \in n : copy[i].id \in BlockId /\ copy[i].priority \in Int
  BY <1>1 DEF PBlock
<1>3. IsFiniteSet(n)
  <2>1. 1 \in Int /\ Len(copy) \in Int
    BY <1>1
  <2>2. IsFiniteSet(1..Len(copy))
    BY <2>1, FS_Interval
  <2> QED
    BY <1>1, <2>2, FS_Subset
<1>4. Rendered(copy, target) = [k \in DOMAIN sorted |-> item(k)]
  BY DEF Rendered
<1> HIDE DEF n
<1>5. \A i, j \in n : <<i, j>> \in R <=> \/ copy[i].priority > copy[j].priority
                                         \/ copy[i].priority = copy[j].priority /\ i < j
  BY <1>1, <1>2 DEF ByPriority
<1> HIDE DEF R
<1>6. ASSUME NEW i \in n PROVE <<i, i>> \notin R
  BY <1>1, <1>2, <1>5
<1>7. ASSUME NEW i \in n, NEW j \in n PROVE <<i, j>> \in R \/ <<j, i>> \in R \/ i = j
  <2>1. i \in Nat /\ j \in Nat /\ copy[i].priority \in Int /\ copy[j].priority \in Int
    BY <1>1, <1>2
  <2> QED
    BY <1>5, <2>1
<1>8. ASSUME NEW i \in n, NEW j \in n, NEW k \in n, <<i, j>> \in R, <<j, k>> \in R
      PROVE  <<i, k>> \in R
  <2>1. /\ i \in Nat /\ j \in Nat /\ k \in Nat
        /\ copy[i].priority \in Int /\ copy[j].priority \in Int /\ copy[k].priority \in Int
    BY <1>1, <1>2
  <2> QED
    BY <1>5, <1>8, <2>1
<1>9. Cardinality(n) \in Nat /\ sorted \in [1..Cardinality(n) -> n]
  BY <1>3, <1>6, <1>7, <1>8, RankedType
<1> HIDE DEF sorted
<1>10. ASSUME NEW k \in 1..Cardinality(n) PROVE item(k) \in [id : BlockId, text : Text]
  <2>1. sorted[k] \in n
    BY <1>9
  <2>2. copy[sorted[k]].id \in BlockId
    BY <1>2, <2>1
  <2> QED
    BY <2>2 DEF PTyped
<1> HIDE DEF item
<1>11. [k \in 1..Cardinality(n) |-> item(k)] \in Seq([id : BlockId, text : Text])
  <2> DEFINE N == Cardinality(n)
             E == [id : BlockId, text : Text]
  <2>1. N \in Nat /\ \A k \in 1..N : item(k) \in E
    BY <1>9, <1>10
  <2> HIDE DEF N, E
  <2>2. [k \in 1..N |-> item(k)] \in Seq(E)
    BY <2>1
  <2> QED
    BY <2>2 DEF N, E
<1> QED
  BY <1>4, <1>9, <1>11 DEF Rendering

(* A block is taken out by its id. *)
LEMMA BlockRemoved ==
  ASSUME PTyped, NEW id
  PROVE  RemoveBlock(id) \in Seq(PBlock) /\ OneEach(RemoveBlock(id))
<1> DEFINE I == {i \in 1..Len(blocks) : blocks[i].id = id}
<1>1. /\ blocks \in Seq(PBlock) /\ Len(blocks) \in Nat /\ DOMAIN blocks = 1..Len(blocks)
      /\ OneEach(blocks)
  BY LenProperties DEF PTyped
<1>2. I # {} => RemoveBlock(id) = RemoveAt(blocks, Min(I))
  BY DEF RemoveBlock, RemoveFirstMatch, SelectInSeq
<1>3. I = {} => RemoveBlock(id) = blocks
  BY DEF RemoveBlock, RemoveFirstMatch
<1>4. I \in SUBSET Nat /\ I \subseteq DOMAIN blocks
  BY <1>1
<1> HIDE DEF I
<1>5. CASE I = {}
  BY <1>1, <1>3, <1>5
<1>6. CASE I # {}
  <2> DEFINE m == Min(I)
             t == RemoveAt(blocks, m)
  <2>1. m \in DOMAIN blocks
    BY <1>4, <1>6, Least
  <2>2. IsInjective(blocks)
    BY <1>1 DEF OneEach, IsInjective
  <2> HIDE DEF m
  <2>3. t \in Seq(PBlock) /\ IsInjective(t) /\ ToSet(t) = ToSet(blocks) \ {blocks[m]}
    BY <1>1, <2>1, <2>2, Removed
  <2> HIDE DEF t
  <2>4. OneEach(t)
    <3> SUFFICES ASSUME NEW i \in DOMAIN t, NEW j \in DOMAIN t, t[i].id = t[j].id PROVE i = j
      BY DEF OneEach
    <3>1. t[i] \in ToSet(blocks) /\ t[j] \in ToSet(blocks)
      BY <2>3 DEF ToSet
    <3>2. PICK k \in DOMAIN blocks : blocks[k] = t[i]
      BY <3>1 DEF ToSet
    <3>3. PICK l \in DOMAIN blocks : blocks[l] = t[j]
      BY <3>1 DEF ToSet
    <3>4. k = l
      BY <1>1, <3>2, <3>3 DEF OneEach
    <3> QED
      BY <2>3, <3>2, <3>3, <3>4 DEF IsInjective
  <2> QED
    BY <1>2, <1>6, <2>3, <2>4 DEF t, m
<1> QED
  BY <1>5, <1>6

LEMMA BlockSet ==
  ASSUME PTyped, NEW p, p.id \in BlockId, p.target \in {"system", "messages"}, p.priority \in Int
  PROVE  SetBlock(p) \in Seq(PBlock) /\ OneEach(SetBlock(p))
<1> DEFINE block == [id |-> p.id, target |-> p.target, priority |-> p.priority]
<1>1. /\ blocks \in Seq(PBlock) /\ Len(blocks) \in Nat /\ DOMAIN blocks = 1..Len(blocks)
      /\ \A i \in DOMAIN blocks : blocks[i] \in PBlock
      /\ OneEach(blocks)
  BY LenProperties, ElementOfSeq DEF PTyped
<1>2. block \in PBlock /\ block.id = p.id
  BY DEF PBlock
<1>3. /\ (\E i \in DOMAIN blocks : blocks[i].id = p.id) =>
           SetBlock(p) = [i \in DOMAIN blocks |-> IF blocks[i].id = p.id THEN block ELSE blocks[i]]
      /\ ~(\E i \in DOMAIN blocks : blocks[i].id = p.id) => SetBlock(p) = Append(blocks, block)
  BY DEF SetBlock
<1> HIDE DEF block
<1>4. CASE \E i \in DOMAIN blocks : blocks[i].id = p.id
  <2> DEFINE t == [i \in 1..Len(blocks) |-> IF blocks[i].id = p.id THEN block ELSE blocks[i]]
  <2>1. t \in Seq(PBlock)
    BY <1>1, <1>2
  <2>2. DOMAIN t = DOMAIN blocks /\ \A i \in DOMAIN t : t[i].id = blocks[i].id
    BY <1>1, <1>2
  <2>3. SetBlock(p) = t
    BY <1>1, <1>3, <1>4
  <2> HIDE DEF t
  <2>4. OneEach(t)
    BY <1>1, <2>2 DEF OneEach
  <2> QED
    BY <2>1, <2>3, <2>4
<1>5. CASE ~(\E i \in DOMAIN blocks : blocks[i].id = p.id)
  <2> DEFINE t == Append(blocks, block)
  <2>1. /\ t \in Seq(PBlock) /\ Len(t) = Len(blocks) + 1 /\ t[Len(blocks) + 1] = block
        /\ \A i \in 1..Len(blocks) : t[i] = blocks[i]
    BY <1>1, <1>2, Appended
  <2>2. DOMAIN t = 1..(Len(blocks) + 1)
    BY <2>1, LenProperties
  <2>3. SetBlock(p) = t
    BY <1>3, <1>5
  <2> HIDE DEF t
  <2>4. OneEach(t)
    <3> SUFFICES ASSUME NEW i \in DOMAIN t, NEW j \in DOMAIN t, t[i].id = t[j].id PROVE i = j
      BY DEF OneEach
    <3>1. (i \in 1..Len(blocks) \/ i = Len(blocks) + 1) /\ (j \in 1..Len(blocks) \/ j = Len(blocks) + 1)
      BY <1>1, <2>2
    <3>2. \A k \in 1..Len(blocks) : t[k].id # p.id
      BY <1>1, <1>5, <2>1
    <3> QED
      BY <1>1, <1>2, <2>1, <3>1, <3>2 DEF OneEach
  <2> QED
    BY <2>1, <2>3, <2>4
<1> QED
  BY <1>4, <1>5

LEMMA PromptInit == PInit => PInv
<1> SUFFICES ASSUME PInit PROVE PInv
  OBVIOUS
<1>1. plan \in Seq(ToSet(plan)) /\ <<>> \in Seq(ToSet(plan))
  BY PlansAssumption DEF PInit
<1>2. NoPrompt \in Composition
  BY DEF NoPrompt, Composition, Rendering
<1>3. /\ blocks \in Seq(PBlock) /\ OneEach(blocks) /\ tools \in Seq(Tool) /\ IsInjective(tools)
  BY DEF PInit, OneEach, IsInjective
<1>4. text \in [BlockId -> Text]
  BY Greatest DEF PInit
<1>5. {} \in SUBSET BlockId /\ {} \in SUBSET Tool
  OBVIOUS
<1>6. PTyped
  BY <1>1, <1>2, <1>3, <1>4, <1>5 DEF PInit, PTyped
<1>7. ToSet(tools) = {}
  BY DEF PInit, ToSet
<1> QED
  BY <1>6, <1>7 DEF PInv, ToolsAnswer

(* What the plan says of a plugin. *)
LEMMA Planned ==
  ASSUME plan \in Plans, NEW p \in ToSet(plan)
  PROVE  /\ p.id \in BlockId /\ p.priority \in Int
         /\ p.target \in {"system", "messages"}
         /\ p.tool \in Tool \cup {NoTool}
         /\ p.throws \in {"no", "early", "late"}
BY PlansAssumption

LEMMA FailedStays == ASSUME plan' = plan, NEW t, FailedSetup(t) PROVE FailedSetup(t)'
BY DEF FailedSetup

LEMMA ToolRegistered ==
  ASSUME PTyped, NEW t \in Tool \cup {NoTool}
  PROVE  /\ RegisterTool(t) \in Seq(Tool) /\ IsInjective(RegisterTool(t))
         /\ ToSet(RegisterTool(t)) \subseteq ToSet(tools) \cup ({t} \ {NoTool})
<1>1. tools \in Seq(Tool) /\ IsInjective(tools)
  BY DEF PTyped
<1>2. CASE t = NoTool \/ t \in ToSet(tools)
  BY <1>1, <1>2 DEF RegisterTool
<1>3. CASE ~(t = NoTool \/ t \in ToSet(tools))
  <2>1. /\ Append(tools, t) \in Seq(Tool) /\ ToSet(Append(tools, t)) = ToSet(tools) \cup {t}
        /\ IsInjective(Append(tools, t))
    BY <1>1, <1>3, Appended
  <2>2. RegisterTool(t) = Append(tools, t)
    BY <1>3 DEF RegisterTool
  <2> QED
    BY <1>3, <2>1, <2>2
<1> QED
  BY <1>2, <1>3

LEMMA SetUpKeeps == ASSUME PInv, SetUp PROVE PInv'
<1> DEFINE p == Head(todo)
           own == {p.tool} \ {NoTool}
<1>1. /\ mode = "loading" /\ todo # <<>> /\ todo' = Tail(todo)
      /\ UNCHANGED <<plan, mode, text, failing, composing, prompt, changed>>
  BY DEF SetUp
<1>2. p \in ToSet(plan) /\ todo' \in Seq(ToSet(plan))
  BY <1>1, HeadTailProperties DEF PInv, PTyped
<1>3. /\ p.id \in BlockId /\ p.priority \in Int /\ p.target \in {"system", "messages"}
      /\ p.tool \in Tool \cup {NoTool}
  BY <1>2, Planned DEF PInv, PTyped
<1>4. own \subseteq Tool
  BY <1>3
<1>5. \/ answering' = Undone(answering, p) /\ UNCHANGED <<blocks, tools, up>>
      \/ /\ p.throws = "late" /\ p.tool \notin answering
         /\ blocks' = RemoveBlock(p.id) /\ answering' = Undone(answering \cup own, p)
         /\ tools' = RegisterTool(p.tool) /\ UNCHANGED up
      \/ /\ p.tool \notin answering /\ blocks' = SetBlock(p) /\ answering' = answering \cup own
         /\ tools' = RegisterTool(p.tool) /\ up' = <<p>> \o up
  BY DEF SetUp
<1>6. answering \subseteq Tool /\ up \in Seq(ToSet(plan))
  BY DEF PInv, PTyped
<1>7. Undone(answering, p) = answering /\ (p.tool \notin answering => Undone(answering \cup own, p) = answering)
  BY DEF Undone
<1>8. (p.throws = "late" => FailedSetup(p.tool)) /\ (answering' = answering \/ answering' = answering \cup own)
  <2>1. PICK i \in DOMAIN plan : plan[i] = p
    BY <1>2 DEF ToSet
  <2> QED
    BY <1>5, <1>7, <2>1 DEF FailedSetup
<1>9. /\ blocks' \in Seq(PBlock) /\ OneEach(blocks') /\ answering' \subseteq Tool
      /\ tools' \in Seq(Tool) /\ IsInjective(tools') /\ up' \in Seq(ToSet(plan))
  <2>1. blocks \in Seq(PBlock) /\ OneEach(blocks) /\ tools \in Seq(Tool) /\ IsInjective(tools)
    BY DEF PInv, PTyped
  <2>2. RegisterTool(p.tool) \in Seq(Tool) /\ IsInjective(RegisterTool(p.tool))
    BY <1>3, ToolRegistered DEF PInv
  <2>3. RemoveBlock(p.id) \in Seq(PBlock) /\ OneEach(RemoveBlock(p.id))
    BY BlockRemoved DEF PInv
  <2>4. SetBlock(p) \in Seq(PBlock) /\ OneEach(SetBlock(p))
    BY <1>3, BlockSet DEF PInv
  <2>5. <<p>> \in Seq(ToSet(plan))
    BY <1>2
  <2>6. <<p>> \o up \in Seq(ToSet(plan))
    BY <1>6, <2>5, ConcatProperties
  <2>7. answering' \subseteq Tool
    BY <1>4, <1>6, <1>8
  <2> HIDE DEF p
  <2> QED
    BY <1>5, <1>6, <2>1, <2>2, <2>3, <2>4, <2>6, <2>7
<1>10. PTyped'
  BY <1>1, <1>2, <1>9 DEF PInv, PTyped
<1>11. ToolsAnswer'
  <2> SUFFICES ASSUME NEW t \in ToSet(tools') PROVE t \in answering' \/ FailedSetup(t)
    BY <1>1 DEF ToolsAnswer, ToSet, FailedSetup
  <2>1. t \in ToSet(tools) => t \in answering' \/ FailedSetup(t)
    BY <1>1, <1>8 DEF PInv, ToolsAnswer
  <2>2. t \notin ToSet(tools) => tools' = RegisterTool(p.tool) /\ t \in own
    BY <1>3, <1>5, ToolRegistered DEF PInv
  <2>3. t \notin ToSet(tools) => p.throws = "late" \/ answering' = answering \cup own
    BY <1>5, <2>2
  <2> QED
    BY <1>8, <2>1, <2>2, <2>3
<1> QED
  BY <1>10, <1>11 DEF PInv

LEMMA ComposeKeeps == ASSUME PInv, ComposeSystem \/ ComposeMessages PROVE PInv'
<1>1. CASE ComposeSystem
  <2> DEFINE part == Rendered(blocks, "system")
  <2>1. /\ composing' = [NoPrompt EXCEPT !.copy = blocks, !.system = part] /\ changed' = {}
        /\ UNCHANGED <<plan, todo, up, mode, blocks, answering, tools, text, failing, prompt>>
    BY <1>1 DEF ComposeSystem
  <2>2. blocks \in Seq(PBlock) /\ part \in Rendering
    BY RenderedType DEF PInv, PTyped
  <2> HIDE DEF part
  <2>3. composing' \in Composition
    <3>1. composing' = [system |-> part, messages |-> <<>>, copy |-> blocks]
      BY <2>1 DEF NoPrompt
    <3>2. <<>> \in Rendering
      BY DEF Rendering
    <3> QED
      BY <2>2, <3>1, <3>2 DEF Composition
  <2>4. PTyped'
    BY <2>1, <2>3 DEF PInv, PTyped
  <2> QED
    BY <2>1, <2>4 DEF PInv, ToolsAnswer, FailedSetup, ToSet
<1>2. CASE ComposeMessages
  <2> DEFINE part == Rendered(composing.copy, "messages")
  <2>1. /\ prompt' = [composing EXCEPT !.messages = part] /\ composing' = NoPrompt
        /\ UNCHANGED <<plan, todo, up, mode, blocks, answering, tools, text, failing, changed>>
    BY <1>2 DEF ComposeMessages
  <2>2. composing \in Composition /\ composing.copy \in Seq(PBlock)
    BY DEF PInv, PTyped, Composition
  <2>3. part \in Rendering
    BY <2>2, RenderedType DEF PInv
  <2> HIDE DEF part
  <2>4. prompt' \in Composition
    BY <2>1, <2>2, <2>3 DEF Composition
  <2>5. composing' \in Composition
    BY <2>1 DEF NoPrompt, Composition, Rendering
  <2>6. PTyped'
    BY <2>1, <2>4, <2>5 DEF PInv, PTyped
  <2> QED
    BY <2>1, <2>6 DEF PInv, ToolsAnswer, FailedSetup, ToSet
<1> QED
  BY <1>1, <1>2

LEMMA TakeNextDownKeeps == ASSUME PInv, TakeNextDown PROVE PInv'
<1>1. /\ mode = "stopped"
      /\ UNCHANGED <<plan, todo, mode, text, failing, composing, prompt, changed>>
      /\ \/ /\ up # <<>> /\ up' = Tail(up) /\ blocks' = RemoveBlock(Head(up).id)
            /\ answering' = answering \ {Head(up).tool} /\ UNCHANGED tools
         \/ tools' = <<>> /\ UNCHANGED <<up, blocks, answering>>
  BY DEF TakeNextDown
<1>2. up \in Seq(ToSet(plan)) /\ (up # <<>> => Tail(up) \in Seq(ToSet(plan)))
  BY HeadTailProperties DEF PInv, PTyped
<1>3. RemoveBlock(Head(up).id) \in Seq(PBlock) /\ OneEach(RemoveBlock(Head(up).id))
  BY BlockRemoved DEF PInv
<1>4. <<>> \in Seq(Tool) /\ IsInjective(<<>>)
  BY DEF IsInjective
<1>5. /\ up' \in Seq(ToSet(plan)) /\ blocks' \in Seq(PBlock) /\ OneEach(blocks')
      /\ answering' \subseteq Tool /\ tools' \in Seq(Tool) /\ IsInjective(tools')
  BY <1>1, <1>2, <1>3, <1>4 DEF PInv, PTyped
<1>6. PTyped'
  BY <1>1, <1>5 DEF PInv, PTyped
<1> QED
  BY <1>1, <1>6 DEF PInv, ToolsAnswer

LEMMA PromptStep == PInv /\ [PNext]_pvars => PInv'
<1> SUFFICES ASSUME PInv, [PNext]_pvars PROVE PInv'
  OBVIOUS
<1>1. CASE SetUp
  BY <1>1, SetUpKeeps
<1>2. CASE Started
  <2>1. /\ mode = "loading" /\ mode' = "running"
        /\ UNCHANGED <<plan, todo, up, blocks, answering, tools, text, failing, composing, prompt, changed>>
    BY <1>2 DEF Started
  <2> QED
    BY <2>1 DEF PInv, PTyped, ToolsAnswer, FailedSetup, ToSet, OneEach, IsInjective
<1>3. ASSUME NEW id \in BlockId, Falter(id) PROVE PInv'
  <2>1. /\ failing' = {id} \ failing /\ changed' = changed \cup {id} \cup failing
        /\ UNCHANGED <<plan, todo, up, mode, blocks, answering, tools, text, composing, prompt>>
    BY <1>3 DEF Falter
  <2>2. failing' \subseteq BlockId /\ changed' \subseteq BlockId
    BY <2>1 DEF PInv, PTyped
  <2>3. PTyped'
    BY <2>1, <2>2 DEF PInv, PTyped
  <2> QED
    BY <2>1, <2>3 DEF PInv, ToolsAnswer, FailedSetup, ToSet
<1>4. ASSUME NEW id \in BlockId, NEW t \in Text, Rewrite(id, t) PROVE PInv'
  <2>1. /\ text' = [text EXCEPT ![id] = t] /\ changed' = changed \cup {id}
        /\ UNCHANGED <<plan, todo, up, mode, blocks, answering, tools, failing, composing, prompt>>
    BY <1>4 DEF Rewrite
  <2>2. text' \in [BlockId -> Text] /\ changed' \subseteq BlockId
    BY <2>1 DEF PInv, PTyped
  <2>3. PTyped'
    BY <2>1, <2>2 DEF PInv, PTyped
  <2> QED
    BY <2>1, <2>3 DEF PInv, ToolsAnswer, FailedSetup, ToSet
<1>5. CASE ComposeSystem \/ ComposeMessages
  BY <1>5, ComposeKeeps
<1>6. CASE StopComposing
  <2>1. /\ mode' = "stopped"
        /\ UNCHANGED <<plan, todo, up, blocks, answering, tools, text, failing, composing, prompt, changed>>
    BY <1>6 DEF StopComposing
  <2>2. PTyped'
    BY <2>1 DEF PInv, PTyped
  <2> QED
    BY <2>1, <2>2 DEF PInv, ToolsAnswer
<1>7. CASE TakeNextDown
  BY <1>7, TakeNextDownKeeps
<1>8. CASE UNCHANGED pvars
  <2>1. UNCHANGED <<plan, todo, up, mode, blocks, answering, tools, text, failing, composing, prompt, changed>>
    BY <1>8 DEF pvars
  <2>2. PTyped'
    BY <2>1 DEF PInv, PTyped
  <2> QED
    BY <2>1, <2>2 DEF PInv, ToolsAnswer, FailedSetup, ToSet
<1> QED
  BY <1>1, <1>2, <1>3, <1>4, <1>5, <1>6, <1>7, <1>8 DEF PNext

(* The prompt and the tools that go with it, for every load order and      *)
(* whatever the blocks render: it is PInv in every state.                  *)
THEOREM PromptInvariant == PInit /\ [][PNext]_pvars => []PInv
<1>1. PInit => PInv
  BY PromptInit
<1>2. PInv /\ [PNext]_pvars => PInv'
  BY PromptStep
<1> QED
  BY <1>1, <1>2, PTL

LEMMA PromptTypes == PInv => PTypeOK
<1> SUFFICES ASSUME PInv PROVE PTypeOK
  OBVIOUS
<1>1. \A s \in Rendering : IsPart(s)
  <2> SUFFICES ASSUME NEW s \in Rendering, NEW i \in DOMAIN s PROVE s[i].id \in BlockId /\ s[i].text \in Text
    BY DEF IsPart
  <2>1. s[i] \in [id : BlockId, text : Text]
    BY LenProperties, ElementOfSeq DEF Rendering
  <2> QED
    BY <2>1
<1>2. composing.system \in Rendering /\ prompt.system \in Rendering /\ prompt.messages \in Rendering
  BY DEF PInv, PTyped, Composition
<1> QED
  BY <1>1, <1>2 DEF PInv, PTyped, PTypeOK, OneEach

----------------------------------------------------------------------------
(* The dispatch (Dispatch).                                                *)

Frame_ ==
  [at : Event \cup {"loop"}, calls : Seq(Call), copy : Seq(Subscriber), next : Nat,
   due : SUBSET Subscriber, served : SUBSET Subscriber]

(* An emission has called the first of its copy, and owes no one else; a    *)
(* loop has a call to make.                                                *)
Sane(f) ==
  /\ f.at \in Event =>
       /\ f.next \in 1..(Len(f.copy) + 1)
       /\ f.due \subseteq ToSet(f.copy)
       /\ \A i \in 1..(f.next - 1) : f.copy[i] \in f.served
  /\ f.at = "loop" => f.calls # <<>>
SaneFrame == {f \in Frame_ : Sane(f)}

DInv ==
  /\ subs \in [Event -> Seq(Subscriber)] /\ \A ev \in Event : IsInjective(subs[ev])
  /\ stack \in Seq(SaneFrame)
  /\ found \in [Call -> Found] /\ outcome \in [Call -> Outcome]
  /\ order \in Seq(Seq(Call))
  /\ conducting \in BOOLEAN
  /\ replies \in 0..MaxReplies /\ changes \in 0..MaxChanges

LEMMA FirstRemoved ==
  ASSUME NEW S, NEW s \in Seq(S), IsInjective(s), NEW e
  PROVE  RemoveFirst(s, e) \in Seq(S) /\ IsInjective(RemoveFirst(s, e))
<1> DEFINE I == {i \in 1..Len(s) : s[i] = e}
<1>1. Len(s) \in Nat /\ DOMAIN s = 1..Len(s)
  BY LenProperties
<1>2. I # {} => RemoveFirst(s, e) = RemoveAt(s, Min(I))
  BY DEF RemoveFirst, SelectInSeq
<1>3. I = {} => RemoveFirst(s, e) = s
  BY DEF RemoveFirst
<1>4. I \in SUBSET Nat /\ I \subseteq DOMAIN s
  BY <1>1
<1> HIDE DEF I
<1>5. CASE I = {}
  BY <1>3, <1>5
<1>6. CASE I # {}
  <2> DEFINE m == Min(I)
  <2>1. m \in DOMAIN s
    BY <1>4, <1>6, Least
  <2> HIDE DEF m
  <2>2. RemoveAt(s, m) \in Seq(S) /\ IsInjective(RemoveAt(s, m))
    BY <2>1, Removed
  <2> QED
    BY <1>2, <1>6, <2>2 DEF m
<1> QED
  BY <1>5, <1>6

(* A set in some order. *)
LEMMA SomeOrder ==
  ASSUME NEW n, IsFiniteSet(n)
  PROVE  SetToSeq(n) \in Seq(n) /\ IsInjective(SetToSeq(n)) /\ ToSet(SetToSeq(n)) = n
<1> DEFINE N == Cardinality(n)
           f == SetToSeq(n)
<1>1. N \in Nat /\ ExistsBijection(1..N, n)
  BY FS_CardinalityType
<1>2. \E g \in [1..N -> n] : IsInjective(g)
  BY <1>1 DEF ExistsBijection, Bijection, Injection
<1>3. f \in [1..N -> n] /\ IsInjective(f)
  BY <1>2 DEF SetToSeq
<1> HIDE DEF f
<1>4. f \in Injection(1..N, n)
  BY <1>3 DEF Injection
<1>5. IsFiniteSet(1..N) /\ Cardinality(1..N) = N
  <2> HIDE DEF N
  <2>1. 1 \in Int /\ N \in Int
    BY <1>1
  <2>2. Cardinality(1..N) = IF 1 > N THEN 0 ELSE N - 1 + 1
    BY <2>1, FS_Interval
  <2> QED
    BY <1>1, <2>1, <2>2, FS_Interval
<1>6. f \in Surjection(1..N, n)
  BY <1>4, <1>5, FS_Injection
<1> HIDE DEF N
<1>7. ToSet(f) = n
  BY <1>3, <1>6 DEF ToSet, Surjection
<1>8. f \in Seq(n)
  BY <1>1, <1>3
<1> QED
  BY <1>3, <1>7, <1>8 DEF f

LEMMA DispatchInit == DInit => DInv
<1> SUFFICES ASSUME DInit PROVE DInv
  OBVIOUS
<1>1. PICK L \in SUBSET Listener :
        subs = [ev \in Event |-> SetToSeq(L) \o (IF ev = "llm.return" THEN <<Conductor>> ELSE <<>>)]
  BY DEF DInit
<1> DEFINE s == SetToSeq(L)
<1>2. IsFiniteSet(L)
  BY DispatchBounds, FS_Subset
<1>3. s \in Seq(L) /\ IsInjective(s) /\ ToSet(s) = L
  BY <1>2, SomeOrder
<1> HIDE DEF s
<1>4. s \in Seq(Subscriber) /\ Conductor \notin ToSet(s) /\ Conductor \in Subscriber
  <2>1. L \subseteq Subscriber
    BY DEF Subscriber
  <2> QED
    BY <1>3, <2>1, SeqMonotonic, ConductorAssumption DEF Subscriber
<1>5. s \o <<Conductor>> = Append(s, Conductor) /\ s \o <<>> = s
  BY <1>4, ConcatEmptySeq
<1>6. Append(s, Conductor) \in Seq(Subscriber) /\ IsInjective(Append(s, Conductor))
  BY <1>3, <1>4, Appended
<1>7. /\ subs["llm.return"] = Append(s, Conductor) /\ subs["tool.result"] = s
      /\ DOMAIN subs = Event /\ subs = [ev \in Event |-> subs[ev]]
  BY <1>1, <1>5 DEF Event, s
<1>8. \A ev \in Event : subs[ev] \in Seq(Subscriber) /\ IsInjective(subs[ev])
  BY <1>3, <1>4, <1>6, <1>7 DEF Event
<1>9. subs \in [Event -> Seq(Subscriber)]
  BY <1>7, <1>8
<1>10. /\ 0 \in 0..MaxReplies /\ 0 \in 0..MaxChanges /\ TRUE \in BOOLEAN
       /\ <<>> \in Seq(SaneFrame) /\ <<>> \in Seq(Seq(Call))
  BY DispatchBounds
<1>11. outcome \in [Call -> Outcome]
  BY DEF DInit, Outcome
<1> QED
  BY <1>8, <1>9, <1>10, <1>11 DEF DInit, DInv

LEMMA EmissionSane ==
  ASSUME DInv, NEW ev \in Event, NEW calls \in Seq(Call)
  PROVE  Emission(ev, calls) \in SaneFrame /\ (calls # <<>> => Loop(calls) \in SaneFrame)
<1>1. subs[ev] \in Seq(Subscriber) /\ subs["llm.return"] \in Seq(Subscriber)
  BY DEF DInv, Event
<1>2. \A s \in Seq(Subscriber) : Len(s) \in Nat /\ ToSet(s) \in SUBSET Subscriber
  BY LenProperties DEF ToSet
<1>3. Emission(ev, calls) \in Frame_ /\ Emission("llm.return", calls) \in Frame_
  BY <1>1, <1>2 DEF Emission, Frame_, Event
<1>4. Sane(Emission(ev, calls))
  BY <1>1, <1>2 DEF Emission, Sane, Event
<1>5. Loop(calls) \in Frame_ /\ Loop(calls).at = "loop" /\ Loop(calls).calls = calls
  BY <1>3 DEF Loop, Frame_, Emission
<1> QED
  BY <1>3, <1>4, <1>5 DEF SaneFrame, Sane, Event

(* The innermost emission or loop, and what it is in. *)
LEMMA TopAndRest ==
  ASSUME DInv, ~Idle
  PROVE  /\ Top \in SaneFrame /\ Top \in Frame_ /\ Sane(Top)
         /\ Pop \in Seq(SaneFrame) /\ Len(Pop) = Len(stack) - 1 /\ Len(stack) \in Nat
         /\ DOMAIN stack = 1..Len(stack)
<1>1. stack \in Seq(SaneFrame) /\ stack # <<>>
  BY DEF DInv, Idle
<1>2. Len(stack) \in Nat /\ DOMAIN stack = 1..Len(stack) /\ Len(stack) # 0
  BY <1>1, LenProperties
<1>3. \A i \in 1..Len(stack) : stack[i] \in SaneFrame
  BY <1>1, ElementOfSeq
<1>4. Top \in SaneFrame
  BY <1>2, <1>3 DEF Top
<1>5. Pop \in Seq(SaneFrame) /\ Len(Pop) = Len(stack) - 1
  BY <1>1, AllButLast DEF Pop
<1> QED
  BY <1>2, <1>4, <1>5 DEF SaneFrame

LEMMA ReturnKeeps ==
  ASSUME DInv, NEW calls \in SetToAllKPermutations(Fresh) \cup {<<>>}, Return(calls)
  PROVE  DInv'
<1>1. calls \in Seq(Call)
  <2>1. CASE calls = <<>>
    BY <2>1
  <2>2. CASE calls \in SetToAllKPermutations(Fresh)
    <3>1. PICK n \in SUBSET Fresh : calls \in [1..Cardinality(n) -> n]
      BY <2>2 DEF SetToAllKPermutations, SetToSeqs
    <3>2. n \subseteq Call
      BY DEF Fresh
    <3>3. Cardinality(n) \in Nat
      BY <3>2, DispatchBounds, FS_Subset, FS_CardinalityType
    <3> QED
      BY <3>1, <3>2, <3>3
  <2> QED
    BY <2>1, <2>2
<1>2. Append(order, calls) \in Seq(Seq(Call))
  BY <1>1 DEF DInv
<1>3. Emission("llm.return", calls) \in SaneFrame
  BY <1>1, EmissionSane DEF Event
<1>4. replies + 1 \in 0..MaxReplies
  BY DispatchBounds DEF Return, DInv
<1>5. outcome' \in [Call -> Outcome]
  BY DEF Return, DInv, Outcome
<1>6. stack' \in Seq(SaneFrame)
  BY <1>3 DEF Return
<1> QED
  BY <1>2, <1>4, <1>5, <1>6 DEF Return, DInv

LEMMA ServeKeeps == ASSUME DInv, Serve PROVE DInv'
<1> DEFINE l == Top.copy[Top.next]
           f == [Top EXCEPT !.next = @ + 1, !.served = @ \cup {l}]
<1>1. /\ ~Idle /\ Top.at \in Event /\ Top.next <= Len(Top.copy)
      /\ stack' = (IF l = Conductor /\ Top.calls # <<>>
                   THEN Append(Append(Pop, f), Loop(Top.calls)) ELSE Append(Pop, f))
      /\ UNCHANGED <<subs, found, outcome, order, conducting, replies, changes>>
  BY DEF Serve, Targets
<1>2. /\ Top \in Frame_ /\ Sane(Top) /\ Pop \in Seq(SaneFrame)
  BY <1>1, TopAndRest
<1>3. /\ Top.copy \in Seq(Subscriber) /\ Len(Top.copy) \in Nat /\ Top.calls \in Seq(Call)
      /\ Top.next \in 1..Len(Top.copy) /\ DOMAIN Top.copy = 1..Len(Top.copy)
  BY <1>1, <1>2, LenProperties DEF Frame_, Sane
<1>4. l \in Subscriber
  BY <1>3, ElementOfSeq
<1> HIDE DEF l
<1>5. /\ f \in Frame_ /\ f.at = Top.at /\ f.copy = Top.copy /\ f.next = Top.next + 1
      /\ f.served = Top.served \cup {l} /\ f.due = Top.due
  <2>1. Top.next + 1 \in Nat /\ Top.served \cup {l} \in SUBSET Subscriber
    BY <1>2, <1>3, <1>4 DEF Frame_
  <2> DEFINE n == Top.next + 1
             done == Top.served \cup {l}
  <2>2. n \in Nat /\ done \in SUBSET Subscriber /\ f = [Top EXCEPT !.next = n, !.served = done]
    BY <2>1
  <2> HIDE DEF f, n, done
  <2>3. /\ f \in Frame_ /\ f.at = Top.at /\ f.copy = Top.copy /\ f.next = n
        /\ f.served = done /\ f.due = Top.due
    BY <1>2, <2>2 DEF Frame_
  <2> QED
    BY <2>3 DEF n, done
<1> HIDE DEF f
<1>6. Sane(f)
  <2>1. f.next \in 1..(Len(f.copy) + 1) /\ f.due \subseteq ToSet(f.copy)
    BY <1>1, <1>2, <1>3, <1>5 DEF Sane
  <2>2. ASSUME NEW i \in 1..(f.next - 1) PROVE f.copy[i] \in f.served
    <3>1. i \in 1..(Top.next - 1) \/ i = Top.next
      BY <1>3, <1>5
    <3> QED
      BY <1>1, <1>2, <1>5, <3>1 DEF Sane, l
  <2>3. f.at # "loop"
    BY <1>1, <1>5 DEF Event
  <2> QED
    BY <2>1, <2>2, <2>3 DEF Sane
<1>7. f \in SaneFrame /\ Append(Pop, f) \in Seq(SaneFrame)
  BY <1>2, <1>5, <1>6 DEF SaneFrame
<1>8. Top.calls # <<>> => Append(Append(Pop, f), Loop(Top.calls)) \in Seq(SaneFrame)
  <2>1. "llm.return" \in Event
    BY DEF Event
  <2>2. Top.calls # <<>> => Loop(Top.calls) \in SaneFrame
    BY <1>3, <2>1, EmissionSane
  <2> QED
    BY <1>7, <2>2
<1>9. stack' \in Seq(SaneFrame)
  BY <1>1, <1>7, <1>8
<1> QED
  BY <1>1, <1>9 DEF DInv

LEMMA SubscriptionKeeps ==
  ASSUME DInv, NEW ev \in Event, NEW l \in Listener, Subscribe(ev, l) \/ Unsubscribe(ev, l)
  PROVE  DInv'
<1>1. subs[ev] \in Seq(Subscriber) /\ IsInjective(subs[ev]) /\ l \in Subscriber
  BY DEF DInv, Subscriber
<1>2. changes < MaxChanges => changes + 1 \in 0..MaxChanges
  BY DispatchBounds DEF DInv
<1>3. CASE Subscribe(ev, l)
  <2>1. Append(subs[ev], l) \in Seq(Subscriber) /\ IsInjective(Append(subs[ev], l))
    BY <1>1, <1>3, Appended DEF Subscribe
  <2>2. subs' = [subs EXCEPT ![ev] = Append(subs[ev], l)]
    BY <1>3 DEF Subscribe
  <2>3. subs' \in [Event -> Seq(Subscriber)] /\ \A x \in Event : IsInjective(subs'[x])
    BY <2>1, <2>2 DEF DInv
  <2> QED
    BY <1>2, <1>3, <2>3 DEF Subscribe, DInv
<1>4. CASE Unsubscribe(ev, l)
  <2> DEFINE g(i) == IF stack[i].at = ev THEN [stack[i] EXCEPT !.due = @ \ {l}] ELSE stack[i]
  <2>1. RemoveFirst(subs[ev], l) \in Seq(Subscriber) /\ IsInjective(RemoveFirst(subs[ev], l))
    BY <1>1, FirstRemoved
  <2>2. subs' = [subs EXCEPT ![ev] = RemoveFirst(subs[ev], l)] /\ stack' = [i \in DOMAIN stack |-> g(i)]
    BY <1>4 DEF Unsubscribe
  <2>3. subs' \in [Event -> Seq(Subscriber)] /\ \A x \in Event : IsInjective(subs'[x])
    BY <2>1, <2>2 DEF DInv
  <2>4. stack \in Seq(SaneFrame) /\ Len(stack) \in Nat /\ DOMAIN stack = 1..Len(stack)
    BY LenProperties DEF DInv
  <2>5. ASSUME NEW i \in 1..Len(stack) PROVE g(i) \in SaneFrame
    <3> DEFINE f == stack[i]
    <3>1. f \in Frame_ /\ Sane(f)
      BY <2>4, ElementOfSeq DEF SaneFrame
    <3> HIDE DEF f
    <3> DEFINE h == [f EXCEPT !.due = @ \ {l}]
    <3>2. /\ h \in Frame_ /\ h.at = f.at /\ h.calls = f.calls /\ h.copy = f.copy /\ h.next = f.next
          /\ h.served = f.served /\ h.due \subseteq f.due
      BY <3>1 DEF Frame_
    <3> HIDE DEF h
    <3>3. h \in SaneFrame /\ f \in SaneFrame
      BY <3>1, <3>2 DEF Sane, SaneFrame
    <3> QED
      BY <3>3 DEF h, f
  <2> HIDE DEF g
  <2>6. stack' \in Seq(SaneFrame)
    <3> DEFINE n == Len(stack)
    <3>1. n \in Nat /\ \A i \in 1..n : g(i) \in SaneFrame
      BY <2>4, <2>5
    <3> HIDE DEF n
    <3>2. [i \in 1..n |-> g(i)] \in Seq(SaneFrame)
      BY <3>1
    <3> QED
      BY <2>2, <2>4, <3>2 DEF n
  <2> QED
    BY <1>2, <1>4, <2>3, <2>6 DEF Unsubscribe, DInv
<1> QED
  BY <1>3, <1>4

LEMMA InvokeKeeps == ASSUME DInv, Invoke PROVE DInv'
<1> DEFINE f == [Top EXCEPT !.calls = Tail(@)]
<1>1. /\ ~Idle /\ Top.at = "loop" /\ UNCHANGED <<subs, found, order, conducting, replies, changes>>
      /\ stack' = Pop \/ (Len(Top.calls) # 1 /\ stack' = Append(Pop, f))
      /\ \/ outcome' = [c \in Call |-> IF c \in ToSet(Top.calls) THEN "dropped" ELSE outcome[c]]
         \/ outcome' = [outcome EXCEPT ![Head(Top.calls)] = "out"]
  BY DEF Invoke
<1>2. Top \in Frame_ /\ Sane(Top) /\ Pop \in Seq(SaneFrame)
  BY <1>1, TopAndRest
<1>3. /\ Top.calls \in Seq(Call) /\ Top.calls # <<>> /\ Len(Top.calls) \in Nat
      /\ Tail(Top.calls) \in Seq(Call) /\ Len(Tail(Top.calls)) = Len(Top.calls) - 1
  BY <1>1, <1>2, HeadTailProperties, LenProperties DEF Frame_, Sane
<1>4. f \in Frame_ /\ f.at = "loop" /\ f.calls = Tail(Top.calls)
  BY <1>1, <1>2, <1>3 DEF Frame_
<1> HIDE DEF f
<1>5. Len(Top.calls) # 1 => f \in SaneFrame
  <2>1. ASSUME Len(Top.calls) # 1 PROVE f.calls # <<>>
    <3>1. Len(Top.calls) # 0
      BY <1>3, EmptySeq
    <3>2. Len(Tail(Top.calls)) # 0
      BY <1>3, <2>1, <3>1
    <3> QED
      BY <1>4, <3>2, EmptySeq
  <2> QED
    BY <1>4, <2>1 DEF SaneFrame, Sane, Event
<1>6. stack' \in Seq(SaneFrame)
  BY <1>1, <1>2, <1>5
<1>7. outcome' \in [Call -> Outcome]
  BY <1>1 DEF DInv, Outcome
<1> QED
  BY <1>1, <1>6, <1>7 DEF DInv

(* An emission in a listener's turn lies on top of the one it is called from. *)
LEMMA EmitWithinKeeps ==
  ASSUME DInv, NEW ev \in Event, EmitWithin(ev)
  PROVE  DInv' /\ Len(stack') = Len(stack) + 1
<1>1. stack \in Seq(SaneFrame) /\ Emission(ev, <<>>) \in SaneFrame
  <2>1. <<>> \in Seq(Call)
    OBVIOUS
  <2> QED
    BY <2>1, EmissionSane DEF DInv
<1>2. stack' \in Seq(SaneFrame) /\ Len(stack') = Len(stack) + 1
  BY <1>1 DEF EmitWithin
<1>3. changes' \in 0..MaxChanges
  BY DispatchBounds DEF EmitWithin, DInv
<1> QED
  BY <1>2, <1>3 DEF EmitWithin, DInv

LEMMA DispatchStep == DInv /\ [DNext]_dvars => DInv'
<1> SUFFICES ASSUME DInv, [DNext]_dvars PROVE DInv'
  OBVIOUS
<1>1. ASSUME NEW calls \in SetToAllKPermutations(Fresh) \cup {<<>>}, Return(calls) PROVE DInv'
  BY <1>1, ReturnKeeps
<1>2. CASE Serve
  BY <1>2, ServeKeeps
<1>3. CASE EmissionEnds
  <2>1. Pop \in Seq(SaneFrame)
    BY <1>3, TopAndRest DEF EmissionEnds
  <2> QED
    BY <1>3, <2>1 DEF EmissionEnds, DInv
<1>4. CASE Invoke
  BY <1>4, InvokeKeeps
<1>5. ASSUME NEW ev \in Event, NEW l \in Listener, Subscribe(ev, l) \/ Unsubscribe(ev, l) PROVE DInv'
  BY <1>5, SubscriptionKeeps
<1>6. ASSUME NEW c \in Call, Settle(c) PROVE DInv'
  <2>1. "tool.result" \in Event /\ <<>> \in Seq(Call)
    BY DEF Event
  <2>2. Emission("tool.result", <<>>) \in SaneFrame
    BY <2>1, EmissionSane
  <2>3. stack' \in Seq(SaneFrame) /\ outcome' \in [Call -> Outcome]
    BY <1>6, <2>2 DEF Settle, DInv, Outcome
  <2> QED
    BY <1>6, <2>3 DEF Settle, DInv
<1>7. CASE StopConducting
  <2> DEFINE s == RemoveFirst(subs["llm.return"], Conductor)
  <2>1. s \in Seq(Subscriber) /\ IsInjective(s)
    BY FirstRemoved DEF DInv, Event
  <2>2. subs' = [subs EXCEPT !["llm.return"] = s] /\ conducting' = FALSE
    BY <1>7 DEF StopConducting
  <2> HIDE DEF s
  <2>3. subs' \in [Event -> Seq(Subscriber)] /\ \A x \in Event : IsInjective(subs'[x])
    BY <2>1, <2>2 DEF DInv
  <2> QED
    BY <1>7, <2>2, <2>3 DEF StopConducting, DInv
<1>8. CASE UNCHANGED dvars
  BY <1>8 DEF dvars, DInv
<1>9. ASSUME NEW ev \in Event, EmitWithin(ev) PROVE DInv'
  BY <1>9, EmitWithinKeeps
<1> QED
  BY <1>1, <1>2, <1>3, <1>4, <1>5, <1>6, <1>7, <1>8, <1>9 DEF DNext

(* The dispatch, for any plugins, calls and numbers of replies: it is DInv  *)
(* in every state.                                                         *)
THEOREM DispatchInvariant == DSpec => []DInv
<1>1. DInit => DInv
  BY DispatchInit
<1>2. DInv /\ [DNext]_dvars => DInv'
  BY DispatchStep
<1> QED
  BY <1>1, <1>2, PTL DEF DSpec

LEMMA DispatchTypes == DInv => DTypeOK
<1> SUFFICES ASSUME DInv PROVE DTypeOK
  OBVIOUS
<1>1. ASSUME NEW i \in DOMAIN stack
      PROVE /\ stack[i].at \in Event \cup {"loop"} /\ stack[i].calls \in Seq(Call)
            /\ stack[i].due \subseteq Subscriber /\ stack[i].served \subseteq Subscriber
  <2>1. stack[i] \in Frame_
    BY LenProperties, ElementOfSeq DEF DInv, SaneFrame
  <2> QED
    BY <2>1 DEF Frame_
<1> QED
  BY <1>1 DEF DInv, DTypeOK

(* A frame that is left is the innermost; if it is an emission that ended,  *)
(* its listeners have been called.                                         *)
LEMMA AllHeard ==
  ASSUME DInv, [DNext]_dvars
  PROVE  \A i \in DOMAIN stack :
           (i > Len(stack') /\ stack[i].at \in Event) => stack[i].due \subseteq stack[i].served
<1> SUFFICES ASSUME NEW i \in DOMAIN stack, i > Len(stack'), stack[i].at \in Event
             PROVE  stack[i].due \subseteq stack[i].served
  OBVIOUS
<1>1. /\ stack \in Seq(SaneFrame) /\ Len(stack) \in Nat /\ i \in 1..Len(stack) /\ ~Idle
      /\ Len(stack') < Len(stack)
      /\ DInv'
  <2>1. stack \in Seq(SaneFrame) /\ Len(stack) \in Nat /\ i \in 1..Len(stack)
    BY LenProperties DEF DInv
  <2>2. DInv'
    BY DispatchStep
  <2>3. stack' \in Seq(SaneFrame)
    BY <2>2 DEF DInv
  <2>4. Len(stack') \in Nat
    BY <2>3, LenProperties
  <2>5. stack # <<>>
    BY <2>1
  <2> QED
    BY <2>1, <2>2, <2>4, <2>5 DEF Idle
<1>2. /\ Top \in Frame_ /\ Sane(Top) /\ Pop \in Seq(SaneFrame) /\ Len(Pop) = Len(stack) - 1
      /\ DOMAIN stack = 1..Len(stack)
  BY <1>1, TopAndRest
<1>3. \A f \in SaneFrame : Len(Append(Pop, f)) = Len(stack)
  BY <1>1, <1>2
<1>4. CASE EmissionEnds
  <2>1. i = Len(stack) /\ stack[i] = Top
    BY <1>1, <1>2, <1>4 DEF EmissionEnds, Top
  <2>2. Top.copy \in Seq(Subscriber) /\ Len(Top.copy) \in Nat /\ DOMAIN Top.copy = 1..Len(Top.copy)
    BY <1>2, LenProperties DEF Frame_
  <2>3. Top.next = Len(Top.copy) + 1
    BY <1>2, <1>4, <2>2 DEF EmissionEnds, Targets, Sane, Frame_
  <2>4. \A k \in DOMAIN Top.copy : Top.copy[k] \in Top.served
    BY <1>2, <1>4, <2>2, <2>3 DEF EmissionEnds, Sane
  <2> QED
    BY <1>2, <1>4, <2>1, <2>4 DEF EmissionEnds, Sane, ToSet
<1>5. CASE Invoke
  <2>1. i = Len(stack) /\ stack[i] = Top
    <3>1. stack' = Pop \/ \E f : stack' = Append(Pop, f)
      BY <1>5 DEF Invoke
    <3>2. \A f : stack' = Append(Pop, f) => Len(stack') = Len(stack)
      BY <1>1, <1>2
    <3>3. Len(stack') = Len(stack) - 1
      BY <1>1, <1>2, <3>1, <3>2
    <3> QED
      BY <1>1, <3>3 DEF Top
  <2>2. Top.at = "loop"
    BY <1>5 DEF Invoke
  <2> QED
    BY <2>1, <2>2 DEF Event
<1>6. CASE Serve
  <2>1. \E f, g : stack' = Append(Append(Pop, f), g) \/ stack' = Append(Pop, f)
    BY <1>6 DEF Serve
  <2>2. \A f : Len(Append(Pop, f)) = Len(stack)
    BY <1>1, <1>2
  <2>3. \A f, g : Len(Append(Append(Pop, f), g)) >= Len(stack)
    BY <1>1, <1>2
  <2> QED
    BY <1>1, <2>1, <2>2, <2>3
<1>7. ASSUME NEW ev \in Event, NEW l \in Listener, Unsubscribe(ev, l) PROVE FALSE
  <2>1. DOMAIN stack' = DOMAIN stack
    BY <1>7 DEF Unsubscribe
  <2>2. stack' \in Seq(SaneFrame)
    BY <1>1 DEF DInv
  <2>3. DOMAIN stack' = 1..Len(stack') /\ Len(stack') \in Nat
    BY <2>2, LenProperties
  <2> QED
    BY <1>1, <1>2, <2>1, <2>3
<1>8. CASE UNCHANGED stack
  BY <1>1, <1>8
<1>9. CASE (\E calls \in SetToAllKPermutations(Fresh) \cup {<<>>} : Return(calls)) \/ (\E c \in Call : Settle(c))
  BY <1>1, <1>9 DEF Return, Settle
<1>10. \A ev \in Event, l \in Listener : Subscribe(ev, l) => UNCHANGED stack
  BY DEF Subscribe
<1>11. StopConducting \/ UNCHANGED dvars => UNCHANGED stack
  BY DEF StopConducting, dvars
<1>12. ASSUME NEW ev \in Event, EmitWithin(ev) PROVE FALSE
  BY <1>1, <1>12, EmitWithinKeeps
<1> QED
  BY <1>4, <1>5, <1>6, <1>7, <1>8, <1>9, <1>10, <1>11, <1>12 DEF DNext

(* Whoever was subscribed when an emission began and has not unsubscribed   *)
(* has been called when it ends (EventBus.emit).                           *)
THEOREM ListenersHear == DSpec => EveryListenerHears
<1>1. DInv /\ [DNext]_dvars
        => \A i \in DOMAIN stack :
             (i > Len(stack') /\ stack[i].at \in Event) => stack[i].due \subseteq stack[i].served
  BY AllHeard
<1>2. DSpec => [][DNext]_dvars
  BY PTL DEF DSpec
<1> QED
  BY <1>1, <1>2, DispatchInvariant, PTL DEF EveryListenerHears


----------------------------------------------------------------------------
(* The log on the bus (Mirror).                                            *)

Delivery == [source : Origin, line : Nat, next : Nat]

MTyped ==
  /\ emittingLog \in [Origin -> BOOLEAN]
  /\ fanouts \in Seq(Delivery)
  /\ \A i \in DOMAIN fanouts :
       fanouts[i].line \in 1..lines /\ fanouts[i].next \in 1..(MaxWatcher + 1)
  /\ seen \in [Watcher -> Seq(Nat)]
  /\ \A w \in Watcher : \A k \in DOMAIN seen[w] : seen[w][k] \in 1..lines
  /\ lines \in 0..MaxLine /\ muted \subseteq 1..lines

(* A source has its flag up exactly while it delivers, one line at a time.  *)
FlagPerLine ==
  /\ \A i, j \in DOMAIN fanouts :
       fanouts[i].source = fanouts[j].source \/ fanouts[i].line = fanouts[j].line => i = j
  /\ \A s \in Origin : emittingLog[s] <=> \E i \in DOMAIN fanouts : fanouts[i].source = s

(* A watcher a delivery has yet to call.                                   *)
Owed(w, line) == \E i \in DOMAIN fanouts : fanouts[i].line = line /\ fanouts[i].next <= w

(* A mirrored line has come once to each watcher that is not owed it.      *)
HeardSoFar ==
  /\ \A i \in DOMAIN fanouts : fanouts[i].line \notin muted
  /\ \A line \in (1..lines) \ muted, w \in Watcher :
       /\ Owed(w, line) => Times(w, line) = 0
       /\ ~Owed(w, line) => Times(w, line) = 1

MInv == MTyped /\ FlagPerLine /\ HeardSoFar

(* How often an element occurs, when one is appended.                      *)
Occurs(t, l) == Cardinality({i \in DOMAIN t : t[i] = l})

LEMMA CountAppended ==
  ASSUME NEW S, NEW s \in Seq(S), NEW e \in S, NEW l
  PROVE  /\ Occurs(s, l) \in Nat
         /\ e = l => Occurs(Append(s, e), l) = Occurs(s, l) + 1
         /\ e # l => Occurs(Append(s, e), l) = Occurs(s, l)
<1> DEFINE at(t) == {i \in DOMAIN t : t[i] = l}
           t_ == Append(s, e)
<1>1. /\ Len(s) \in Nat /\ DOMAIN s = 1..Len(s)
      /\ t_ \in Seq(S) /\ Len(t_) = Len(s) + 1 /\ t_[Len(s) + 1] = e
      /\ \A i \in 1..Len(s) : t_[i] = s[i]
  BY LenProperties, Appended
<1>2. DOMAIN t_ = 1..(Len(s) + 1)
  BY <1>1, LenProperties
<1> HIDE DEF t_
<1>3. IsFiniteSet(at(s))
  <2>1. IsFiniteSet(1..Len(s))
    BY <1>1, FS_Interval
  <2> QED
    BY <1>1, <2>1, FS_Subset
<1>4. Cardinality(at(s)) \in Nat
  BY <1>3, FS_CardinalityType
<1>5. Len(s) + 1 \notin at(s)
  BY <1>1
<1>6. ASSUME e = l PROVE at(t_) = at(s) \cup {Len(s) + 1}
  <2>1. \A i \in DOMAIN t_ : i \in DOMAIN s \/ i = Len(s) + 1
    BY <1>1, <1>2
  <2>2. \A i \in DOMAIN s : i \in DOMAIN t_
    BY <1>1, <1>2
  <2>3. Len(s) + 1 \in DOMAIN t_
    BY <1>1, <1>2
  <2> QED
    BY <1>1, <1>6, <2>1, <2>2, <2>3
<1>7. ASSUME e # l PROVE at(t_) = at(s)
  <2>1. \A i \in DOMAIN t_ : i \in DOMAIN s \/ i = Len(s) + 1
    BY <1>1, <1>2
  <2>2. \A i \in DOMAIN s : i \in DOMAIN t_
    BY <1>1, <1>2
  <2> QED
    BY <1>1, <1>7, <2>1, <2>2
<1>8. e = l => Cardinality(at(t_)) = Cardinality(at(s)) + 1
  BY <1>3, <1>5, <1>6, FS_AddElement
<1> QED
  BY <1>4, <1>7, <1>8 DEF t_, Occurs

LEMMA MirrorInit == MInit => MInv
<1> SUFFICES ASSUME MInit PROVE MInv
  OBVIOUS
<1>1. <<>> \in Seq(Delivery) /\ <<>> \in Seq(Nat) /\ 0 \in 0..MaxLine /\ {} \subseteq 1..0
  BY MirrorAssumption
<1>2. DOMAIN fanouts = {} /\ \A w \in Watcher : DOMAIN seen[w] = {}
  BY DEF MInit
<1>3. emittingLog \in [Origin -> BOOLEAN] /\ \A s \in Origin : ~emittingLog[s]
  BY DEF MInit
<1>4. 1..lines = {}
  BY DEF MInit
<1> QED
  BY <1>1, <1>2, <1>3, <1>4 DEF MInit, MInv, MTyped, FlagPerLine, HeardSoFar

LEMMA LogKeeps == ASSUME MInv, NEW s \in Origin, Log(s) PROVE MInv'
<1> DEFINE n == lines + 1
           r == [source |-> s, line |-> n, next |-> 1]
<1>1. /\ lines \in Nat /\ n \in 0..MaxLine /\ MaxLine \in Nat /\ MaxWatcher \in Nat
      /\ lines' = n /\ n \in 1..n /\ n \notin 1..lines /\ 1..n = (1..lines) \cup {n}
      /\ seen' = seen
  BY MirrorAssumption DEF Log, MInv, MTyped
<1>2. /\ \A w \in Watcher : \A k \in DOMAIN seen[w] : seen[w][k] \in 1..n
      /\ \A w \in Watcher : Times(w, n) = 0
  <2>1. \A w \in Watcher : \A k \in DOMAIN seen[w] : seen[w][k] \in 1..lines
    BY DEF MInv, MTyped
  <2>2. ASSUME NEW w \in Watcher PROVE {k \in DOMAIN seen[w] : seen[w][k] = n} = {}
    BY <1>1, <2>1
  <2>3. \A w \in Watcher : Times(w, n) = Cardinality({})
    BY <2>2 DEF Times
  <2> HIDE DEF n
  <2> QED
    BY <1>1, <2>1, <2>3, FS_EmptySet
<1>3. \A w, line : Times(w, line)' = Times(w, line)
  BY <1>1 DEF Times
<1>4. /\ fanouts \in Seq(Delivery) /\ Len(fanouts) \in Nat /\ DOMAIN fanouts = 1..Len(fanouts)
      /\ \A i \in DOMAIN fanouts : fanouts[i].line \in 1..lines /\ fanouts[i].next \in 1..(MaxWatcher + 1)
      /\ \A w \in Watcher : ~Owed(w, n)
  <2>1. fanouts \in Seq(Delivery)
    BY DEF MInv, MTyped
  <2>2. \A i \in DOMAIN fanouts : fanouts[i].line \in 1..lines /\ fanouts[i].next \in 1..(MaxWatcher + 1)
    BY DEF MInv, MTyped
  <2> QED
    BY <1>1, <2>1, <2>2, LenProperties DEF Owed
<1>5. emittingLog \in [Origin -> BOOLEAN] /\ seen \in [Watcher -> Seq(Nat)] /\ muted \subseteq 1..lines
  BY DEF MInv, MTyped
<1> HIDE DEF n
<1>6. CASE Guarded(s)
  <2>1. muted' = muted \cup {n} /\ emittingLog' = emittingLog /\ fanouts' = fanouts
    BY <1>6 DEF Log, n
  <2>2. muted' \subseteq 1..n
    BY <1>1, <1>5, <2>1
  <2>3. MTyped'
    <3>1. \A i \in DOMAIN fanouts : fanouts[i].line \in 1..n
      BY <1>1, <1>4
    <3> QED
      BY <1>1, <1>2, <1>4, <1>5, <2>1, <2>2, <3>1 DEF MTyped
  <2>4. FlagPerLine'
    BY <2>1 DEF MInv, FlagPerLine
  <2>5. HeardSoFar'
    <3>1. \A w, line : Owed(w, line)' = Owed(w, line)
      BY <2>1 DEF Owed
    <3>2. (1..n) \ muted' = (1..lines) \ muted
      BY <1>1, <2>1
    <3>3. \A i \in DOMAIN fanouts : fanouts[i].line \notin muted'
      BY <1>1, <1>4, <2>1 DEF MInv, HeardSoFar
    <3> QED
      BY <1>1, <1>3, <2>1, <3>1, <3>2, <3>3 DEF MInv, HeardSoFar
  <2> QED
    BY <2>3, <2>4, <2>5 DEF MInv
<1>7. CASE ~Guarded(s)
  <2>1. /\ emittingLog' = [emittingLog EXCEPT ![s] = TRUE]
        /\ fanouts' = Append(fanouts, r) /\ muted' = muted
    BY <1>7 DEF Log, n
  <2>2. r \in Delivery /\ r.source = s /\ r.line = n /\ r.next = 1
    <3>1. n \in Nat /\ 1 \in Nat
      BY <1>1
    <3> QED
      BY <3>1 DEF Delivery
  <2> HIDE DEF r
  <2>3. /\ fanouts' \in Seq(Delivery) /\ fanouts'[Len(fanouts) + 1] = r
        /\ \A i \in 1..Len(fanouts) : fanouts'[i] = fanouts[i]
        /\ DOMAIN fanouts' = 1..(Len(fanouts) + 1)
    <3>1. fanouts' \in Seq(Delivery) /\ Len(fanouts') = Len(fanouts) + 1
      BY <1>4, <2>1, <2>2, Appended
    <3>2. fanouts'[Len(fanouts) + 1] = r /\ \A i \in 1..Len(fanouts) : fanouts'[i] = fanouts[i]
      BY <1>4, <2>1, <2>2, Appended
    <3> QED
      BY <3>1, <3>2, LenProperties
  <2>4. /\ \A i \in DOMAIN fanouts' : \/ i \in DOMAIN fanouts /\ fanouts'[i] = fanouts[i]
                                      \/ i = Len(fanouts) + 1 /\ fanouts'[i] = r
        /\ \A i \in DOMAIN fanouts : i \in DOMAIN fanouts' /\ fanouts'[i] = fanouts[i]
        /\ Len(fanouts) + 1 \in DOMAIN fanouts' /\ fanouts'[Len(fanouts) + 1] = r
    <3>1. \A i \in 1..(Len(fanouts) + 1) : i \in 1..Len(fanouts) \/ i = Len(fanouts) + 1
      BY <1>4
    <3>2. Len(fanouts) + 1 \in 1..(Len(fanouts) + 1) /\ \A i \in 1..Len(fanouts) : i \in 1..(Len(fanouts) + 1)
      BY <1>4
    <3>3. ASSUME NEW i \in DOMAIN fanouts'
          PROVE \/ i \in DOMAIN fanouts /\ fanouts'[i] = fanouts[i]
                \/ i = Len(fanouts) + 1 /\ fanouts'[i] = r
      BY <1>4, <2>3, <3>1
    <3>4. \A i \in DOMAIN fanouts : i \in DOMAIN fanouts' /\ fanouts'[i] = fanouts[i]
      BY <1>4, <2>3, <3>2
    <3>5. Len(fanouts) + 1 \in DOMAIN fanouts'
      BY <2>3, <3>2
    <3> QED
      BY <2>3, <3>3, <3>4, <3>5
  <2>5. ~emittingLog[s] /\ \A i \in DOMAIN fanouts : fanouts[i].source # s
    BY <1>7 DEF Guarded, MInv, FlagPerLine
  <2>6. MTyped'
    <3>1. \A i \in DOMAIN fanouts' : fanouts'[i].line \in 1..n /\ fanouts'[i].next \in 1..(MaxWatcher + 1)
      <4>1. 1 \in 1..(MaxWatcher + 1)
        BY <1>1
      <4> QED
        BY <1>1, <1>4, <2>2, <2>4, <4>1
    <3>2. emittingLog' \in [Origin -> BOOLEAN]
      BY <1>5, <2>1
    <3>3. muted' \subseteq 1..n
      BY <1>1, <1>5, <2>1
    <3> QED
      BY <1>1, <1>2, <1>5, <2>3, <3>1, <3>2, <3>3 DEF MTyped
  <2>7. FlagPerLine'
    <3>1. ASSUME NEW i \in DOMAIN fanouts', NEW j \in DOMAIN fanouts',
                 fanouts'[i].source = fanouts'[j].source \/ fanouts'[i].line = fanouts'[j].line
          PROVE i = j
      <4>1. \A k \in DOMAIN fanouts : fanouts[k].line # n
        BY <1>1, <1>4
      <4>2. \A k, l \in DOMAIN fanouts :
              fanouts[k].source = fanouts[l].source \/ fanouts[k].line = fanouts[l].line => k = l
        BY DEF MInv, FlagPerLine
      <4> QED
        BY <2>2, <2>4, <2>5, <3>1, <4>1, <4>2
    <3>2. ASSUME NEW t \in Origin PROVE emittingLog'[t] <=> \E i \in DOMAIN fanouts' : fanouts'[i].source = t
      <4>1. CASE t = s
        BY <1>5, <2>1, <2>2, <2>4, <4>1
      <4>2. CASE t # s
        <5>1. emittingLog'[t] = emittingLog[t]
          BY <1>5, <2>1, <4>2
        <5>2. emittingLog[t] <=> \E i \in DOMAIN fanouts : fanouts[i].source = t
          BY DEF MInv, FlagPerLine
        <5>3. (\E i \in DOMAIN fanouts : fanouts[i].source = t) => \E i \in DOMAIN fanouts' : fanouts'[i].source = t
          BY <2>4
        <5>4. (\E i \in DOMAIN fanouts' : fanouts'[i].source = t) => \E i \in DOMAIN fanouts : fanouts[i].source = t
          BY <2>2, <2>4, <4>2
        <5> QED
          BY <5>1, <5>2, <5>3, <5>4
      <4> QED
        BY <4>1, <4>2
    <3> QED
      BY <3>1, <3>2 DEF FlagPerLine
  <2>8. HeardSoFar'
    <3>1. \A i \in DOMAIN fanouts' : fanouts'[i].line \notin muted'
      BY <1>1, <1>5, <2>1, <2>2, <2>4 DEF MInv, HeardSoFar
    <3>2. ASSUME NEW line \in 1..lines, NEW w \in Watcher PROVE Owed(w, line)' <=> Owed(w, line)
      <4>1. line # n
        BY <1>1
      <4>2. Owed(w, line)' => Owed(w, line)
        BY <2>2, <2>4, <4>1 DEF Owed
      <4>3. Owed(w, line) => Owed(w, line)'
        BY <2>4 DEF Owed
      <4> QED
        BY <4>2, <4>3
    <3>3. ASSUME NEW w \in Watcher, NEW line, line = n PROVE Owed(w, line)'
      <4>1. 1 <= w
        BY DEF Watcher
      <4>2. fanouts'[Len(fanouts) + 1].line = line /\ fanouts'[Len(fanouts) + 1].next <= w
        BY <2>2, <2>4, <3>3, <4>1
      <4> QED
        BY <2>4, <4>2 DEF Owed
    <3>4. ASSUME NEW line \in 1..lines, line \notin muted, NEW w \in Watcher
          PROVE (Owed(w, line) => Times(w, line) = 0) /\ (~Owed(w, line) => Times(w, line) = 1)
      BY <3>4 DEF MInv, HeardSoFar
    <3>5. ASSUME NEW line \in 1..n, line \notin muted', NEW w \in Watcher
          PROVE (Owed(w, line)' => Times(w, line)' = 0) /\ (~Owed(w, line)' => Times(w, line)' = 1)
      <4>1. line = n \/ line \in 1..lines
        BY <1>1
      <4>2. CASE line = n
        BY <1>2, <1>3, <3>3, <4>2
      <4>3. CASE line \in 1..lines
        BY <1>3, <2>1, <3>2, <3>4, <3>5, <4>3
      <4> QED
        BY <4>1, <4>2, <4>3
    <3> QED
      BY <1>1, <3>1, <3>5 DEF HeardSoFar
  <2> QED
    BY <2>6, <2>7, <2>8 DEF MInv
<1> QED
  BY <1>6, <1>7

(* What is left of the deliveries when the innermost is taken off.         *)
LEMMA InnermostOff ==
  ASSUME MInv, fanouts # <<>>
  PROVE  /\ fanouts \in Seq(Delivery)
         /\ Len(fanouts) \in Nat /\ DOMAIN fanouts = 1..Len(fanouts) /\ Len(fanouts) \in DOMAIN fanouts
         /\ Innermost = fanouts[Len(fanouts)] /\ Innermost \in Delivery
         /\ Innermost.line \in 1..lines /\ Innermost.next \in 1..(MaxWatcher + 1)
         /\ Without1 \in Seq(Delivery) /\ Len(Without1) = Len(fanouts) - 1
         /\ DOMAIN Without1 = 1..(Len(fanouts) - 1)
         /\ \A i \in DOMAIN Without1 :
              i \in DOMAIN fanouts /\ i # Len(fanouts) /\ Without1[i] = fanouts[i]
         /\ \A i \in DOMAIN fanouts : i = Len(fanouts) \/ i \in DOMAIN Without1
<1>1. fanouts \in Seq(Delivery)
  BY DEF MInv, MTyped
<1>2. /\ Len(fanouts) \in Nat /\ DOMAIN fanouts = 1..Len(fanouts) /\ Len(fanouts) \in DOMAIN fanouts
      /\ fanouts[Len(fanouts)] \in Delivery
  BY <1>1, AllButLast
<1>3. /\ Without1 \in Seq(Delivery) /\ Len(Without1) = Len(fanouts) - 1
      /\ DOMAIN Without1 = 1..(Len(fanouts) - 1)
      /\ \A i \in 1..(Len(fanouts) - 1) : Without1[i] = fanouts[i]
  BY <1>1, AllButLast DEF Without1
<1>4. Innermost.line \in 1..lines /\ Innermost.next \in 1..(MaxWatcher + 1)
  BY <1>2 DEF MInv, MTyped, Innermost
<1> QED
  BY <1>1, <1>2, <1>3, <1>4 DEF Innermost

LEMMA DeliverKeeps == ASSUME MInv, Deliver PROVE MInv'
<1> DEFINE v == Innermost.next
           e == Innermost.line
           r == [Innermost EXCEPT !.next = @ + 1]
           L == Len(fanouts)
<1>1. /\ fanouts \in Seq(Delivery) /\ L \in Nat /\ DOMAIN fanouts = 1..L /\ L \in DOMAIN fanouts
      /\ fanouts[L] \in Delivery /\ fanouts[L].line = e /\ fanouts[L].next = v
      /\ e \in 1..lines /\ v \in Nat /\ v \in Watcher /\ fanouts # <<>>
      /\ e \in Nat
  <2>1. fanouts # <<>> /\ Innermost.next <= MaxWatcher
    BY DEF Deliver
  <2>2. /\ fanouts \in Seq(Delivery) /\ L \in Nat /\ DOMAIN fanouts = 1..L /\ L \in DOMAIN fanouts
        /\ Innermost = fanouts[L] /\ Innermost \in Delivery
        /\ Innermost.line \in 1..lines /\ Innermost.next \in 1..(MaxWatcher + 1)
    BY <2>1, InnermostOff
  <2>3. v \in Nat /\ v \in Watcher
    BY <2>1, <2>2, MirrorAssumption DEF Watcher
  <2>4. e \in Nat
    BY <2>2, SMTT(60) DEF Delivery
  <2> QED
    BY <2>1, <2>2, <2>3, <2>4
<1>2. /\ Without1 \in Seq(Delivery) /\ Len(Without1) = L - 1 /\ DOMAIN Without1 = 1..(L - 1)
      /\ \A i \in DOMAIN Without1 : i \in DOMAIN fanouts /\ i # L /\ Without1[i] = fanouts[i]
      /\ \A i \in DOMAIN fanouts : i = L \/ i \in DOMAIN Without1
  BY <1>1, InnermostOff, ZenonT(60)
<1>3. r \in Delivery /\ r.source = fanouts[L].source /\ r.line = e /\ r.next = v + 1
  <2>1. Innermost = fanouts[L]
    BY DEF Innermost
  <2>2. v + 1 \in Nat
    BY <1>1
  <2> HIDE DEF L
  <2> QED
    BY <1>1, <2>1, <2>2 DEF Delivery
<1>4. /\ seen' = [seen EXCEPT ![v] = Append(@, e)] /\ fanouts' = Append(Without1, r)
      /\ emittingLog' = emittingLog /\ lines' = lines /\ muted' = muted
  BY DEF Deliver
<1> HIDE DEF v, e, r, L
<1>5. /\ fanouts' \in Seq(Delivery) /\ DOMAIN fanouts' = DOMAIN fanouts
      /\ \A i \in DOMAIN fanouts : i # L => fanouts'[i] = fanouts[i]
      /\ fanouts'[L] = r
  <2>1. /\ fanouts' \in Seq(Delivery) /\ Len(fanouts') = L - 1 + 1 /\ fanouts'[L - 1 + 1] = r
        /\ \A i \in 1..(L - 1) : fanouts'[i] = Without1[i]
    BY <1>2, <1>3, <1>4, Appended
  <2>2. L - 1 + 1 = L
    BY <1>1
  <2>3. DOMAIN fanouts' = 1..L
    BY <2>1, <2>2, LenProperties
  <2> QED
    BY <1>1, <1>2, <2>1, <2>2, <2>3
<1>6. /\ emittingLog \in [Origin -> BOOLEAN] /\ seen \in [Watcher -> Seq(Nat)] /\ muted \subseteq 1..lines
      /\ lines \in 0..MaxLine
      /\ \A w \in Watcher : \A k \in DOMAIN seen[w] : seen[w][k] \in 1..lines
      /\ \A i \in DOMAIN fanouts : fanouts[i].line \in 1..lines /\ fanouts[i].next \in 1..(MaxWatcher + 1)
  BY DEF MInv, MTyped
<1>7. /\ seen' \in [Watcher -> Seq(Nat)] /\ seen'[v] = Append(seen[v], e)
      /\ \A w \in Watcher : w # v => seen'[w] = seen[w]
      /\ seen[v] \in Seq(Nat)
  <2>1. seen[v] \in Seq(Nat)
    BY <1>1, <1>6
  <2>2. Append(seen[v], e) \in Seq(Nat)
    BY <1>1, <2>1, AppendProperties
  <2> QED
    BY <1>1, <1>4, <1>6, <2>1, <2>2
<1>8. MTyped'
  <2>1. ASSUME NEW i \in DOMAIN fanouts' PROVE fanouts'[i].line \in 1..lines /\ fanouts'[i].next \in 1..(MaxWatcher + 1)
    <3>1. CASE i = L
      <4>1. v + 1 \in 1..(MaxWatcher + 1)
        BY <1>1, MirrorAssumption DEF Watcher
      <4> QED
        BY <1>1, <1>3, <1>5, <3>1, <4>1
    <3>2. CASE i # L
      BY <1>5, <1>6, <3>2
    <3> QED
      BY <3>1, <3>2
  <2>2. ASSUME NEW w \in Watcher, NEW k \in DOMAIN seen'[w] PROVE seen'[w][k] \in 1..lines
    <3>1. CASE w # v
      BY <1>6, <1>7, <3>1
    <3>2. CASE w = v
      <4>1. seen'[v][k] \in ToSet(Append(seen[v], e))
        BY <1>7, <3>2 DEF ToSet
      <4>2. ToSet(Append(seen[v], e)) = ToSet(seen[v]) \cup {e}
        BY <1>1, <1>7, Appended
      <4>3. ToSet(seen[v]) \subseteq 1..lines
        BY <1>1, <1>6 DEF ToSet
      <4> QED
        BY <1>1, <3>2, <4>1, <4>2, <4>3
    <3> QED
      BY <3>1, <3>2
  <2> QED
    BY <1>4, <1>5, <1>6, <1>7, <2>1, <2>2 DEF MTyped
<1>9. \A i \in DOMAIN fanouts : fanouts'[i].source = fanouts[i].source /\ fanouts'[i].line = fanouts[i].line
  <2>1. fanouts'[L].source = fanouts[L].source /\ fanouts'[L].line = fanouts[L].line
    BY <1>1, <1>3, <1>5
  <2> QED
    BY <1>5, <2>1
<1>10. FlagPerLine'
  BY <1>4, <1>5, <1>9 DEF MInv, FlagPerLine
<1>11. \A i \in DOMAIN fanouts : fanouts[i].line = e => i = L
  BY <1>1 DEF MInv, FlagPerLine
<1>12. ASSUME NEW line \in 1..lines, line \notin muted, NEW w \in Watcher
       PROVE (Owed(w, line)' => Times(w, line)' = 0) /\ (~Owed(w, line)' => Times(w, line)' = 1)
  <2>1. (Owed(w, line) => Times(w, line) = 0) /\ (~Owed(w, line) => Times(w, line) = 1)
    BY <1>12 DEF MInv, HeardSoFar
  <2>2. CASE line # e
    <3>1. Owed(w, line)' <=> Owed(w, line)
      <4>1. \A i \in DOMAIN fanouts : fanouts[i].line = line => i # L
        BY <1>1, <2>2
      <4>2. \A i \in DOMAIN fanouts : fanouts'[i].line = line => i # L
        BY <1>9, <4>1
      <4>3. Owed(w, line) => Owed(w, line)'
        BY <1>5, <4>1 DEF Owed
      <4>4. Owed(w, line)' => Owed(w, line)
        BY <1>5, <4>2 DEF Owed
      <4> QED
        BY <4>3, <4>4
    <3>2. Times(w, line)' = Times(w, line)
      <4>1. CASE w # v
        BY <1>7, <4>1 DEF Times
      <4>2. CASE w = v
        <5>1. Occurs(Append(seen[v], e), line) = Occurs(seen[v], line)
          <6>1. e \in Nat /\ seen[v] \in Seq(Nat) /\ e # line
            BY <1>1, <1>7, <2>2
          <6> QED
            BY <6>1, CountAppended
        <5> QED
          BY <1>7, <4>2, <5>1 DEF Times, Occurs
      <4> QED
        BY <4>1, <4>2
    <3> QED
      BY <2>1, <3>1, <3>2
  <2>3. CASE line = e
    <3>1. Owed(w, line) <=> v <= w
      BY <1>1, <1>11, <2>3 DEF Owed
    <3>2. Owed(w, line)' <=> v + 1 <= w
      <4>1. fanouts'[L].line = e /\ fanouts'[L].next = v + 1 /\ L \in DOMAIN fanouts'
        BY <1>1, <1>3, <1>5
      <4>2. \A i \in DOMAIN fanouts' : fanouts'[i].line = e => i = L
        BY <1>5, <1>9, <1>11
      <4>3. v + 1 <= w => Owed(w, line)'
        BY <2>3, <4>1 DEF Owed
      <4>4. Owed(w, line)' => v + 1 <= w
        BY <2>3, <4>1, <4>2 DEF Owed
      <4> QED
        BY <4>3, <4>4
    <3>3. CASE w # v
      <4>1. Times(w, line)' = Times(w, line)
        BY <1>7, <3>3 DEF Times
      <4>2. v + 1 <= w <=> v <= w
        BY <1>1, <3>3 DEF Watcher
      <4> QED
        BY <2>1, <3>1, <3>2, <4>1, <4>2
    <3>4. CASE w = v
      <4>1. v <= w /\ ~(v + 1 <= w)
        BY <1>1, <3>4
      <4>2. Times(w, line) = 0
        BY <2>1, <3>1, <4>1
      <4>3. Occurs(Append(seen[v], e), line) = Occurs(seen[v], line) + 1
        BY <1>1, <1>7, <2>3, CountAppended
      <4>4. Times(w, line)' = 0 + 1
        BY <1>7, <3>4, <4>2, <4>3 DEF Times, Occurs
      <4> QED
        BY <3>2, <4>1, <4>4
    <3> QED
      BY <3>3, <3>4
  <2> QED
    BY <2>2, <2>3
<1>13. \A i \in DOMAIN fanouts' : fanouts'[i].line \notin muted'
  BY <1>4, <1>5, <1>9 DEF MInv, HeardSoFar
<1> QED
  BY <1>4, <1>8, <1>10, <1>12, <1>13 DEF MInv, HeardSoFar

LEMMA DeliveredKeeps == ASSUME MInv, Delivered PROVE MInv'
<1> DEFINE L == Len(fanouts)
           o == Innermost.source
<1>1. /\ fanouts # <<>> /\ Innermost.next > MaxWatcher
      /\ emittingLog' = [emittingLog EXCEPT ![o] = FALSE] /\ fanouts' = Without1
      /\ seen' = seen /\ lines' = lines /\ muted' = muted
  BY DEF Delivered
<1>2. /\ L \in DOMAIN fanouts /\ Innermost = fanouts[L] /\ Innermost \in Delivery
      /\ Innermost.next \in 1..(MaxWatcher + 1)
      /\ Without1 \in Seq(Delivery)
      /\ \A i \in DOMAIN Without1 : i \in DOMAIN fanouts /\ i # L /\ Without1[i] = fanouts[i]
      /\ \A i \in DOMAIN fanouts : i = L \/ i \in DOMAIN Without1
  BY <1>1, InnermostOff, ZenonT(60)
<1>3. o \in Origin /\ fanouts[L].source = o /\ fanouts[L].next = MaxWatcher + 1
  BY <1>1, <1>2, MirrorAssumption DEF Delivery
<1> HIDE DEF L, o
<1>4. /\ emittingLog \in [Origin -> BOOLEAN] /\ seen \in [Watcher -> Seq(Nat)] /\ muted \subseteq 1..lines
      /\ lines \in 0..MaxLine
      /\ \A w \in Watcher : \A k \in DOMAIN seen[w] : seen[w][k] \in 1..lines
      /\ \A i \in DOMAIN fanouts : fanouts[i].line \in 1..lines /\ fanouts[i].next \in 1..(MaxWatcher + 1)
  BY DEF MInv, MTyped
<1>5. MTyped'
  <2>1. emittingLog' \in [Origin -> BOOLEAN]
    BY <1>1, <1>4
  <2> QED
    BY <1>1, <1>2, <1>4, <2>1 DEF MTyped
<1>6. FlagPerLine'
  <2>1. \A i, j \in DOMAIN fanouts :
          fanouts[i].source = fanouts[j].source \/ fanouts[i].line = fanouts[j].line => i = j
    BY DEF MInv, FlagPerLine
  <2>2. ASSUME NEW s \in Origin PROVE emittingLog'[s] <=> \E i \in DOMAIN fanouts' : fanouts'[i].source = s
    <3>1. emittingLog[s] <=> \E i \in DOMAIN fanouts : fanouts[i].source = s
      BY DEF MInv, FlagPerLine
    <3>2. CASE s = o
      <4>1. ~emittingLog'[s]
        BY <1>1, <1>4, <3>2
      <4>2. \A i \in DOMAIN fanouts' : fanouts'[i].source # s
        BY <1>1, <1>2, <1>3, <2>1, <3>2
      <4> QED
        BY <4>1, <4>2
    <3>3. CASE s # o
      <4>1. emittingLog'[s] = emittingLog[s]
        BY <1>1, <1>4, <3>3
      <4>2. (\E i \in DOMAIN fanouts : fanouts[i].source = s) => \E i \in DOMAIN fanouts' : fanouts'[i].source = s
        BY <1>1, <1>2, <1>3, <3>3
      <4>3. (\E i \in DOMAIN fanouts' : fanouts'[i].source = s) => \E i \in DOMAIN fanouts : fanouts[i].source = s
        BY <1>1, <1>2
      <4> QED
        BY <3>1, <4>1, <4>2, <4>3
    <3> QED
      BY <3>2, <3>3
  <2> QED
    BY <1>1, <1>2, <2>1, <2>2 DEF FlagPerLine
<1>7. ASSUME NEW line, NEW w \in Watcher PROVE Owed(w, line)' <=> Owed(w, line)
  <2>1. ~(fanouts[L].next <= w)
    BY <1>3, MirrorAssumption DEF Watcher
  <2>2. Owed(w, line)' => Owed(w, line)
    BY <1>1, <1>2 DEF Owed
  <2>3. Owed(w, line) => Owed(w, line)'
    BY <1>1, <1>2, <2>1 DEF Owed
  <2> QED
    BY <2>2, <2>3
<1>8. \A w, line : Times(w, line)' = Times(w, line)
  BY <1>1 DEF Times
<1>9. HeardSoFar'
  <2>1. \A i \in DOMAIN fanouts' : fanouts'[i].line \notin muted'
    BY <1>1, <1>2 DEF MInv, HeardSoFar
  <2> QED
    BY <1>1, <1>7, <1>8, <2>1 DEF MInv, HeardSoFar
<1> QED
  BY <1>5, <1>6, <1>9 DEF MInv

LEMMA MirrorStep == MInv /\ [MNext]_mvars => MInv'
<1> SUFFICES ASSUME MInv, [MNext]_mvars PROVE MInv'
  OBVIOUS
<1>1. CASE UNCHANGED mvars
  <2>1. UNCHANGED <<emittingLog, fanouts, seen, lines, muted>>
    BY <1>1 DEF mvars
  <2>2. MTyped'
    BY <2>1 DEF MInv, MTyped
  <2>3. FlagPerLine'
    BY <2>1 DEF MInv, FlagPerLine
  <2>4. HeardSoFar'
    <3>1. \A w, line : Owed(w, line)' = Owed(w, line) /\ Times(w, line)' = Times(w, line)
      BY <2>1 DEF Owed, Times
    <3> QED
      BY <2>1, <3>1 DEF MInv, HeardSoFar
  <2> QED
    BY <2>2, <2>3, <2>4 DEF MInv
<1>2. CASE MNext
  BY <1>2, LogKeeps, DeliverKeeps, DeliveredKeeps DEF MNext
<1> QED
  BY <1>1, <1>2

(* A line of the log is heard once by everyone, or by no one: for any number *)
(* of sources and watchers, whatever the watchers log in turn.              *)
THEOREM MirrorInvariant == MSpec => []MInv
<1> QED
  BY MirrorInit, MirrorStep, PTL DEF MSpec

LEMMA MirrorTypes == MInv => MTypeOK
<1> SUFFICES ASSUME MInv PROVE MTypeOK
  OBVIOUS
<1>1. ASSUME NEW i \in DOMAIN fanouts PROVE fanouts[i].source \in Origin
  <2>1. fanouts[i] \in Delivery
    BY LenProperties, ElementOfSeq DEF MInv, MTyped
  <2> QED
    BY <2>1 DEF Delivery
<1>2. seen \in [Watcher -> Seq(1..lines)]
  <2>1. ASSUME NEW w \in Watcher PROVE seen[w] \in Seq(1..lines)
    <3>1. seen[w] \in Seq(Nat) /\ \A k \in DOMAIN seen[w] : seen[w][k] \in 1..lines
      BY DEF MInv, MTyped
    <3>2. Len(seen[w]) \in Nat /\ DOMAIN seen[w] = 1..Len(seen[w]) /\ seen[w] = [k \in 1..Len(seen[w]) |-> seen[w][k]]
      BY <3>1, LenProperties
    <3> DEFINE S == 1..lines
               N == Len(seen[w])
    <3>3. seen[w] \in [1..N -> S]
      BY <3>1, <3>2
    <3> HIDE DEF S, N
    <3>4. seen[w] \in Seq(S)
      BY <3>2, <3>3 DEF N
    <3> QED
      BY <3>4 DEF S
  <2> QED
    BY <2>1 DEF MInv, MTyped
<1> QED
  BY <1>1, <1>2 DEF MInv, MTyped, MTypeOK

HeardOnce ==
  /\ \A i, j \in DOMAIN fanouts : fanouts[i].source = fanouts[j].source => i = j
  /\ (fanouts = <<>>) =>
       \A line \in 1..lines, w \in Watcher : line \notin muted => Times(w, line) = 1

LEMMA Heard == MInv => HeardOnce
<1> SUFFICES ASSUME MInv PROVE HeardOnce
  OBVIOUS
<1>1. ASSUME fanouts = <<>> PROVE \A w, line : ~Owed(w, line)
  BY <1>1 DEF Owed
<1> QED
  BY <1>1 DEF MInv, FlagPerLine, HeardSoFar, HeardOnce

(* "Drop a log-of-a-log; never recurse", and lose nothing else              *)
(* (pushLogEntry, busLogger).                                              *)
THEOREM LinesHeard == MSpec => LinesAreHeard
<1>1. HeardOnce' =>
        /\ \A i, j \in DOMAIN fanouts' : fanouts'[i].source = fanouts'[j].source => i = j
        /\ (fanouts' = <<>>) =>
             \A line \in 1..lines', w \in Watcher : line \notin muted' => Times(w, line)' = 1
  BY DEF HeardOnce
<1> QED
  BY <1>1, Heard, MirrorInvariant, PTL DEF LinesAreHeard

----------------------------------------------------------------------------
(* The gateway (Gateway): the names of tools on the wire.                   *)

(* What the wire names of a set of names, and their suffixes, are made of.  *)
Letters(names) == Nat \cup UNION {{n.wire[i] : i \in DOMAIN n.wire} : n \in names}
WireNames(names) == Seq(Letters(names)) \ {<<>>}

(* Suffixes are counted up to one more than there are names in use: one of  *)
(* them is free.                                                           *)
LEMMA FreeIsFree ==
  ASSUME NEW names, NEW wire \in WireNames(names),
         NEW used \in SUBSET WireNames(names), IsFiniteSet(used)
  PROVE  Free(wire, used) \in WireNames(names) /\ Free(wire, used) \notin used
<1> DEFINE N == Cardinality(used)
           L == Letters(names)
           with == [n \in 2..(N + 2) |-> Append(wire, n)]
           free == {n \in 2..(N + 2) : Append(wire, n) \notin used}
<1>1. N \in Nat
  BY FS_CardinalityType
<1>2. CASE wire \notin used
  BY <1>2 DEF Free
<1>3. CASE wire \in used
  <2>1. wire \in Seq(L) /\ Nat \subseteq L
    BY DEF WireNames, Letters
  <2> HIDE DEF L
  <2>2. \A n \in Nat : Append(wire, n) \in Seq(L) /\ Append(wire, n) # <<>>
                       /\ Append(wire, n)[Len(wire) + 1] = n
    BY <2>1, AppendProperties
  <2>3. free # {}
    <3> SUFFICES ASSUME free = {} PROVE FALSE
      OBVIOUS
    <3>1. with \in [2..(N + 2) -> used]
      BY <1>1
    <3>2. IsFiniteSet(2..(N + 2)) /\ Cardinality(2..(N + 2)) = N + 1
      BY <1>1, FS_Interval
    <3>3. N < Cardinality(2..(N + 2))
      BY <1>1, <3>2
    <3>4. \E n, m \in 2..(N + 2) : n # m /\ with[n] = with[m]
      <4> DEFINE D == 2..(N + 2)
      <4>1. with \in [D -> used] /\ IsFiniteSet(D) /\ Cardinality(used) < Cardinality(D)
        BY <3>1, <3>2, <3>3
      <4> HIDE DEF with, D
      <4>2. \E n, m \in D : n # m /\ with[n] = with[m]
        BY <4>1, FS_PigeonHole
      <4> QED
        BY <4>2 DEF D
    <3>5. \A n \in 2..(N + 2) : n \in Nat
      BY <1>1
    <3> QED
      BY <2>2, <3>4, <3>5
  <2> DEFINE m == Min(free)
  <2>4. m \in free /\ \A n \in free : m <= n
    <3>1. free \in SUBSET Nat
      BY <1>1
    <3> HIDE DEF free
    <3> QED
      BY <2>3, <3>1, Least
  <2> HIDE DEF m
  <2>5. m \in 2..(N + 2) /\ m \in Nat /\ Append(wire, m) \notin used
    BY <1>1, <2>4
  <2>6. \A k \in 2..(m - 1) : Append(wire, k) \in used
    <3> SUFFICES ASSUME NEW k \in 2..(m - 1), Append(wire, k) \notin used PROVE FALSE
      OBVIOUS
    <3>1. k \in 2..(N + 2) /\ ~(m <= k)
      BY <1>1, <2>5
    <3> QED
      BY <2>4, <3>1
  <2> DEFINE ok(n) == Append(wire, n) \notin used /\ \A k \in 2..(n - 1) : Append(wire, k) \in used
             c == CHOOSE n \in 2..(N + 2) : ok(n)
  <2>7. c \in 2..(N + 2) /\ ok(c)
    BY <2>5, <2>6
  <2>8. Free(wire, used) = Append(wire, c)
    BY <1>3 DEF Free
  <2> HIDE DEF c
  <2>9. c \in Nat
    BY <1>1, <2>7
  <2> QED
    BY <2>2, <2>7, <2>8, <2>9 DEF WireNames, L
<1> QED
  BY <1>2, <1>3

(* Each name has a wire name of its own.                                   *)
Tidy(map, names) ==
  /\ map.names \in Seq(names) /\ map.wires \in Seq(WireNames(names))
  /\ Len(map.names) = Len(map.wires)
  /\ IsInjective(map.names) /\ IsInjective(map.wires)

LEMMA NameClaimed ==
  ASSUME NEW names, \A n \in names : IsName(n),
         NEW map, Tidy(map, names), NEW name \in names
  PROVE  /\ Tidy(Claim(map, name), names)
         /\ ToSet(Claim(map, name).names) = ToSet(map.names) \cup {name}
<1> DEFINE W == WireNames(names)
<1>1. name.wire \in W
  <2>1. IsSeq(name.wire) /\ name.wire # <<>>
    BY DEF IsName
  <2>2. \A i \in 1..Len(name.wire) : name.wire[i] \in Letters(names)
    <3>1. DOMAIN name.wire = 1..Len(name.wire)
      BY <2>1 DEF IsSeq
    <3>2. \A i \in DOMAIN name.wire : name.wire[i] \in {name.wire[j] : j \in DOMAIN name.wire}
      OBVIOUS
    <3> QED
      BY <3>1, <3>2 DEF Letters
  <2> DEFINE N == Len(name.wire)
             L == Letters(names)
             w == name.wire
  <2>3. N \in Nat /\ w = [i \in 1..N |-> w[i]] /\ \A i \in 1..N : w[i] \in L
    BY <2>1, <2>2 DEF IsSeq
  <2> HIDE DEF N, L, w
  <2>4. w \in [1..N -> L]
    BY <2>3
  <2>5. w \in Seq(L)
    BY <2>3, <2>4
  <2> QED
    BY <2>1, <2>5 DEF WireNames, L, w
<1>2. CASE name \in ToSet(map.names)
  BY <1>2 DEF Claim
<1>3. CASE name \notin ToSet(map.names)
  <2> DEFINE used == ToSet(map.wires)
             wire == Free(name.wire, used)
             new == Claim(map, name)
  <2>1. /\ map.names \in Seq(names) /\ map.wires \in Seq(W) /\ Len(map.names) = Len(map.wires)
        /\ IsInjective(map.names) /\ IsInjective(map.wires)
    BY DEF Tidy
  <2>2. /\ used \in SUBSET W /\ IsFiniteSet(used)
    <3>1. used \in SUBSET W
      <4> HIDE DEF W
      <4> QED
        BY <2>1, LenProperties, ElementOfSeq DEF ToSet
    <3>2. IsFiniteSet(1..Len(map.wires))
      BY <2>1, LenProperties, FS_Interval
    <3>3. DOMAIN map.wires = 1..Len(map.wires)
      BY <2>1, LenProperties
    <3>4. map.wires \in Surjection(1..Len(map.wires), used)
      <4>1. map.wires = [i \in 1..Len(map.wires) |-> map.wires[i]]
        BY <2>1, <3>3
      <4>2. map.wires \in [1..Len(map.wires) -> used]
        BY <3>3, <4>1 DEF ToSet
      <4> QED
        BY <3>3, <4>2 DEF Surjection, ToSet
    <3> QED
      BY <3>1, <3>2, <3>4, FS_Surjection
  <2>3. wire \in W /\ wire \notin used
    BY <1>1, <2>2, FreeIsFree
  <2>4. new.names = Append(map.names, name) /\ new.wires = Append(map.wires, wire)
    BY <1>3 DEF Claim
  <2> HIDE DEF W, used, wire, new
  <2>5. /\ new.names \in Seq(names) /\ Len(new.names) = Len(map.names) + 1
        /\ ToSet(new.names) = ToSet(map.names) \cup {name} /\ IsInjective(new.names)
    BY <1>3, <2>1, <2>4, Appended
  <2>6. /\ new.wires \in Seq(W) /\ Len(new.wires) = Len(map.wires) + 1 /\ IsInjective(new.wires)
    BY <2>1, <2>3, <2>4, Appended DEF used
  <2> QED
    BY <2>1, <2>5, <2>6 DEF Tidy, W, new
<1> QED
  BY <1>2, <1>3

(* The map that is folded over a list, as far as it has got; no backend     *)
(* knows an induction, so the least index that fails is excluded instead.   *)
FoldsTo(list, map, k) ==
  map = [i \in 0..k |-> IF i = 0 THEN NoNames ELSE Claim(map[i - 1], list[i])]

LEMMA FoldExists == ASSUME NEW list, NEW n \in Nat PROVE \E map : FoldsTo(list, map, n)
<1> DEFINE bad == {k \in Nat : ~ \E map : FoldsTo(list, map, k)}
<1> SUFFICES ASSUME bad # {} PROVE FALSE
  BY DEF bad
<1> DEFINE m == Min(bad)
<1>1. m \in bad /\ \A k \in bad : m <= k
  <2>1. bad \in SUBSET Nat
    OBVIOUS
  <2> HIDE DEF bad
  <2> QED
    BY <2>1, Least
<1> HIDE DEF m
<1>2. CASE m = 0
  <2> DEFINE f == [i \in 0..0 |-> NoNames]
  <2>1. \A i \in 0..0 : i = 0
    OBVIOUS
  <2>2. f = [i \in 0..0 |-> IF i = 0 THEN NoNames ELSE Claim(f[i - 1], list[i])]
    BY <2>1
  <2> HIDE DEF f
  <2>3. FoldsTo(list, f, 0)
    BY <2>2 DEF FoldsTo
  <2> QED
    BY <1>1, <1>2, <2>3
<1>3. CASE m # 0
  <2>1. m - 1 \in Nat /\ m - 1 \notin bad /\ m \in Nat
    BY <1>1, <1>3
  <2>2. PICK f : FoldsTo(list, f, m - 1)
    BY <2>1
  <2> DEFINE g == [i \in 0..m |-> IF i = m THEN Claim(f[m - 1], list[m]) ELSE f[i]]
  <2>3. ASSUME NEW i \in 0..m PROVE g[i] = IF i = 0 THEN NoNames ELSE Claim(g[i - 1], list[i])
    <3>1. CASE i = 0
      <4>1. i \in 0..(m - 1) /\ i # m
        BY <1>3, <2>1, <3>1
      <4>2. f[i] = NoNames
        BY <2>2, <3>1, <4>1 DEF FoldsTo
      <4> QED
        BY <3>1, <4>1, <4>2
    <3>2. CASE i = m
      <4>1. i # 0 /\ i - 1 \in 0..m /\ i - 1 # m /\ i - 1 = m - 1
        BY <1>3, <2>1, <3>2
      <4>2. g[i - 1] = f[m - 1]
        BY <4>1
      <4> QED
        BY <3>2, <4>1, <4>2
    <3>3. CASE i # 0 /\ i # m
      <4>1. i \in 0..(m - 1) /\ i - 1 \in 0..m /\ i - 1 # m
        BY <2>1, <3>3
      <4>2. f[i] = Claim(f[i - 1], list[i])
        BY <2>2, <3>3, <4>1 DEF FoldsTo
      <4> QED
        BY <3>3, <4>1, <4>2
    <3> QED
      BY <3>1, <3>2, <3>3
  <2>4. g = [i \in 0..m |-> g[i]]
    OBVIOUS
  <2> HIDE DEF g
  <2>5. FoldsTo(list, g, m)
    BY <2>3, <2>4 DEF FoldsTo
  <2> QED
    BY <1>1, <2>5
<1> QED
  BY <1>2, <1>3

LEMMA NamesMapped ==
  ASSUME NEW names, \A n \in names : IsName(n), NEW list \in Seq(names)
  PROVE  Tidy(NameMap(list), names) /\ ToSet(NameMap(list).names) = ToSet(list)
<1> DEFINE n == Len(list)
           map == CHOOSE f : FoldsTo(list, f, n)
           upTo(i) == {list[j] : j \in 1..i}
           bad == {i \in 0..n : ~(Tidy(map[i], names) /\ ToSet(map[i].names) = upTo(i))}
<1>1. n \in Nat /\ DOMAIN list = 1..n /\ \A i \in 1..n : list[i] \in names
  BY LenProperties, ElementOfSeq
<1>2. FoldsTo(list, map, n)
  BY <1>1, FoldExists
<1>3. NameMap(list) = map[n]
  BY DEF NameMap, FoldsTo
<1> HIDE DEF map
<1>4. bad = {}
  <2> SUFFICES ASSUME bad # {} PROVE FALSE
    OBVIOUS
  <2> DEFINE m == Min(bad)
  <2>1. m \in bad /\ \A k \in bad : m <= k
    <3>1. bad \in SUBSET Nat
      BY <1>1
    <3> HIDE DEF bad
    <3> QED
      BY <3>1, Least
  <2> HIDE DEF m
  <2>2. m \in 0..n /\ m \in Nat
    BY <1>1, <2>1
  <2>3. CASE m = 0
    <3>1. map[m] = NoNames
      BY <1>2, <2>2, <2>3 DEF FoldsTo
    <3>2. Tidy(NoNames, names)
      <4>1. /\ NoNames.names = <<>> /\ NoNames.wires = <<>>
        BY DEF NoNames
      <4>2. <<>> \in Seq(names) /\ <<>> \in Seq(WireNames(names)) /\ IsInjective(<<>>)
        BY DEF IsInjective
      <4> QED
        BY <4>1, <4>2 DEF Tidy
    <3>3. upTo(m) = {} /\ ToSet(NoNames.names) = {}
      BY <2>3 DEF NoNames, ToSet
    <3> QED
      BY <2>1, <3>1, <3>2, <3>3
  <2>4. CASE m # 0
    <3>1. m - 1 \in 0..n /\ m - 1 \notin bad /\ m \in 1..n
      <4>1. m - 1 \in 0..n /\ ~(m <= m - 1) /\ m \in 1..n
        BY <1>1, <2>2, <2>4
      <4> HIDE DEF bad
      <4> QED
        BY <2>1, <4>1
    <3>2. Tidy(map[m - 1], names) /\ ToSet(map[m - 1].names) = upTo(m - 1)
      BY <3>1
    <3>3. map[m] = Claim(map[m - 1], list[m])
      BY <1>2, <2>2, <2>4 DEF FoldsTo
    <3>4. Tidy(map[m], names) /\ ToSet(map[m].names) = upTo(m - 1) \cup {list[m]}
      <4> HIDE DEF upTo, bad, n
      <4> DEFINE last == map[m - 1]
                 name == list[m]
      <4>1. name \in names /\ Tidy(last, names) /\ ToSet(last.names) = upTo(m - 1)
        BY <1>1, <3>1, <3>2
      <4> HIDE DEF last, name
      <4>2. Tidy(Claim(last, name), names) /\ ToSet(Claim(last, name).names) = ToSet(last.names) \cup {name}
        BY <4>1, NameClaimed, ZenonT(60)
      <4> QED
        BY <3>3, <4>1, <4>2 DEF last, name
    <3>5. upTo(m) = upTo(m - 1) \cup {list[m]}
      <4>1. 1..m = 1..(m - 1) \cup {m}
        BY <2>2, <2>4
      <4> QED
        BY <4>1
    <3> QED
      BY <2>1, <3>4, <3>5
  <2> QED
    BY <2>3, <2>4
<1>5. n \in 0..n /\ upTo(n) = ToSet(list)
  BY <1>1 DEF ToSet
<1> QED
  BY <1>3, <1>4, <1>5

(* What was encoded is decoded: the name comes back.                       *)
LEMMA ComesBack ==
  ASSUME NEW names, \A n \in names : IsName(n), NEW list \in Seq(names), NEW name \in ToSet(list)
  PROVE  Decode(NameMap(list), Encode(NameMap(list), name)) = name
<1> DEFINE map == NameMap(list)
           i == CHOOSE k \in DOMAIN map.names : map.names[k] = name
           wire == map.wires[i]
           j == CHOOSE k \in DOMAIN map.wires : map.wires[k] = wire
<1>1. Tidy(map, names) /\ ToSet(map.names) = ToSet(list)
  BY NamesMapped
<1> HIDE DEF map
<1>2. /\ DOMAIN map.names = DOMAIN map.wires
      /\ IsInjective(map.names) /\ IsInjective(map.wires)
  BY <1>1, LenProperties DEF Tidy
<1>3. name \in ToSet(map.names) /\ i \in DOMAIN map.names /\ map.names[i] = name
  BY <1>1 DEF ToSet
<1>4. Encode(map, name) = wire
  BY <1>3 DEF Encode
<1> HIDE DEF i
<1>5. wire \in ToSet(map.wires) /\ \E k \in DOMAIN map.wires : map.wires[k] = wire
  BY <1>2, <1>3 DEF ToSet
<1>6. j \in DOMAIN map.wires /\ map.wires[j] = map.wires[i]
  BY <1>5
<1>7. Decode(map, wire) = map.names[j]
  BY <1>5 DEF Decode
<1> HIDE DEF j
<1>8. j = i
  BY <1>2, <1>3, <1>6 DEF IsInjective
<1> QED
  BY <1>3, <1>4, <1>7, <1>8 DEF map

(* From the post on the provider has the request; an answer is the tools    *)
(* that were asked about, some way round.                                  *)
Sent == Body(asked.communicator.provider, asked.tools, asked.messages)
Answers == {<<>>, asked.tools, Reverse(asked.tools)}

GInv ==
  /\ asked \in Requests /\ progress \in Progress
  /\ body \in {NoBody, Sent}
  /\ progress \in {"headers", "body", "error body", "ok"} => body = Sent
  /\ reply \in Answers

LEMMA ToolsSent ==
  ASSUME asked \in Requests
  PROVE  /\ asked.tools \in Seq(ToSet(asked.tools)) /\ \A n \in ToSet(asked.tools) : IsName(n)
         /\ Sent.tools = Wires(NameMap(asked.tools), asked.tools)
<1>1. asked.tools \in Seq(ToSet(asked.tools)) /\ \A n \in ToSet(asked.tools) : IsName(n)
  BY RequestsAssumption
<1>2. \A messages, p :
        Body(p, asked.tools, messages).tools = Wires(NameMap(asked.tools), asked.tools)
  BY DEF Body, AnthropicBody, ResponsesBody, OpenAIBody
<1> QED
  BY <1>1, <1>2 DEF Sent

LEMMA GatewayInit == GInit => GInv
  BY DEF GInit, GInv, Progress, Answers

LEMMA ReplyKeeps ==
  ASSUME GInv, NEW wires \in {<<>>, body.tools, Reverse(body.tools)}, Reply(wires)
  PROVE  GInv'
<1> DEFINE list == asked.tools
           map == NameMap(asked.tools)
           sent == body.tools
<1>1. /\ asked \in Requests /\ body = Sent
      /\ reply' = [i \in DOMAIN wires |-> Decode(map, wires[i])]
      /\ progress' = "ok" /\ asked' = asked /\ body' = body
  BY DEF GInv, Reply
<1>2. /\ list \in Seq(ToSet(list)) /\ \A n \in ToSet(list) : IsName(n)
      /\ sent = [i \in DOMAIN list |-> Encode(map, list[i])]
  BY <1>1, ToolsSent DEF Wires
<1>3. Len(list) \in Nat /\ DOMAIN list = 1..Len(list) /\ list = [i \in 1..Len(list) |-> list[i]]
  BY <1>2, LenProperties
<1> HIDE DEF list
<1>4. \A i \in DOMAIN list : Decode(NameMap(list), Encode(NameMap(list), list[i])) = list[i]
  <2>1. \A i \in DOMAIN list : list[i] \in ToSet(list)
    BY DEF ToSet
  <2> QED
    BY <1>2, <2>1, ComesBack
<1>5. \A i \in DOMAIN list : Decode(map, sent[i]) = list[i]
  BY <1>2, <1>4 DEF list
<1> HIDE DEF map, sent
<1>6. Len(sent) = Len(list) /\ DOMAIN sent = 1..Len(list)
  <2>1. DOMAIN sent = 1..Len(list)
    BY <1>2, <1>3
  <2>2. sent \in Seq({sent[i] : i \in DOMAIN sent})
    <3> DEFINE N == Len(list)
               S == {sent[i] : i \in DOMAIN sent}
    <3>1. \A i \in 1..N : sent[i] \in S
      BY <2>1
    <3>2. sent = [i \in 1..N |-> sent[i]] /\ N \in Nat
      BY <1>2, <1>3
    <3> HIDE DEF N, S
    <3>3. sent \in [1..N -> S]
      BY <3>1, <3>2
    <3>4. sent \in Seq(S)
      BY <3>2, <3>3
    <3> QED
      BY <3>4 DEF S
  <2>3. Len(sent) \in Nat /\ DOMAIN sent = 1..Len(sent)
    BY <2>2, LenProperties
  <2> QED
    BY <1>3, <2>1, <2>3
<1>7. reply' \in {<<>>, list, Reverse(list)}
  <2>1. CASE wires = <<>>
    BY <1>1, <2>1
  <2>2. CASE wires = sent
    <3>1. reply' = [i \in 1..Len(list) |-> list[i]]
      BY <1>1, <1>3, <1>5, <1>6, <2>2
    <3> QED
      BY <1>3, <3>1
  <2>3. CASE wires = Reverse(sent)
    <3>1. wires = [i \in 1..Len(list) |-> sent[(Len(list) - i) + 1]]
      BY <1>6, <2>3 DEF Reverse
    <3>2. \A i \in 1..Len(list) : (Len(list) - i) + 1 \in DOMAIN list
      BY <1>3
    <3>3. reply' = [i \in 1..Len(list) |-> list[(Len(list) - i) + 1]]
      BY <1>1, <1>5, <3>1, <3>2
    <3> QED
      BY <3>3 DEF Reverse
  <2> QED
    BY <2>1, <2>2, <2>3 DEF sent
<1>8. reply' \in Answers'
  BY <1>1, <1>7 DEF Answers, list
<1>9. Sent' = Sent
  BY <1>1 DEF Sent
<1> QED
  BY <1>1, <1>8, <1>9 DEF GInv, Progress

LEMMA GatewayStep == GInv /\ [GNext]_gvars => GInv'
<1> SUFFICES ASSUME GInv, [GNext]_gvars PROVE GInv'
  OBVIOUS
<1>1. asked' = asked
  BY DEF GNext, gvars, Refuse, Post, Breaks, Headers, Deadline, ErrorBody, Reply
<1>2. Sent' = Sent /\ Answers' = Answers
  BY <1>1 DEF Sent, Answers
<1>3. CASE UNCHANGED gvars
  BY <1>2, <1>3 DEF GInv, gvars
<1>4. CASE Refuse
  BY <1>2, <1>4 DEF GInv, Refuse, Progress
<1>5. CASE Post
  BY <1>2, <1>5 DEF GInv, Post, Progress, Sent
<1>6. CASE Breaks
  BY <1>2, <1>6 DEF GInv, Breaks, Progress
<1>7. CASE Headers
  BY <1>2, <1>7 DEF GInv, Headers, Progress
<1>8. CASE Deadline
  BY <1>2, <1>8 DEF GInv, Deadline, Progress
<1>9. CASE ErrorBody
  BY <1>2, <1>9 DEF GInv, ErrorBody, Progress
<1> QED
  BY <1>3, <1>4, <1>5, <1>6, <1>7, <1>8, <1>9, ReplyKeeps DEF GNext

LEMMA GatewayTypes == GInv => GTypeOK
<1> SUFFICES ASSUME GInv, NEW i \in DOMAIN reply PROVE IsName(reply[i])
  BY DEF GInv, GTypeOK
<1> DEFINE list == asked.tools
<1>1. list \in Seq(ToSet(list)) /\ \A n \in ToSet(list) : IsName(n)
  BY ToolsSent DEF GInv
<1>2. Len(list) \in Nat /\ DOMAIN list = 1..Len(list)
  BY <1>1, LenProperties
<1>3. reply \in {<<>>, list, Reverse(list)}
  BY DEF GInv, Answers
<1> HIDE DEF list
<1>4. \A k \in DOMAIN list : list[k] \in ToSet(list)
  BY DEF ToSet
<1>5. CASE reply = list
  BY <1>1, <1>4, <1>5
<1>6. CASE reply = Reverse(list)
  <2>1. i \in 1..Len(list) /\ reply[i] = list[(Len(list) - i) + 1]
    BY <1>6 DEF Reverse
  <2>2. (Len(list) - i) + 1 \in DOMAIN list
    BY <1>2, <2>1
  <2> QED
    BY <1>1, <1>4, <2>1, <2>2
<1> QED
  BY <1>3, <1>5, <1>6

LEMMA NamesKept == GInv => NamesComeHome
<1> SUFFICES ASSUME GInv PROVE NamesComeHome
  OBVIOUS
<1>1. progress = "ok" => reply = <<>> \/ reply = asked.tools \/ reply = Reverse(asked.tools)
  BY DEF GInv, Answers
<1>2. ASSUME body # NoBody, NEW i \in DOMAIN asked.tools, NEW j \in DOMAIN asked.tools,
             body.tools[i] = body.tools[j]
      PROVE asked.tools[i] = asked.tools[j]
  <2> DEFINE list == asked.tools
             map == NameMap(asked.tools)
  <2>1. /\ list \in Seq(ToSet(list)) /\ \A n \in ToSet(list) : IsName(n)
        /\ body.tools = [k \in DOMAIN list |-> Encode(map, list[k])]
    BY <1>2, ToolsSent DEF GInv, Wires
  <2>2. Encode(map, list[i]) = Encode(map, list[j])
    BY <1>2, <2>1
  <2> HIDE DEF list
  <2>3. \A k \in DOMAIN list : Decode(NameMap(list), Encode(NameMap(list), list[k])) = list[k]
    <3>1. \A k \in DOMAIN list : list[k] \in ToSet(list)
      BY DEF ToSet
    <3> QED
      BY <2>1, <3>1, ComesBack
  <2> QED
    BY <2>2, <2>3 DEF list
<1> QED
  BY <1>1, <1>2 DEF NamesComeHome

(* For any list of tools, whichever of their names clash when sanitised:    *)
(* distinct tools are distinct on the wire, and what the model calls is the *)
(* tool it was shown under that name (buildToolNameMap, toolNameMap.decode). *)
THEOREM GatewayInvariant == GInit /\ [][GNext]_gvars => []GInv
<1> QED
  BY GatewayInit, GatewayStep, PTL

THEOREM NamesAlwaysComeHome == GSpec => []NamesComeHome
<1>1. GSpec => GInit /\ [][GNext]_gvars
  BY PTL DEF GSpec
<1> QED
  BY <1>1, GatewayInvariant, NamesKept, PTL

----------------------------------------------------------------------------
(* The agents and the parts of one, side by side (MCAgent): a part that     *)
(* rests stutters, so each keeps the invariant of its own specification.    *)

AgentInv ==
  /\ LifeInv /\ DInv /\ MInv /\ PInv
  /\ subject = "loader" => LInv
  /\ subject = "gateway" => GInv

LEMMA PartsBegin == AgentInit => AgentInv
<1> SUFFICES ASSUME AgentInit PROVE AgentInv
  OBVIOUS
<1>1. Init /\ DInit /\ MInit /\ PInit
  BY DEF AgentInit
<1>2. (subject = "loader" => LInit) /\ (subject = "gateway" => GInit)
  BY DEF AgentInit
<1> QED
  BY <1>1, <1>2, LifeInit, DispatchInit, MirrorInit, PromptInit, LoaderInit, GatewayInit DEF AgentInv

LEMMA PartsStep ==
  [AgentNext]_agentVars =>
    /\ subject' = subject
    /\ [Next]_vars /\ [DNext]_dvars /\ [MNext]_mvars /\ [PNext]_pvars
    /\ subject = "loader" => [LNext]_lvars
    /\ subject = "gateway" => [GNext]_gvars
<1> SUFFICES ASSUME [AgentNext]_agentVars
             PROVE  /\ subject' = subject
                    /\ [Next]_vars /\ [DNext]_dvars /\ [MNext]_mvars /\ [PNext]_pvars
                    /\ subject = "loader" => [LNext]_lvars
                    /\ subject = "gateway" => [GNext]_gvars
  OBVIOUS
<1>1. CASE UNCHANGED agentVars
  BY <1>1 DEF agentVars
<1>2. CASE Lives(Next)
  BY <1>2 DEF Lives
<1>3. CASE subject = "loader" /\ LNext /\ UNCHANGED <<subject, vars, dvars, mvars, pvars, gvars>>
  BY <1>3
<1>4. CASE subject = "dispatch" /\ DNext /\ UNCHANGED <<subject, vars, lvars, mvars, pvars, gvars>>
  BY <1>4
<1>5. CASE subject = "logs" /\ MNext /\ UNCHANGED <<subject, vars, lvars, dvars, pvars, gvars>>
  BY <1>5
<1>6. CASE subject = "prompt" /\ PNext /\ UNCHANGED <<subject, vars, lvars, dvars, mvars, gvars>>
  BY <1>6
<1>7. CASE subject = "gateway" /\ GNext /\ UNCHANGED <<subject, vars, lvars, dvars, mvars, pvars>>
  BY <1>7
<1> QED
  BY <1>1, <1>2, <1>3, <1>4, <1>5, <1>6, <1>7 DEF AgentNext

LEMMA PartsKeep == AgentInv /\ [AgentNext]_agentVars => AgentInv'
<1> SUFFICES ASSUME AgentInv, [AgentNext]_agentVars PROVE AgentInv'
  OBVIOUS
<1>1. /\ subject' = subject
      /\ [Next]_vars /\ [DNext]_dvars /\ [MNext]_mvars /\ [PNext]_pvars
      /\ subject = "loader" => [LNext]_lvars
      /\ subject = "gateway" => [GNext]_gvars
  BY PartsStep
<1>2. LifeInv' /\ DInv'
  BY <1>1, LifeStep, DispatchStep DEF AgentInv
<1>3. MInv' /\ PInv'
  BY <1>1, MirrorStep, PromptStep DEF AgentInv
<1>4. (subject' = "loader" => LInv') /\ (subject' = "gateway" => GInv')
  BY <1>1, LoaderStep, GatewayStep DEF AgentInv
<1> QED
  BY <1>2, <1>3, <1>4 DEF AgentInv

LEMMA AgentRuns == AgentSpec => AgentInit /\ [][AgentNext]_agentVars
  BY PTL DEF AgentSpec

(* Whichever part moves, each is in its invariant.                         *)
THEOREM AgentInvariant == AgentSpec => []AgentInv
<1> QED
  BY PartsBegin, PartsKeep, AgentRuns, PTL

(* The types of all that an agent is made of, for every value of the        *)
(* constants: any plugins, listeners, watchers, prompt plans and requests.  *)
THEOREM PartsTypeCorrect == AgentSpec => []PartsTypeOK
<1>1. AgentInv => PartsTypeOK
  BY LoaderTypes, DispatchTypes, MirrorTypes, PromptTypes, GatewayTypes DEF AgentInv, PartsTypeOK, LifeInv
<1> QED
  BY <1>1, AgentInvariant, PTL

(* A plugin that fails to come up leaves nothing half up: no registration   *)
(* (undoPluginSetup), no tool without an action.                           *)
THEOREM NothingStaysHalfUp == AgentSpec => []NothingHalfUp
<1>1. AgentInv => NothingHalfUp
  BY DEF AgentInv, LInv, PInv, ToolsAnswer, NothingHalfUp, OfferedToolsAnswer
<1> QED
  BY <1>1, AgentInvariant, PTL

(* What a plugin requires came up before it, and is missing in the end if   *)
(* the plugin was left out for it (the dependency sweep).                  *)
THEOREM RequirementsAlwaysHold == AgentSpec => []RequirementsHold
<1>1. AgentInv => RequirementsHold
  BY DEF AgentInv, LInv, Stuck, RequirementsHold, SkippedForCause
<1> QED
  BY <1>1, AgentInvariant, PTL

(* What goes out by name comes home, for every request.                     *)
THEOREM NamesHome == AgentSpec => [](subject = "gateway" => NamesComeHome)
<1>1. AgentInv => (subject = "gateway" => NamesComeHome)
  BY NamesKept DEF AgentInv
<1> QED
  BY <1>1, AgentInvariant, PTL

(* Stops are orderly with the parts beside.                                 *)
THEOREM AgentsStopOrderly == AgentSpec => []StopIsOrderly
<1>1. Init /\ [][Next]_vars => []StopIsOrderly
  <2>1. LifeInv /\ (interference = {} => ExitInv) /\ [Next]_vars
          => (interference = {} => ExitInv)'
    BY ExitStep
  <2>2. LifeInv /\ (interference = {} => ExitInv) => ExitAwaitsHandles
    BY HandlesAreAgents DEF LifeInv, ExitInv, FlagsFollowStage, ExitAwaitsHandles, StopsSettled
  <2>3. Init => (interference = {} => ExitInv)
    BY ExitInvInit
  <2>4. LifeInv /\ ExitAwaitsHandles => StopIsOrderly
    BY DEF LifeInv, FlagsFollowStage, StopIsOrderly, QuietWhenStopped, NoTeardownUnderLoad
  <2> QED
    BY <2>1, <2>2, <2>3, <2>4, LifeInit, LifeStep, PTL
<1>2. AgentInit => Init
  BY DEF AgentInit
<1>3. [AgentNext]_agentVars => [Next]_vars
  BY PartsStep
<1> QED
  BY <1>1, <1>2, <1>3, AgentRuns, PTL

(* Of EveryoneHears, what is no liveness: every listener of an emission is  *)
(* called, and every line of the log is heard once.                        *)
THEOREM AgentsHear == AgentSpec => EveryListenerHears /\ LinesAreHeard
<1>1. AgentInit => DInit /\ MInit
  BY DEF AgentInit
<1>2. [AgentNext]_agentVars => [DNext]_dvars /\ [MNext]_mvars
  BY PartsStep
<1>3. DInv /\ [DNext]_dvars
        => \A i \in DOMAIN stack :
             (i > Len(stack') /\ stack[i].at \in Event) => stack[i].due \subseteq stack[i].served
  BY AllHeard
<1>4. AgentSpec => []AgentInv
  BY AgentInvariant
<1>5. AgentInv => DInv
  BY DEF AgentInv
<1>6. AgentSpec => MSpec
  BY <1>1, <1>2, AgentRuns, PTL DEF MSpec
<1>7. AgentSpec => EveryListenerHears
  BY <1>2, <1>3, <1>4, <1>5, AgentRuns, PTL DEF EveryListenerHears
<1> QED
  BY <1>6, <1>7, LinesHeard, PTL
=============================================================================
