----------------------------- MODULE Lifecycle -----------------------------
(***************************************************************************)
(* The life of the agents of one runtime process: boot starts them one     *)
(* after the other, and whoever holds a handle, a core.restart action or   *)
(* the signal handlers stops them.                                         *)
(*                                                                         *)
(* Agent.start and Agent.stop are asynchronous and know of each other only *)
(* through three flags; a load that is stopped half-way is torn down by    *)
(* the start that began it.  One action is the code between two awaits.    *)
(* The plugins of an agent are one resource: held while any of them is set *)
(* up and not torn down.                                                   *)
(***************************************************************************)
EXTENDS Naturals, FiniteSets

CONSTANTS
  AgentCount,     \* how many agents are configured; boot starts 1, 2, ...
  Stopper,        \* bound: the stop requests that may be made
  Clashing        \* agents with a plugin that took one of the core actions

ASSUME AgentCountAssumption == AgentCount \in Nat \ {0}

Agent == 1..AgentCount

ASSUME ClashingAssumption == Clashing \subseteq Agent

VARIABLES
  started,      \* per agent: the flags of createAgentInstance
  stopped,
  running,
  stage,        \* per agent: where its start() is
  held,         \* per agent: plugins are set up and not yet torn down
  teardown,     \* per agent: "none", "under way", "done"
  clockOn,      \* per agent: the clock runs
  orchestrating,\* per agent: the orchestrator listens
  restartable,  \* per agent: core.restart is registered
  nextAgent,    \* boot: the agent it is starting, or one past the last
  handles,      \* boot: the agents that count as running
  request,      \* per stopper: "unused", "stopping", "settling"
  awaited,      \* per stopper: the agents whose teardown its stop() awaits
  interference, \* how the stops so far got in each other's way (history)
  exited        \* process.exit was called

flags == <<started, stopped, running>>
parts == <<clockOn, orchestrating, restartable>>
boot == <<nextAgent, handles>>
requests == <<request, awaited, interference>>
vars == <<started, stopped, running, stage, held, teardown, clockOn,
          orchestrating, restartable, nextAgent, handles, request, awaited, interference, exited>>

Stage == {"new", "loading", "unloading", "up", "stillborn", "failed"}

TypeOK ==
  /\ started \in [Agent -> BOOLEAN]
  /\ stopped \in [Agent -> BOOLEAN]
  /\ running \in [Agent -> BOOLEAN]
  /\ stage \in [Agent -> Stage]
  /\ held \in [Agent -> BOOLEAN]
  /\ teardown \in [Agent -> {"none", "under way", "done"}]
  /\ clockOn \in [Agent -> BOOLEAN]
  /\ orchestrating \in [Agent -> BOOLEAN]
  /\ restartable \in [Agent -> BOOLEAN]
  /\ nextAgent \in 1..(AgentCount + 1)
  /\ handles \in SUBSET (1..(nextAgent - 1))
  /\ request \in [Stopper -> {"unused", "stopping", "settling"}]
  /\ awaited \in [Stopper -> SUBSET Agent]
  /\ interference \subseteq {"early", "second", "direct"}
  /\ exited \in BOOLEAN

No == [a \in Agent |-> FALSE]

Init ==
  /\ started = No /\ stopped = No /\ running = No
  /\ stage = [a \in Agent |-> "new"]
  /\ held = No
  /\ teardown = [a \in Agent |-> "none"]
  /\ clockOn = No /\ orchestrating = No /\ restartable = No
  /\ nextAgent = 1
  /\ handles = {}
  /\ request = [s \in Stopper |-> "unused"]
  /\ awaited = [s \in Stopper |-> {}]
  /\ interference = {}
  /\ exited = FALSE

BootDone == nextAgent > AgentCount

----------------------------------------------------------------------------
(* Agent.stop on every agent of A, up to its first await.                  *)

Without(f, A) == [a \in Agent |-> f[a] /\ a \notin A]

(* The agents of A on which stop() is not a no-op ... *)
Stoppable(A) == {a \in A : started[a] /\ ~stopped[a]}
(* ... and among them those whose plugins stop() itself tears down: an     *)
(* agent that is still loading leaves that to its start().                 *)
TornDownByStop(A) == {a \in Stoppable(A) : running[a]}

(* Mutant of StopAll: a loading agent is torn down by its stop() too. *)
StopAllAtOnce(A) ==
  LET halting == {a \in Stoppable(A) : stage[a] # "new"} IN
  /\ stopped' = [a \in Agent |-> stopped[a] \/ a \in Stoppable(A)]
  /\ restartable' = Without(restartable, Stoppable(A))
  /\ clockOn' = Without(clockOn, halting)
  /\ orchestrating' = Without(orchestrating, halting)
  /\ teardown' = [a \in Agent |-> IF a \in halting THEN "under way" ELSE teardown[a]]

StopAll(A) ==
  LET halting == TornDownByStop(A) IN
  /\ stopped' = [a \in Agent |-> stopped[a] \/ a \in Stoppable(A)]
  /\ restartable' = Without(restartable, Stoppable(A))
  /\ clockOn' = Without(clockOn, halting)
  /\ orchestrating' = Without(orchestrating, halting)
  /\ teardown' = [a \in Agent |-> IF a \in halting THEN "under way" ELSE teardown[a]]

----------------------------------------------------------------------------
(* Agent.start, and boot's loop around it.                                 *)

(* Mutant of StartAgent: the handle is kept before the start is awaited. *)
StartAgentKept(a) ==
  /\ ~exited
  /\ a = nextAgent
  /\ stage[a] = "new"
  /\ started' = [started EXCEPT ![a] = TRUE]
  /\ stage' = [stage EXCEPT ![a] = "loading"]
  /\ restartable' = [restartable EXCEPT ![a] = TRUE]
  /\ handles' = handles \cup {a}
  /\ UNCHANGED <<stopped, running, held, teardown, clockOn, orchestrating,
                 nextAgent, requests, exited>>

(* boot starts the next agent: core.restart is registered, the load begins. *)
StartAgent(a) ==
  /\ ~exited
  /\ a = nextAgent
  /\ stage[a] = "new"
  /\ started' = [started EXCEPT ![a] = TRUE]
  /\ stage' = [stage EXCEPT ![a] = "loading"]
  /\ restartable' = [restartable EXCEPT ![a] = TRUE]
  /\ UNCHANGED <<stopped, running, held, teardown, clockOn, orchestrating,
                 boot, requests, exited>>

(* The loader sets one of the plugins up. *)
PluginSetUp(a) ==
  /\ ~exited
  /\ stage[a] = "loading"
  /\ ~held[a]
  /\ held' = [held EXCEPT ![a] = TRUE]
  /\ UNCHANGED <<flags, stage, teardown, parts, boot, requests, exited>>

(* Mutant of LoadedAfterStop: the start that was stopped returns at once. *)
LoadedAndForgotten(a) ==
  /\ ~exited
  /\ stage[a] = "loading"
  /\ stopped[a]
  /\ stage' = [stage EXCEPT ![a] = "stillborn"]
  /\ UNCHANGED <<flags, held, teardown, parts, boot, requests, exited>>

(* The load is over, and a stop() came meanwhile: tear down what it made. *)
LoadedAfterStop(a) ==
  /\ ~exited
  /\ stage[a] = "loading"
  /\ stopped[a]
  /\ stage' = [stage EXCEPT ![a] = "unloading"]
  /\ teardown' = [teardown EXCEPT ![a] = "under way"]
  /\ UNCHANGED <<flags, held, parts, boot, requests, exited>>

(* Mutant of Loaded: the flag is not read again after the await. *)
LoadedUnchecked(a) ==
  /\ ~exited
  /\ stage[a] = "loading"
  /\ a \notin Clashing
  /\ stage' = [stage EXCEPT ![a] = "up"]
  /\ orchestrating' = [orchestrating EXCEPT ![a] = TRUE]
  /\ clockOn' = [clockOn EXCEPT ![a] = TRUE]
  /\ running' = [running EXCEPT ![a] = TRUE]
  /\ UNCHANGED <<started, stopped, held, teardown, restartable, boot, requests, exited>>

(* The load is over: announce the agent, start orchestrator and clock. *)
Loaded(a) ==
  /\ ~exited
  /\ stage[a] = "loading"
  /\ ~stopped[a]
  /\ a \notin Clashing
  /\ stage' = [stage EXCEPT ![a] = "up"]
  /\ orchestrating' = [orchestrating EXCEPT ![a] = TRUE]
  /\ clockOn' = [clockOn EXCEPT ![a] = TRUE]
  /\ running' = [running EXCEPT ![a] = TRUE]
  /\ UNCHANGED <<started, stopped, held, teardown, restartable, boot, requests, exited>>

(* A plugin registered an action of the orchestrator: its start() throws    *)
(* between the subscription and the registration, and so does Agent.start.  *)
LoadedWithClash(a) ==
  /\ ~exited
  /\ stage[a] = "loading"
  /\ ~stopped[a]
  /\ a \in Clashing
  /\ stage' = [stage EXCEPT ![a] = "failed"]
  /\ orchestrating' = [orchestrating EXCEPT ![a] = TRUE]
  /\ UNCHANGED <<flags, held, teardown, clockOn, restartable, boot, requests, exited>>

(* loader.teardown ends: every plugin has been torn down. *)
TeardownEnds(a) ==
  /\ ~exited
  /\ teardown[a] = "under way"
  /\ teardown' = [teardown EXCEPT ![a] = "done"]
  /\ held' = [held EXCEPT ![a] = FALSE]
  /\ stage' = [stage EXCEPT ![a] = IF @ = "unloading" THEN "stillborn" ELSE @]
  /\ UNCHANGED <<flags, parts, boot, requests, exited>>

(* start() has returned: boot keeps the handle and goes on. *)
BootKeeps(a) ==
  /\ ~exited
  /\ a = nextAgent
  /\ stage[a] \in {"up", "stillborn"}
  /\ handles' = handles \cup {a}
  /\ nextAgent' = nextAgent + 1
  /\ UNCHANGED <<flags, stage, held, teardown, parts, requests, exited>>

(* start() has thrown: boot stops the agent and goes on without it.  The    *)
(* stop awaits nothing, for the agent never came to run.                    *)
BootSkips(a) ==
  /\ ~exited
  /\ a = nextAgent
  /\ stage[a] = "failed"
  /\ StopAll({a})
  /\ nextAgent' = nextAgent + 1
  /\ UNCHANGED <<started, running, stage, held, handles, requests, exited>>

----------------------------------------------------------------------------
(* Who stops agents.                                                       *)

(* History: a request while boot is still starting agents, or after another. *)
Interferes ==
  interference' = interference
    \cup {k \in {"early"} : ~BootDone}
    \cup {k \in {"second"} : \E s \in Stopper : request[s] # "unused"}

(* Some agent invokes core.restart: boot stops every handle it has so far. *)
Restart(s) ==
  /\ ~exited
  /\ request[s] = "unused"
  /\ \E a \in Agent : restartable[a]
  /\ request' = [request EXCEPT ![s] = "settling"]
  /\ awaited' = [awaited EXCEPT ![s] = TornDownByStop(handles)]
  /\ StopAll(handles)
  /\ Interferes
  /\ UNCHANGED <<started, running, stage, held, boot, exited>>

(* SIGINT or SIGTERM, once boot has installed its handlers. *)
Signal(s) ==
  /\ ~exited
  /\ BootDone
  /\ handles # {}
  /\ request[s] = "unused"
  /\ request' = [request EXCEPT ![s] = "stopping"]
  /\ awaited' = [awaited EXCEPT ![s] = TornDownByStop(handles)]
  /\ StopAll(handles)
  /\ Interferes
  /\ UNCHANGED <<started, running, stage, held, boot, exited>>

(* Another holder of an agent's handle stops it, whatever it is doing. *)
DirectStop(a) ==
  /\ ~exited
  /\ Stoppable({a}) # {}
  /\ StopAll({a})
  /\ interference' = interference \cup {"direct"}
  /\ UNCHANGED <<started, running, stage, held, boot, request, awaited, exited>>

(* Mutant of StopsSettled: waits for handles kept since, which nobody stops. *)
HandlesSettled(s) == \A a \in handles : teardown[a] = "done"

StopsSettled(s) == \A a \in awaited[s] : teardown[a] = "done"

(* Mutant of Exit: the stops are begun, not awaited. *)
ExitUnawaited(s) ==
  /\ ~exited
  /\ request[s] # "unused"
  /\ exited' = TRUE
  /\ UNCHANGED <<flags, stage, held, teardown, parts, boot, requests>>

(* All the stops of a request have settled (a restart also waits a moment   *)
(* for its last reply to reach the socket): the process exits.              *)
Exit(s) ==
  /\ ~exited
  /\ request[s] # "unused"
  /\ StopsSettled(s)
  /\ exited' = TRUE
  /\ UNCHANGED <<flags, stage, held, teardown, parts, boot, requests>>

AgentStep(a) ==
  \/ StartAgent(a) \/ PluginSetUp(a) \/ LoadedAfterStop(a) \/ Loaded(a)
  \/ LoadedWithClash(a) \/ TeardownEnds(a) \/ BootKeeps(a) \/ BootSkips(a)

Next ==
  \/ \E a \in Agent : AgentStep(a) \/ DirectStop(a)
  \/ \E s \in Stopper : Restart(s) \/ Signal(s) \/ Exit(s)

(* Fairness: every await of boot, of the loader and of a stop settles (a    *)
(* plugin's setup and teardown return).                                     *)
Spec ==
  /\ Init /\ [][Next]_vars
  /\ \A a \in Agent : WF_vars(AgentStep(a))
  /\ \A s \in Stopper : WF_vars(Exit(s))

----------------------------------------------------------------------------
(* Properties.                                                             *)

(* A stopped agent is quiet: neither ticks nor frames nor a second restart *)
(* can come from it, even when the stop overtook its own start.            *)
QuietWhenStopped ==
  \A a \in Agent :
    stopped[a] /\ stage[a] # "failed" =>
      ~clockOn[a] /\ ~orchestrating[a] /\ ~restartable[a]

(* The plugins are never torn down while the loader is still setting them  *)
(* up: the start that is loading owns the teardown of its own load.        *)
NoTeardownUnderLoad ==
  \A a \in Agent : teardown[a] # "none" => stage[a] # "loading"

(* "stop EVERY agent, running each plugin's teardown, BEFORE exiting"       *)
(* (boot/src/index.ts): one request, made once boot is done, gives every   *)
(* agent that runs the time to release its resources.  A second request    *)
(* does not: it finds every stop settled and exits in mid-teardown.        *)
ExitAwaitsHandles ==
  exited /\ interference = {} => \A a \in handles : ~held[a]

(* A stop is orderly: it does not run into the load, leaves silence behind, *)
(* and the process waits for it.                                           *)
StopIsOrderly == QuietWhenStopped /\ NoTeardownUnderLoad /\ ExitAwaitsHandles

(* A stop, whenever it comes, ends with the plugins released. *)
StopReleases ==
  \A a \in Agent :
    (stopped[a] /\ stage[a] # "failed") ~> ((~held[a] /\ stage[a] # "loading") \/ exited)

(* A requested restart or shutdown happens. *)
RequestedExitHappens == \A s \in Stopper : request[s] # "unused" ~> exited

(* What was asked to stop, an agent or all of them, does. *)
StopsFinish == StopReleases /\ RequestedExitHappens
=============================================================================
