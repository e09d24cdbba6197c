------------------------------ MODULE Browser ------------------------------
(***************************************************************************)
(* The browser plugin and the Chrome it manages.                           *)
(*                                                                         *)
(* Every call of a tool first makes sure of a ChromeClient: the one the    *)
(* plugin keeps, or a new one whose launch it awaits.  A launch spawns     *)
(* Chrome, polls its debugger port and opens a WebSocket; when it fails    *)
(* before the debugger is ready it is tried once more in the old headless  *)
(* mode.  Then the call sends its commands, each of which is answered,     *)
(* times out, or is rejected when Chrome exits.                            *)
(*                                                                         *)
(* A client is named after the call that creates it, a Chrome process      *)
(* after its client and the attempt.  Tabs, sessions and what the commands *)
(* return are left out.                                                    *)
(***************************************************************************)
EXTENDS Integers, FiniteSets

CONSTANTS
  Call,         \* calls of the browser tools that need Chrome
  None,         \* no client
  MaxCommands   \* bound: the commands of a call

ASSUME CallAssumption == None \notin Call
ASSUME CommandsAssumption == MaxCommands \in Nat \ {0}

Process == Call \X {1, 2}

VARIABLES
  canFallback,  \* the headless mode is "new" and not pinned
  phase,        \* per call: how far it has come
  on,           \* per call: the client its commands go to
  commands,     \* per call: commands answered
  client,       \* the plugin's client
  stage,        \* per client: where its launch awaits
  attempt,      \* per client: the attempt of its launch
  child,        \* per client: the attempt whose process it holds, or 0
  exited,       \* per client: it takes its Chrome for dead
  ws,           \* per client: its WebSocket
  proc,         \* per process: what the operating system knows of it
  signalled,    \* processes that were sent a signal
  down,         \* the plugin is torn down
  cause         \* history: what has come between a client and its Chrome

bvars == <<canFallback, phase, on, commands, client, stage, attempt, child, exited,
           ws, proc, signalled, down, cause>>

Live(p) == proc[p] \in {"starting", "ready"}
Launching(q) == stage[q] \in {"port", "poll", "connect"}
Current(q) == <<q, attempt[q]>>

(* Types; and a client whose Chrome has exited knows it, so that the next   *)
(* call replaces it.                                                       *)
BTypeOK ==
  /\ canFallback \in BOOLEAN /\ down \in BOOLEAN
  /\ phase \in [Call -> {"idle", "launch", "run", "wait", "done", "stranded"}]
  /\ on \in [Call -> Call \cup {None}]
  /\ commands \in [Call -> 0..MaxCommands]
  /\ client \in Call \cup {None}
  /\ stage \in [Call -> {"none", "port", "poll", "connect", "ready", "failed"}]
  /\ attempt \in [Call -> 0..2] /\ child \in [Call -> 0..2]
  /\ exited \in [Call -> BOOLEAN]
  /\ ws \in [Call -> {"null", "open", "closed"}]
  /\ proc \in [Process -> {"none", "starting", "ready", "gone", "reaped"}]
  /\ signalled \subseteq Process
  /\ cause \subseteq {"overlap", "teardown", "gaveup", "refused"}
  /\ client \in Call => (proc[Current(client)] = "reaped" => exited[client])

BInit ==
  /\ canFallback \in BOOLEAN
  /\ phase = [q \in Call |-> "idle"]
  /\ on = [q \in Call |-> None]
  /\ commands = [q \in Call |-> 0]
  /\ client = None
  /\ stage = [q \in Call |-> "none"]
  /\ attempt = [q \in Call |-> 0] /\ child = [q \in Call |-> 0]
  /\ exited = [q \in Call |-> FALSE]
  /\ ws = [q \in Call |-> "null"]
  /\ signalled = {} /\ cause = {}
  /\ proc = [p \in Process |-> "none"]
  /\ down = FALSE

----------------------------------------------------------------------------
(* A call asks for a client.                                               *)

(* attemptLaunch up to its first await, for the n-th time. *)
BeginAttempt(q, n) ==
  /\ stage' = [stage EXCEPT ![q] = "port"]
  /\ attempt' = [attempt EXCEPT ![q] = n]
  /\ exited' = [exited EXCEPT ![q] = FALSE]

(* Mutant of NeedsClient: a client is never used again. *)
NeedsClientAlways == TRUE

NeedsClient == client \in Call => exited[client]

(* A client that is there and not known to be dead serves the call. *)
UseClient(q) ==
  /\ phase[q] = "idle" /\ ~down
  /\ ~NeedsClient
  /\ phase' = [phase EXCEPT ![q] = "run"]
  /\ on' = [on EXCEPT ![q] = client]
  /\ UNCHANGED <<canFallback, commands, client, stage, attempt, child, exited, ws,
                 proc, signalled, down, cause>>

(* Otherwise the call creates one and awaits its launch. *)
Launch(q) ==
  /\ phase[q] = "idle" /\ ~down
  /\ NeedsClient
  /\ phase' = [phase EXCEPT ![q] = "launch"]
  /\ BeginAttempt(q, 1)
  /\ cause' = IF \E r \in Call : Launching(r) THEN cause \cup {"overlap"} ELSE cause
  /\ UNCHANGED <<canFallback, on, commands, client, child, ws, proc, signalled, down>>

----------------------------------------------------------------------------
(* The launch.                                                             *)

LaunchThrows(q) ==
  /\ stage' = [stage EXCEPT ![q] = "failed"]
  /\ phase' = [phase EXCEPT ![q] = "done"]

(* Chrome is spawned on the free port. *)
Spawn(q) ==
  /\ stage[q] = "port"
  /\ proc' = [proc EXCEPT ![Current(q)] = "starting"]
  /\ child' = [child EXCEPT ![q] = attempt[q]]
  /\ stage' = [stage EXCEPT ![q] = "poll"]
  /\ UNCHANGED <<canFallback, phase, on, commands, client, attempt, exited, ws, signalled, down, cause>>

(* Chrome cannot be started: the launch throws. *)
SpawnFails(q) ==
  /\ stage[q] = "port"
  /\ exited' = [exited EXCEPT ![q] = TRUE]
  /\ child' = [child EXCEPT ![q] = 0]
  /\ LaunchThrows(q)
  /\ UNCHANGED <<canFallback, on, commands, client, attempt, ws, proc, signalled,
                 down, cause>>

DebuggerAnswers(q) ==
  /\ stage[q] = "poll"
  /\ proc[Current(q)] = "ready"
  /\ stage' = [stage EXCEPT ![q] = "connect"]
  /\ UNCHANGED <<canFallback, phase, on, commands, client, attempt, child, exited, ws,
                 proc, signalled, down, cause>>

(* Mutant of FallsBack: as often as it takes. *)
FallsBackAgain(q) == canFallback /\ attempt[q] <= 2

(* "Retry EXACTLY ONCE".  The flag `torn' that also forbids it is left out: *)
(* it is set by close(), which reaches no client before its launch is over. *)
FallsBack(q) == canFallback /\ attempt[q] = 1

(* A failure before the debugger is ready: what the attempt has is cleaned  *)
(* up and the second one begins, or the launch throws and nothing is.      *)
AttemptFails(q) ==
  IF FallsBack(q)
  THEN /\ signalled' = IF child[q] = 0 THEN signalled ELSE signalled \cup {<<q, child[q]>>}
       /\ child' = [child EXCEPT ![q] = 0]
       /\ ws' = [ws EXCEPT ![q] = "null"]
       /\ BeginAttempt(q, attempt[q] + 1)
       /\ UNCHANGED phase
  ELSE /\ LaunchThrows(q)
       /\ UNCHANGED <<signalled, child, ws, attempt, exited>>

(* The poll finds that the client takes its Chrome for dead. *)
PollSeesExit(q) ==
  /\ stage[q] = "poll" /\ exited[q]
  /\ AttemptFails(q)
  /\ UNCHANGED <<canFallback, on, commands, client, proc, down, cause>>

(* The debugger has not answered in time.  Unless its exit is known, the   *)
(* process is given up while it may be alive.                              *)
PollTimesOut(q) ==
  /\ stage[q] = "poll" /\ ~exited[q]
  /\ AttemptFails(q)
  /\ cause' = IF proc[Current(q)] = "reaped" THEN cause ELSE cause \cup {"gaveup"}
  /\ UNCHANGED <<canFallback, on, commands, client, proc, down>>

(* The WebSocket opens: the launch returns and the plugin keeps the client, *)
(* whatever has become of the plugin.                                      *)
Connected(q) ==
  /\ stage[q] = "connect"
  /\ proc[Current(q)] = "ready"
  /\ ws' = [ws EXCEPT ![q] = "open"]
  /\ stage' = [stage EXCEPT ![q] = "ready"]
  /\ client' = q
  /\ on' = [on EXCEPT ![q] = q]
  /\ phase' = [phase EXCEPT ![q] = "run"]
  /\ UNCHANGED <<canFallback, commands, attempt, child, exited, proc, signalled,
                 down, cause>>

(* It fails or times out: no fallback, and nothing is cleaned up. *)
ConnectFails(q) ==
  /\ stage[q] = "connect"
  /\ LaunchThrows(q)
  /\ cause' = IF Live(Current(q)) THEN cause \cup {"refused"} ELSE cause
  /\ UNCHANGED <<canFallback, on, commands, client, attempt, child, exited, ws, proc, signalled, down>>

----------------------------------------------------------------------------
(* Chrome.                                                                 *)

DebuggerReady(p) ==
  /\ proc[p] = "starting"
  /\ proc' = [proc EXCEPT ![p] = "ready"]
  /\ UNCHANGED <<canFallback, phase, on, commands, client, stage, attempt, child, exited,
                 ws, signalled, down, cause>>

Dies(p) ==
  /\ Live(p)
  /\ proc' = [proc EXCEPT ![p] = "gone"]
  /\ UNCHANGED <<canFallback, phase, on, commands, client, stage, attempt, child, exited,
                 ws, signalled, down, cause>>

(* The connection breaks though Chrome lives.  Nobody listens for that. *)
SocketDrops(q) ==
  /\ ws[q] = "open"
  /\ ws' = [ws EXCEPT ![q] = "closed"]
  /\ UNCHANGED <<canFallback, phase, on, commands, client, stage, attempt, child, exited,
                 proc, signalled, down, cause>>

Settled(q, how) ==
  [r \in Call |-> IF phase[r] = "wait" /\ on[r] = q THEN how ELSE phase[r]]

(* Mutant of ExitEvent: the commands are dropped as close() drops them. *)
ExitDrops(q, n) ==
  /\ proc[<<q, n>>] = "gone"
  /\ proc' = [proc EXCEPT ![<<q, n>>] = "reaped"]
  /\ exited' = [exited EXCEPT ![q] = TRUE]
  /\ child' = [child EXCEPT ![q] = 0]
  /\ ws' = [ws EXCEPT ![q] = IF @ = "open" THEN "closed" ELSE @]
  /\ phase' = Settled(q, "stranded")
  /\ UNCHANGED <<canFallback, on, commands, client, stage, attempt, signalled, down, cause>>

(* The exit event of a process of this client, of whichever attempt: the    *)
(* client takes its Chrome for dead and rejects the commands under way.    *)
ExitEvent(q, n) ==
  /\ proc[<<q, n>>] = "gone"
  /\ proc' = [proc EXCEPT ![<<q, n>>] = "reaped"]
  /\ exited' = [exited EXCEPT ![q] = TRUE]
  /\ child' = [child EXCEPT ![q] = 0]
  /\ ws' = [ws EXCEPT ![q] = IF @ = "open" THEN "closed" ELSE @]
  /\ phase' = Settled(q, "done")
  /\ UNCHANGED <<canFallback, on, commands, client, stage, attempt, signalled, down, cause>>

----------------------------------------------------------------------------
(* The commands of a call.                                                 *)

(* The next command goes out; without a socket it is rejected. *)
Send(q) ==
  /\ phase[q] = "run" /\ commands[q] < MaxCommands
  /\ phase' = [phase EXCEPT ![q] = IF ws[on[q]] = "null" THEN "done" ELSE "wait"]
  /\ UNCHANGED <<canFallback, on, commands, client, stage, attempt, child, exited, ws,
                 proc, signalled, down, cause>>

(* The list of tabs cannot be fetched from a Chrome that is gone. *)
FetchFails(q) ==
  /\ phase[q] = "run" /\ ~Live(Current(on[q]))
  /\ phase' = [phase EXCEPT ![q] = "done"]
  /\ UNCHANGED <<canFallback, on, commands, client, stage, attempt, child, exited, ws,
                 proc, signalled, down, cause>>

Answered(q) ==
  /\ phase[q] = "wait" /\ ws[on[q]] = "open" /\ Live(Current(on[q]))
  /\ commands' = [commands EXCEPT ![q] = @ + 1]
  /\ phase' = [phase EXCEPT ![q] = "run"]
  /\ UNCHANGED <<canFallback, on, client, stage, attempt, child, exited, ws, proc,
                 signalled, down, cause>>

TimesOut(q) ==
  /\ phase[q] = "wait"
  /\ phase' = [phase EXCEPT ![q] = "done"]
  /\ UNCHANGED <<canFallback, on, commands, client, stage, attempt, child, exited, ws,
                 proc, signalled, down, cause>>

Return(q) ==
  /\ phase[q] = "run" /\ commands[q] = MaxCommands
  /\ phase' = [phase EXCEPT ![q] = "done"]
  /\ UNCHANGED <<canFallback, on, commands, client, stage, attempt, child, exited, ws,
                 proc, signalled, down, cause>>

----------------------------------------------------------------------------
(* Teardown.                                                               *)

(* Mutant of Kill: only the socket is closed. *)
KillNothing(q) == UNCHANGED signalled

Kill(q) ==
  signalled' = IF child[q] = 0 THEN signalled ELSE signalled \cup {<<q, child[q]>>}

(* The plugin closes the client it has: Chrome is killed, and commands under *)
(* way are forgotten without an answer.                                    *)
Teardown ==
  /\ ~down
  /\ down' = TRUE
  /\ cause' = IF \E r \in Call : Launching(r) THEN cause \cup {"teardown"} ELSE cause
  /\ client' = None
  /\ IF client = None
     THEN UNCHANGED <<phase, child, ws, signalled>>
     ELSE /\ Kill(client)
          /\ child' = [child EXCEPT ![client] = 0]
          /\ ws' = [ws EXCEPT ![client] = "null"]
          /\ phase' = Settled(client, "stranded")
  /\ UNCHANGED <<canFallback, on, commands, stage, attempt, exited, proc>>

Step(q) ==
  \/ UseClient(q) \/ Launch(q)
  \/ Spawn(q) \/ SpawnFails(q) \/ DebuggerAnswers(q)
  \/ PollSeesExit(q) \/ PollTimesOut(q) \/ Connected(q) \/ ConnectFails(q)
  \/ Send(q) \/ FetchFails(q) \/ Answered(q) \/ TimesOut(q) \/ Return(q)

BNext ==
  \/ \E q \in Call : Step(q) \/ SocketDrops(q) \/ \E n \in {1, 2} : ExitEvent(q, n)
  \/ \E p \in Process : DebuggerReady(p) \/ Dies(p)
  \/ Teardown

(* Fairness: what a call awaits comes to some end, since every wait has a    *)
(* deadline.  Chrome owes nothing, and nobody needs to call.               *)
BFairness == \A q \in Call : WF_bvars(phase[q] # "idle" /\ Step(q))

BSpec == BInit /\ [][BNext]_bvars /\ BFairness

----------------------------------------------------------------------------
(* Properties.                                                             *)

Held(q, n) ==
  child[q] = n /\ (Launching(q) \/ (client = q /\ ~exited[q]))

(* No Chrome is left running that nobody could kill: one that lives is the  *)
(* one the next teardown kills, is being launched, or has been killed.     *)
(* The code departs from that in four ways only, each recorded in `cause': *)
(* two launches overlap, the plugin is torn down during one, the debugger  *)
(* is given up while Chrome lives, or the WebSocket fails.                 *)
NoOrphan ==
  cause = {} => \A q \in Call : \A n \in {1, 2} :
    Live(<<q, n>>) => <<q, n>> \in signalled \/ Held(q, n)

(* For as long, at most one Chrome uses the profile directory. *)
OneChrome == cause = {} => Cardinality({p \in Process : Live(p)}) <= 1

(* What runs is owned, and owned alone. *)
ChromesAreOwned == NoOrphan /\ OneChrome

(* Every call gets its answer or its error while the plugin lives, however *)
(* launches, exits, broken connections and timeouts fall.                  *)
CallsSettle ==
  \A q \in Call : (phase[q] # "idle") ~> (phase[q] = "done" \/ down)
=============================================================================
