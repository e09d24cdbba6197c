# OpenKrakey in TLA+

OpenKrakey runs autonomous agents: each has a clock, an event and action bus, an
orchestrator that turns ticks into prompts, and a set of plugins, one of which
(llm-core) talks to a language model. Everything runs in one Node process, so
there is no preemption; what makes the program hard is that nearly every
operation is `async` and other listeners, timers and handlers run at each `await`,
and that stores, Chrome and the process itself fail or end at any moment. Around
the runtime there are a supervisor, two editors of its settings, and pages in a
browser that follow an agent over HTTP.

The modules here are translated from the source. One action is the code between
two awaits (or up to the end of a synchronous emission); whatever else may run at
an await is another action. A page's action is the code up to its next request or
event.

* [Inventory](#inventory): the parts, their state, operations and hazards
* [Modules](#modules): which module stands for which code, and how
* [Runs](#runs): what TLC checks, with which bounds and why they are enough
* [Fairness](#fairness)
* [Proofs](#proofs): what TLAPS proves for all values of the constants, and how
* [Disagreements](#disagreements-between-the-code-and-what-it-says): five runs that are expected to fail
* [Not modelled](#not-modelled) and the [plan](#plan)

## Inventory

How the parts interact, for one agent:

    clock --onFire--> agent_instance --emit clock.tick--> orchestrator, interval_toggle
    orchestrator --emit llm.request--> llm-core --invoke prompt.compose--> orchestrator (blocks)
    llm-core --gateway--> provider;  --emit context.full / llm.request.sent / llm.return--> every plugin
    llm.return --> orchestrator --invoke the tool calls--> tool.result --> plugins
    plugins --invoke clock.fire_now / clock.set_interval ...--> clock
    chat page, inspector page <--HTTP, event streams--> the hubs of web-chat and inspector

and around it:

    krakey start / stop / restart / dashboard --> pid files, supervisor --> boot --> agents
    settings page, terminal --config-ops--> agents/*.json, default.json, llm.json --(restart)--> boot
    boot, dashboard --surfaces--> token of the chat page and of the inspector

| Part | State | Operations | What is hard | What makes it correct |
|---|---|---|---|---|
| clock (`packages/clock`) | default and current interval, the handle of one `setTimeout`, the origin of the countdown, running | start, stop, setInterval (absolute from the origin), setDefaultInterval, fireNow, onFire, the timer | the handler calls back into every operation; Node clamps delays | one timer; armed while running; the countdown ends when `current` says; ticks go on |
| llm-core | per agent id a lock and a "triggered again" flag; per send the rounds, the last estimate, the correlation id | a trigger, the send with five kinds of await, teardown | triggers, teardown and the orchestrator's stop at each await; overflow retries inside one send | single flight; no trigger forgotten; one terminal reply per send; silence after teardown |
| interval_toggle, retry | a base interval and the frames left of a hold; a count of failures | interval.set, interval.hold, the tick; llm.return | two calls to the clock with an await in between, from several callers | a hold ends when its frames are over |
| agent_instance, boot | three flags per agent, the handles boot keeps | Agent.start, Agent.stop, core.restart, signals, exit | a stop during a load, a restart during boot, a second stop | a stopped agent is quiet; plugins are torn down once and before the exit |
| loader | the plugins in load order, those that are up, what each has registered | resolve, import, sweep, undo, teardown | order by requirements, failures half-way | nothing of a failed plugin stays; providers outlive what requires them |
| orchestrator, event-system, tool-manager, persona, system-prompt | blocks, subscriptions, action handlers, the list of tools | compose, dispatch of tool calls, emission | handlers that throw, listeners that come and go, blocks that change while a prompt is composed | whoever listens is called; every call reports; what did not change renders the same |
| llm-gateway | a request on its way | build, chat, embed, rerank, ocr; the tool-name map | bodies that stall, names that clash, content a provider does not take | every request ends; nothing is dropped; a call comes home |
| krakeycode, web-search, browser, logbook (results) | a ring of settled tool results | tool.result, context.full, llm.return, render | results settle in any frame | a result is shown once, and is shown |
| krakeycode (tools) | a command's process group, pipes and timer | bash, edit_file, list_dir | forks, pipes held open, overlapping matches | the answer is whole and leaves nothing running; edits are exact |
| web-search (tools) | a row of endpoints | search | refusals, bodies that break off or stall, settings that exclude some | the first result there is is found |
| browser | one ChromeClient; per client a child process, a WebSocket, pending commands; the active tab | ensureClient, launch with fallback, commands, tabs, navigation, close | overlapping calls, exit events that come late, timeouts, tabs others open | no Chrome is leaked; every call ends; an answer is of one page |
| web-chat (`index.ts`, `hub.ts`) | transcript, pending messages, messages claimed per request, pressure | POST, stream, llm.request.sent, llm.return, context.full, render | messages posted during a request, retries under new ids | "read" only after a request that carried it; no message waits |
| web-chat (`page.script.ts`) | the agent picked, its stream, the rows of the log, the roster | pick, send, stream events, reconnection | answers and events that overtake each other, restarts of the server | rows and ticks are what the transcript says |
| stores: transcript, journal, logbook, notebook, trail | a ring or list, a chain of writes, a file | append, mark, compact, evict, clear, load | writes that overtake each other, failures, kills | files replay; ids stay unique; bounds hold; what is important stays |
| logbook (log.fetch) | the records, the outcomes of fetches | fetch, render | filters, limits, budgets together | what is told is what was asked for |
| inspector (hub and page) | the buffer; the page's records, panels, sources | pick, query, clear, stream, draw | requests of several picks answered in any order | what is shown is what was captured |
| cli supervisor | pid files, daemons | start, stop, restart, run, dashboard | commands that cross, deaths, relaunches | daemons are recorded, stopped for good, not doubled |
| surfaces | tokens in files, one server per surface | ensureSurfaceTokens, joining and leaving a hub | files edited, order of agents, taken ports | the dashboard frames what is served |
| config-ops, config-web, cli pages | settings files, llm.json, the editors' copies | read, write, create, delete, rename, restart | two editors, whole-file writes, answers late | reported is kept; dropped is dropped; a restart is offered |

PROJECT.json lists every part with its files, and the hazards at the lines where they
bite, each with the properties that would catch it going wrong.

## Modules

| Module | Code | Composes |
|---|---|---|
| `Coalescer` | abstract specification of the send lock (what llm-core's header promises) | |
| `LLMCore` | `llm-core/index.ts` | refines `Coalescer` |
| `Frames` | the orchestrator's and the agent's side of a frame, as the plugins on the bus see it | extends `LLMCore` |
| `ToolResults` | results of `krakeycode` (the same code in web-search, browser, logbook) | extends `Frames` |
| `WebChat` | `web-chat/index.ts`, `hub.ts`, `windowing.ts` | extends `Frames` |
| `Conversation` | one agent with both | extends `ToolResults`, `WebChat` |
| `ChatPage` | `web-chat/page.script.ts` and the hub's stream | |
| `Clock` | `packages/clock` | |
| `Cadence` | `interval_toggle`, `retry`, the clock's wiring, and unrestricted callers | extends `Clock` |
| `Lifecycle` | `packages/agent_instance`, `packages/boot` | |
| `Loader` | `packages/loader` | |
| `Dispatch` | `packages/event-system`, the orchestrator's dispatch loop | |
| `Mirror` | the log lines on the bus: `pushLogEntry`, `busLogger` | |
| `Prompt` | the orchestrator's blocks and compose, tool-manager, persona, system-prompt | |
| `Gateway` | `packages/llm-gateway` with its adapters | |
| `Files` | a file of lines under appends, rewrites and kills | |
| `TranscriptStore`, `Journal`, `Logbook` | the stores of web-chat, inspector, logbook | extend `Files` |
| `Memory` | memory-note and history, with the hand-over between them | |
| `LogFetch` | `logbook/logbook.ts` and the `log.fetch` tool | |
| `InspectorPage` | `inspector/page.script.ts`, and the hub and `query.ts` as it asks them | |
| `Browser`, `Tabs` | `browser/index.ts`, `cdp.ts`: the Chrome process; the tabs of one that is up | |
| `Search`, `Shell`, `Shown` | web-search; krakeycode's bash, edit_file and list_dir; what both show of their results | |
| `Processes` | `packages/cli`: bin, supervisor, supervisor-entry; config-web's restart | |
| `Settings`, `Catalogue` | config-ops, config-web's page and the terminal's pages: the settings; llm.json | |
| `Surfaces` | `cli/src/surfaces.ts`, boot's files, the two hubs' servers | |
| `LLMCore_proofs`, `Clock_proofs` | theorems about `LLMCore`; about `Clock` and `Cadence` | |
| `Conversation_proofs` | theorems about `Frames`, `ToolResults` and `WebChat` together, about `ChatPage`, and both in `MCFrames` | |
| `Agent_proofs` | theorems about `Lifecycle`, `Loader`, `Prompt`, `Dispatch`, `Mirror`, `Gateway`, and all of them in `MCAgent` | |
| `Tools_proofs` | theorems about `Browser`, `Search`, `Shell`, and all three in `MCBrowser` | |
| `Operator_proofs` | theorems about `Processes`, `Surfaces`, `Tabs`, `Settings`, `Catalogue`, and all five in `MCOperator` | |
| `Pages_proofs`, `Stores_proofs` | lemmas about `InspectorPage`, `Logbook`, `LogFetch`; theorems about `TranscriptStore`, `Journal`, `Memory`, and all of them in `MCStores` | |
| `MC*` | constants for TLC, and the compositions that a run checks | |

**LLMCore.** `inFlight`/`triggered` are the fields of `FrameState`; `pc[l]` is the
await at which send loop `l` is parked (`compose`, `listing` and `recompose` belong
to the proactive loop, `tools` and `chat` to `roundTrip`, `retry` to the reactive
compose, `done` is back in `runLoop`). `frame[l]` holds the local variables of
`sendOnce`. `ctx` is there exactly while `~stopping`; an unguarded `ctx!` after
teardown is the action `Throw`. Token estimates are drawn from `Estimate` when the
code computes one. `wanted` is history: a trigger no send has begun after; it maps
to the abstract `demand`.

**Frames** sorts the steps of the send loop by the event they emit, because an
emission is synchronous: what all listeners do belongs to the same step. The
render of a compose is a step of its own, since blocks are read when they are
rendered. There is one agent (`OneAgentAssumption`): each has a bus, and plugins, of
its own, and what the orchestrator emits carries the agent's id and no other.
`clock.fire_now` is modelled by its effect on the send loop: the tick,
the orchestrator's `llm.request`, and the lock's answer, all in one emission. A compose
that begins after the orchestrator has stopped is `refused` (its action is gone): llm-core
catches the rejection and ends the send, reporting only when a request had been out.

**ToolResults** has one plugin's ring. The ring, `pushResult` and the listeners are
the plugin's; `OnReturn` is the orchestrator's dispatch. History: `read` and `burnt` are
what requests carried that were answered or that failed (the plugin clears its ring for
both), `late` is what settled while a prompt without it was under way.

**WebChat** has `pending`, `inFlight` (as a set of pairs), `status` and
`pressureRound` of the code, and `body`, the messages the prompt last composed
carries. A POST runs as a task of its own, so never between a render and the
dispatch that follows it in promise jobs (`ServerRuns`).

**TranscriptStore** keeps `buf`, `head`, `count`, the chain (`writing`), the write
Node works at (`flying`, in the phases of `appendFile` and `writeFile`) and the
file, whose last line may be torn. The text of a rewrite is made when it is asked
for, the line of an append when its turn comes, as in the code. A restart loads
what a kill left, whatever it is. An entry in memory is an object: it is named by its
id and, if it was loaded, by the place of its line, since a file in which an append
landed after the teardown's rewrite has a line twice, and a load makes two entries of
it. `flip` marks the first entry with the id, so the other stays unread. History:
`twice` are the ids of such appends, `undone` those whose receipt a late write took
back. The teardown's own synchronous write is neither refused nor cut in the middle.

**Clock** keeps time relative, so that the model is finite and the clock runs for
ever; `pending[t]` is the time a Node timer has left and `depth` counts nested
activations. **Cadence** runs it under two populations: `"anyone"` calls every
operation at any depth; `"plugins"` are interval_toggle (each call in its two
halves), retry, and early ticks.

**Lifecycle** has the flags of `createAgentInstance`; `stage` is where `start()` is,
`held` says that plugins are set up and not torn down, `handles` are boot's.
A `Clashing` agent has a plugin that registered an action of the orchestrator, so
that its `start()` throws after the load. `interference` is history: whether a stop
request came during boot, after another request, or past boot.

**Loader** takes the plugins' behaviour (what they require, register, whether their
code is there and their setup throws) from `def`, chosen at the start.

**Dispatch** has the emissions under way on a stack, each with its copy of the
listeners; the orchestrator's listener pushes the loop that dispatches the calls of a
reply. A listener may subscribe, leave, throw or emit itself, so that emissions nest. `due`
and `served` are history: who must be called and who was; a handler that throws past
`invoke` takes the later calls of its own reply with it, and of no other (`Precedes`). **Mirror** is
the special case of listeners to `log.entry` that log: two sources, each with its own
re-entrancy flag.

**Prompt** keeps blocks and tools as sequences, because a `Map` keeps the place of a
key that is set again. A compose renders the system half, awaits it, and renders the
messages; blocks change in between. The sort by priority is stable, so a block's place is told
by its rank (`Ranked`): how many come before it. A plan says what the plugins set up
and who of them throws, early or late.

**Gateway** is one request from its form to its end. Names are dotted or legal stems
with suffixes, so that every clash of sanitised names can be built; content is its
kind and where its data are. The three bodies (`AnthropicBody`, `OpenAIBody`,
`ResponsesBody`) are the adapters' mappings of roles, parts, calls and answers.

**Files** gives the stores their medium: lines that may be torn, an append that may
land on a torn line, a rewrite that truncates first. **TranscriptStore**, **Journal**
and **Logbook** differ in what the code makes different: when a line's text is taken,
when a rewrite's is, whether a count triggers the rewrite, and what teardown does past
the chain. **Memory** has two JSON files, each rewritten whole in microtasks, and the
checkpoint that history notes when it drops a batch; its `batchLost` is history.

**ChatPage** and **InspectorPage** have the page's variables (`current`, `log`,
`posts`; `view`, `mode`, `dirty`, `raf`), what is on the wire, and as much of the hub
as answers. The sets `crossed`, `unheard`, `overtaken`, `missed`, `renumbered` and the
flags `broken`, `stray`, `strained` are history: the situations in which the page is
wrong, each entered by one named step, and each a hazard in PROJECT.json.

**Processes** runs commands as scripts of steps (`read`, `kill`, `truncate`, `spawn`,
`append`) over two pid files without locks, with supervisors that relaunch boot.
**Settings** has the files, the calls under way (a creation is three of them), the
page's copies and the terminal's; a content is a mark, numbered as it was entered.
The page's answer may be lost after the write (`LosesAnswer`), a process may be killed
in the middle of one (`Tears`), and the command that starts a runtime or the dashboard
is a third writer, for it pins tokens into the agents' files (`CommandPins`).
**Catalogue** is llm.json, which both editors write whole. The page puts the form's own
object into what it sends, so that what is typed while the request is out is in the
page's catalogue afterwards (`TypedInto`, `keeps`); nobody saved it, and the next save of
another service writes it (`typed`). **Surfaces** relates the
token in the files, the one the server was made with and the one the dashboard frames.
A runtime is started by a command, which pins a token first, or by `npm start`, which
pins none (`StartsByHand`): where no token was pinned before it serves one of its own,
and a dashboard opened later frames another (`boot.by = "bare"`, an exception of
`FramedIsServed`).

**Browser** names a client after the call that creates it and a process after its
client and attempt. `cause` is history: in four situations the code does leak or
double Chrome, and the properties speak of what happens outside of them (see the
hazards in PROJECT.json).

**Tabs** is a Chrome that is up: tabs, the active one, the calls with the requests they
consist of, and what each answer was of; whoever sits at the window is an actor.
**Search**, **Shell** and **Shown** are small machines; a listing is a pure function
compared with a definition of what was asked for, on every tree of four entries.

## Runs

A run checks the modules that belong to one question. Where several have no state in
common (the tools of the plugins, the stores of one agent), they are checked side by
side: a variable `subject` picks, in the initial state, the one that runs, and the
others rest. That costs the sum of their states and not the product, and loses
nothing, for none reads what another writes. Those that do share state are composed
by EXTENDS (`Conversation`, `Cadence`).

| Run | Module | Shows |
|---|---|---|
| `llm_core` | MCLLMCore | every trigger is served by one loop at a time, one terminal reply per send, silence after teardown; the flags implement `Coalescer` with its liveness |
| `cadence` | MCCadence | the one timer is right, ticks for ever, no hold that outlives its frames |
| `agent` | MCAgent | the agents' lives; the loader; the dispatch and the log mirror; the prompt; the gateway |
| `frames` | MCFrames | results go out with one request that returns, and are read, or it failed, or they were shed or too late, receipts are earned, pressure is per frame, nothing waits; the chat page is true |
| `stores` | MCStores | files replay, ids stand for one thing, what is to be kept is kept and no more, what is shown fits, the important stays, what is looked up is true |
| `operator` | MCOperator | daemons are kept and stay down, what was reported saved is kept, editors are honest, windows are true |
| `browser` | MCBrowser | Chrome is owned, searches find, answers are whole, edits and listings exact; every call settles |
| `llm_teardown`, `tool_results_late`, `web_chat_overflow`, `transcript_closed`, `discard` | | violations, see below |

**The properties** of a composed run are conjunctions, one conjunct per part, each
defined and explained in its own module; the MC module says what they have in common.
Those worth knowing first: `EveryTriggerServed` and `OneReportPerSend` (LLMCore),
`ResultsGoOnce` and `ReadMeansGiven` (ToolResults, WebChat), `RequirementsHold` and
`NothingHalfUp` (Loader, Prompt), `FilesReplay` (all stores), `ReportedIsKept`
(Settings, Catalogue), `LookedUpIsTrue` (InspectorPage, LogFetch).

**Exceptions.** Where the code does depart from what one would want, the property
names the exception, by a history variable that only that situation sets, and the
hazard in PROJECT.json says what happens then. So `ToolsAreSound` speaks of a Chrome
without overlapping launches; `PageIsTrue` of a stream that was not lost;
`DaemonsKept` of commands that did not cross; `UniqueIds` and `ReceiptsStay` of all but the
ids whose write was under way at a teardown. Some exceptions are of an id, a file or a
call, and the property goes on to hold of all others; some (`outrun`, `upset`, `cause`)
end what the property says until the run is over, so what follows from that situation is
not checked. Where a hazard is nothing but its exception, no property is listed for it,
and its note says so.

**The bounds and why they are enough.**

* `llm_core`: one agent id, two loops, three triggers. Ids do not interact (every
  read and write of a lock is at the trigger's own id); two loops let a second loop
  run if the lock let it; with three triggers one starts a send, one is coalesced
  and one comes while the coalesced send runs. Five configurations: shrinking off,
  one and two rounds, an unknown window, no communicator. Estimates 1 to 3 with a
  budget of 1 let a round help, not help, or make it worse.
* `cadence`: intervals 1, 2 and 5 with `MaxDelay` 4: one that Node cuts off, two
  that lie before or after a countdown's age. Two timers: one to hold, one to leak.
  Activations nest twice. Two calls of interval_toggle interleave their halves. Holds
  of one or two frames. `MaxElapsed` only saturates an age beyond every interval.
* `agent`: three agents, the first of which fails, so that a start is under way while
  one is up and one is still to come; two stop requests besides direct stops. Three
  plugins, two actions and a block; the order of declaration has a duplicate and an
  independent; requirements are nothing, either action, or a plugin id, so that
  chains, cycles and missing providers occur; every combination with throws and
  unusable code. One listener beside the orchestrator's and two calls over two replies,
  with two changes of a subscription or emissions within an emission. Two watchers and four log lines: an echo of each
  source within each, and one more. Three plans of three plugins: blocks of one
  priority, a tool both claim, failures early and late. Requests: every list of clashing
  names (also one whose numbered name is taken), every kind of content in every role,
  every provider with every kind of request, with and without a deadline and silence.
* `frames`: two calls on a ring of one, three triggers, a round of pressure, one
  message beside one that was read, a window of two turns: overflow of the ring,
  shedding and clearing meet, and cut-offs occur. To keep the product of the two
  plugins small it begins either with one call settled and read or with the
  messages read; the runs expected to fail begin with nothing. The page: two agents,
  two things said, two streams, a restart, in three mixtures of what is left of each.
* `stores`: rings of two or three and one or two more entries than that, so that the
  dead prefix is dropped and rewrites are triggered twice; one failed write; a kill at any
  step and one restart (two for the logbook, whose count after a load matters). The
  transcript's kills include those after its teardown, so that a file with a line twice
  is written, loaded, read, rewritten and torn down again. The
  notebook has one or two notes of importances 2 and 3, beside checkpoints of 2; it
  starts empty or with something of old. What is shown is checked of every notebook
  and trail of three with every budget of 1 to 18. The inspector's page: two agents,
  three picks, two records, two requests, one upset, in four mixtures. Fetches: three
  events at two times with every filter, and three fetches of an old logbook.
* `operator`: three commands and three daemons (two commands cross, a third finds what
  they left); one agent and the default, three calls and three contents; two services,
  two edits; two agents in a surface, two boots, three tokens, one upset; two calls,
  two tabs, two navigations.
* `browser`: two calls, the least that overlap, each with one command (c1 is the one
  that comes first, as they are alike); three endpoints from a pool of two, with a
  fallback; a command that forks twice; texts of up to four of two letters, so that
  matches overlap; trees of four entries.

A bound on triggers is never what makes a liveness property hold: `NothingStranded`
keeps triggers in reserve for the results and messages that are still to come, so that a
refused trigger cannot hide a stranded one. The same goes for the writes that the
stores' properties speak of: they say what the chain *would* drain to.

`CHECK_DEADLOCK FALSE` is set where the system may come to rest: all triggers used,
the process exited, the load down. Cadence never rests and is checked for deadlock.

## Fairness

* `LLMCore`, `Frames` and what extends them: weak fairness of each loop: every await
  settles and its continuation runs. That an action handler or provider settles is an
  assumption about code outside of llm-core (`Gateway` shows where it fails); which
  way it settles is open. No trigger, stop or teardown is owed.
* `Clock`, `Cadence`: time passes, Node runs a due timer, listeners and promise jobs
  run. Callers owe nothing, so `Heartbeat` holds against any caller.
* `Lifecycle`: the steps of a start and of an exit; a plugin's setup and teardown
  return. No request is owed.
* `Loader`: imports, setups and teardowns return. `Dispatch`: an emission goes on, a
  handler's promise settles.
* `Gateway`: a provider that is not silent answers or breaks off, and a deadline
  passes. A silence is chosen with the request; the property excepts those that no
  deadline covers.
* `Browser`: what a call awaits ends, since each wait has a deadline; Chrome owes
  nothing. `Search`: a request has a deadline until its headers are there, and none
  after. `Shell`: the timer fires and the close is noticed; the command owes nothing.
* The stores, the pages and what the operator works with need none.

## Proofs

TLC checks small instances; the theorems hold for every value of the constants.

**LLMCore_proofs** (any number of ids, loops, triggers, estimates, configurations):
`TypeCorrect`, `OneLoopPerAgent`, `LockIsTheLoop`, `TriggersAreKept`,
`OneReplyPerSend`, `NoSendIsSilent`, `TeardownSilences`, `ImplementsCoalescer`; and
`TriggersAreServed` and `SendsReportOnce`, which put the first ones together as the
run states them. Two inductive invariants carry them.

* `LockInv` adds to the types that no two loops share an id, that an id is in flight
  exactly while one runs, and that a wanted id is marked. Single flight alone is not
  inductive: a trigger that finds the flag clear must know that no loop runs, and
  that is the second part.
* `ReportInv` adds that every id reported, sent or held is at most `seq`, that ids of
  different loops differ, that an attempt under way has no return yet, and that a
  send which is over has one for its last attempt. `OneReturnPerAttempt` alone is not
  inductive: the step that reports must know that no one has reported under that id.

`ImplementsCoalescer` proves the safety part of the refinement: each step of
`LLMCore` is a step of `Coalescer` or a stutter under the mapping (busy ids, wanted
ids, not stopping).

**Clock_proofs** (any intervals, timers, depth): `TypeCorrect`, `OneTimer`,
`RunningMeansArmed`, `CountdownIsExact`, together `TheTimerIsRight`. `TimerInv`
strengthens the two properties of
the timer by what holds inside an activation: a handle that is not null is armed, and
a stopped clock has none; the equation of the countdown is then inductive on top of
it. Every action arms exactly one timer, leaves none, or touches none, and these
three cases are the lemmas of the proof.

The same module proves the clock under its callers (`CadenceInvariant`,
`CadenceTypes`, `TimerIsRightUnderCallers`, `HoldsEnd`). `HInv` is `TimerInv` with the
countdown, the types of interval_toggle and retry, and `NoHoldOutlivesItsFrames`. A
step of the plugins on the clock is a step of `Clock` or leaves it alone
(`StepOfTheClock`), so the timer needs no second proof; the hold is inductive only
with `PluginsOK`, which says that what the two halves of a call have put by for the
clock are intervals, and no more of them than calls were made.

**Conversation_proofs** (any number of calls, messages, triggers; one agent). Every
step of the conversation is a step of `LLMCore` or a stutter (`ConversationIsLLMCore`),
so `LockInv` and `ReportInv` hold in it. `NInv` puts on top of them

* `FramesInv`: a prompt has been rendered only while a loop composes, a compose is
  refused only when the orchestrator is down, and nothing ran before the first trigger;
* `ToolsInv`: the ring holds what the prompt has and what came too late for it, what a
  request that returned has carried has left the ring, and the loop of a living agent
  does not end while the ring holds anything;
* `ReceiptsInv`: what is pending or claimed under the id of a request that is out is in
  the body of that request, also while its retry is being refused; without it
  `ReadMeansGiven` would not survive the return;
* `PressureInv`: no frame begins under pressure, and an agent that is up rests without;
  a frame that ended without a return has left some, but no frame follows it;
* `MessagesInv`: what was posted is in the prompt of a loop that will not run again.

From it follows all that the run `frames` checks of the two plugins: `ConversationTypes`,
`ResultsAreGivenOnce`, `ReadReceiptsAreTrue`, `PressureEndsWithTheFrame`,
`NothingWaitsForATick`. `NothingStranded` is a safety property here: whatever waits has
a frame under way or coming that will carry it.

The same module proves the page of ChatPage (any agents, requests, streams, restarts;
`PageInvariant`), and both together from every state the run starts in
(`TalkInvariant`, `TalkTypes`, `PageShowsTheTruth`). `PageIsTrue` speaks of the rows of the
log and of those that the events on the wire will add; `Coming` names them by their
place, so that a message taken from the wire moves each row up (`Moved`, lemma
`RowsMove`) and changes none but the one a receipt marks (`MessageMoves`). `PGInv` holds

* `Numbering`: a number stands for one thing said, in one transcript and by one request;
* `PageOK`: an event says what was said, a row has a number of the agent shown or is
  known to be crossed, and a double tick is true;
* `MineOnce`: a message is not shown before its answer, and once after it: the post that
  still carries it and its row exclude each other;
* `TicksCome`: the receipt of what was read comes after its row on the wire, or its row
  is yet to be added. A receipt that overtakes the row is what `overtaken` excepts;
* `GreetedFirst`: the greeting is the first output of its stream, so it is never news;
* `RepliesOnce`: the replies that come are those of the transcript, in their order.

**Agent_proofs** holds what an agent is made of.

* *Lives* (any number of agents and requests): `TypeCorrect`, `StoppedIsQuiet`,
  `LoadOwnsItsTeardown`, `ExitIsGraceful`, together `StopsAreOrderly`. `LifeInv` ties the
  flags of an agent to the stage of its start and needs no assumption on when stops come;
  `ExitInv` adds what is true while nothing but one request after boot has come: no
  start was stopped half-way, every handle is an agent that is up, the request awaits
  every handle, and an exit means that the stops it awaits have settled.
* *Loader* (any plugins, requirements, failures; `LoaderInvariant`): `LInv` says where
  each plugin is (unread, pending, loaded, skipped, or in hand), what the phase allows,
  that what is registered is owned by a plugin that is up or in hand, and `Stuck`: once a
  plugin was left out for what it requires, none is in hand, and neither those still
  pending nor those left out are ready. `SkippedForCause` is not inductive without
  that: leaving one out must not be followed by the provider of another.
* *Prompt* (any plan, any rendering; `PromptInvariant`): types and `ToolsAnswer`. The work
  is in the sort: the ranks of a strict total order on a finite set are the numbers
  up to its size, each taken once (lemma `Ranks`), so a sorted list of blocks is a list
  of the blocks.
* *Dispatch* (any listeners, calls, replies; `DispatchInvariant`, `ListenersHear`): of
  every emission on the stack, the listeners it has called are the front of the copy it
  took, and it owes no one outside of the copy.
* *Mirror* (any sources, watchers, lines; `MirrorInvariant`, `LinesHeard`): no two
  deliveries share a source or a line, a flag is set exactly while a delivery of its
  source is under way, and a mirrored line has come once to every watcher that no
  delivery has yet to call with it. "At most once" alone is not inductive.
* *Gateway* (any request; `GatewayInvariant`, `NamesAlwaysComeHome`): what was posted is
  the body of the request, and what comes back are tools it was about. That the name
  map is one-to-one takes two arguments: some numbered name is free, since the names
  taken are fewer than the numbers tried (`FreeIsFree`, by pigeonhole); and the recursive
  function `NameMap` keeps its promise at every index, since there is no least one
  where it does not (`NamesMapped`).
* *Side by side* (`AgentInvariant`): one part runs and the others rest, so each step is
  a step of one and a stutter of the others. From it the run's invariants
  `PartsTypeCorrect`, `NothingStaysHalfUp`, `RequirementsAlwaysHold`, `AgentsStopOrderly`, and
  `AgentsHear`, which is what `EveryoneHears` says apart from liveness.

**Operator_proofs** holds what the operator works with, and ends with all five parts side
by side (`OperatorInvariant`); from it all six invariants of the run `operator` are
theorems: `OperatorTypes`, `WindowsTrueForTheOperator`, `ReportsAreKept`, and
`OperatorIsServed` for the other three.

* *Processes* (any number of commands and daemons; `ProcessesInvariant`,
  `ProcessesTypes`, `StoppedStaysStopped`, `DaemonsAreKept`). `PRInv` adds to the two
  properties: `Scripts`, what may be left of a command (a truncation follows its
  read, a record its spawn); `Records`, that what is in a pid file was started;
  `Apart`, that two commands about one file are known to have crossed, and that one
  about to truncate kills whatever lives of the record; `Single`, that what a command
  is about to start has nothing beside it. `DaemonsKept` speaks of commands between
  their steps, so each step needs to know what the rest of its script promises.
* *Windows* (`SurfacesInvariant`, `TabsInvariant`, `WindowsTrue`). `SFInv`: those who hold
  the server are counted and listed, and as long as nothing was upset (`OneToken`) the
  agent that makes the server is the same for all who ask; its token is in the files
  before a runtime comes up that is not bare, and server and dashboard have it from
  there; a token once in the files is not replaced, so it does not matter what a bare
  runtime served before. `TInv`: a
  call made after an activation works in the tab activated, and all answers of a page
  that nobody moved are of that page.
* *Editors* (`CatalogueInvariant`, `SettingsInvariant`, `EditorsHonest`). `CInv`: every
  copy that may yet be written over llm.json has a default that it defines, and as long
  as nobody was outrun (`InStep`) each editor's copy is the file, but for what was typed
  into a form after it was sent (`AsKnown`), a request changes what it is about and
  nothing else, and what the page keeps of it differs from what it sent in the services
  of that form alone (`KeptBut`); `SavedStays` needs `InStep`, since a whole-file
  write keeps a service only if the writer had seen it. `EInv`: of two calls that
  change one document it is known that they race, a command's pinning included; what was
  written and not yet reported is what the file holds, and what a call wrote whose answer
  was lost has become what the file is to hold; what a pinning command will write is what
  an editor last wrote (`Pinning`); a restart under way follows whatever was saved; and
  what is the terminal's own or was dropped (`Unseen`) is in no file, no page and no
  call.

**Stores_proofs**, with the page and the logbook in **Pages_proofs**, is about what an
agent keeps (any capacities, bounds, clocks and number of restarts). `StoresInvariant`
puts the six parts side by side, and six of the seven properties of the run `stores` are
theorems: `StoresTypeCorrect`, `FilesAlwaysReplay`, `IdsAreUnique`, `StoresAreKept`,
`WhatIsLookedUpIsTrue`, `WhatIsImportantStays`.

* *Transcript* (`ChatInv`). Ids are seeded from the newest entries of a file that a kill
  may have cut anywhere. `UniqueIds` therefore needs that in *every* beginning of every
  text in memory, in the chain or on disk the largest id is the last or the one before
  it (`Late`): an append that the teardown overtook may land after a newer line, and no
  more than one. So a window of two finds the largest; a window of one need not, which
  is why `Capacity` is assumed to be at least 2 (`MAX_TRANSCRIPT` is 1000).
  Nothing is assumed of a file that is loaded. `Apart` says of every text, in memory, in the chain
  or on disk, that no two of its lines have one id unless a late append gave it a second
  one (`twice`), and that two which have are both read unless a late write is to blame
  (`undone`): a late append writes its line as it was when its turn came, so the second
  line is unread, or the receipt had come before. `StatusGood` says the same of the entries
  in memory, where the load made two of them, and `LateWritesAgree` of what is still
  under way when the teardown has written. Both histories are cut down to the file's ids at
  a load, so an id is excepted only as long as a file or the memory has it.
  `ReceiptsStay` needs `ReadsAreKept`: a text that has an entry unread while memory has
  it read is followed in the chain by one that has it read.
  `AppendsAreNew` says that what waits to be appended is newer than all that will be
  in the file by then. `ReplayGivesWindow` is inductive with these: only the last
  rewrite that waits and the appends behind it are seen in the end, and each step leaves
  the newest of them what the window is.
* *Journal* (`JournalInv`). `LinesRise`: the numbers on disk ascend, and what waits is
  greater than what is written. `CountHolds`: the count, with what the last compaction
  did not count, is no less than what the file will be when the chain has run, where
  what precedes a clear does not count (`Coming`); and a count over the limit has a
  compaction on its way. `JournalReplayInv` is what makes the file end as the buffer does
  (`JournalReplays`). The numbers of the slots ascend around the ring (`RingRises`). What
  only one of the buffer and the coming file has is older than everything that the other
  has (`BothEndAlike`): so a compaction, which drops the oldest lines, and a full buffer,
  which drops the oldest record, both keep it, and two ascending lists like this have
  the same end (`AlikeEnds`). The file is not left with less than it may keep unless the
  buffer has no more (`EnoughIsLeft`). A torn file ends in a line that cannot be read
  (`TornLine`).
* *Logbook* (`LogbookInv`, `LogbookReplayInv`): the newest records in memory are on the
  file or among the lines that wait, or a rewrite is due that has them.
* *Notebook and trail* (`MemoryInv`): the last text that waits is what memory holds, and
  if none waits the file does, unless the disk refused it; that a batch is never lost
  rests on `NotebookThere`, that the trail is up only while the notebook is. Which note
  the cap drops is decided by ranks: whoever is worse than a note that stays has
  more that are better.
* *Fetches* (`FetchInv`): what was fetched is the answer to what was asked; the theorem
  then compares the code's filter and limit with the property's own statement of them.
* *Page* (`PageInv`): the buffers, streams and answers are of the agent they are for;
  the selection has the only stream that is not closed (`SelectionOwn`); what is on the
  stream comes after what is shown, and every record of the buffer is shown, on the wire,
  or known to be missed (`StreamFollows`); what a query found has every match that is not
  on the wire (`FoundGood`), and so has the answer on its way (`AnswerGood`).

The proofs changed the model in four places. `JournalStaysSmall` used to say three
times `Persisted`; that is false when the buffer is greater than what is kept, as TLC
showed on the sizes the failed step suggested, for lines counted while a compaction
reads are forgotten by the count. The bound is now twice `Persisted` and those lines
(`forgotten`). `ReceiptsStay` compared only the file before a step with the file after
it, and is now stated of a rewrite that is under way as well. The filters and renderings
of the stores (`Readable`, `Query`, `ShowNotes`, `RenderLog`) are given by the
places they keep (`Picked`) or by folds, so that no module of the stores declares a
recursive operator. What the files hold once their chains have run (`Replay`,
`AfterQueue`, `AfterChain`) was given by folds over the chain, of which nothing can be
proved; it is now given by places: after the last rewrite or clear that waits come the
lines that wait behind it. TLC found the two alike wherever the
property speaks, in every state of the run `stores`.

**Tools_proofs** is about the tools at work (any calls, commands, endpoints and
processes). `ToolsInvariant` puts three invariants side by side; `ToolsTypeCorrect` and
`ToolsStaySound` follow from it.

* *Browser* (`BrowserInv`). `Follows`, which holds always, says of which attempt what a
  client holds is, and that a client whose Chrome has exited knows it. `Holds`, as long as
  nothing in `cause` has come between, says the converse: a client takes its Chrome for
  dead only when it is, so that a second attempt begins when the process of the first
  is gone and nothing is left for it to kill, and the one exit event that may still come is
  that of the attempt under way; whoever is not the plugin's client any more is dead or
  was signalled. Hence no Chrome lives when one is spawned (`NoneLives`), and one that
  lives is held (`WhatLivesIsHeld`).
* *Search* (`SearchInv`): what was tried and what is to be tried, put together, are what
  the settings allow; as long as an answer is sought no endpoint had results, unless no
  results are to be taken; a search fails when nothing is left, or at an address that is
  none. `PushResultBounds` is about the ring that web-search and krakeycode share.
* *Shell* (`ShellInv`): once the group was killed nothing of it lives, and nothing forks
  into it, for a process forks into a group that it is in; once the pipes were closed
  nobody holds them, for the same reason; so what was kept of the output by then is all
  that fits of what will ever be written.

**Assumptions** are the named `ASSUME`s of the modules, and TLC evaluates them in the
runs: ids and intervals exist, bounds are naturals, intervals are positive (the
orchestrator and the settings editor refuse others), estimates are naturals; names of
plugins, actions and blocks differ; there are finitely many plugins, blocks, listeners
and calls; a request's tools are a list of names, and a name is a sequence; one agent
has one id (`orchestrator/src/index.ts:112`); a ring, a window and a file keep at
least one line, the transcript two.

**Only model-checked:**

* all liveness (`Coalesces`' fairness, `Heartbeat`, the reports of `EveryoneHears`,
  `EverythingEnds`, `EveryCallSettles`), which is beyond the prover;
* what a fold, a `SelectSeq` or a concatenation over lists of any length yields, since
  these are recursive definitions of the standard and community modules:
  `ShownInBudget` (sums of sizes), `NothingIsDropped` of `RequestIsFaithful`, and
  `UnchangedStays` of `Prompt`;
* for the same reason, of the run `browser`, `AnswersAreExact`: what is shown of results
  within a budget, the text after an edit, and the entries of a listing.

## Disagreements between the code and what it says

Each is a run that TLC refutes; PROJECT.json quotes the lines.

* `llm_teardown`: a teardown while tools are listed or the prompt is recomposed makes
  `ctx!` throw in a detached promise, where the comments promise a silent return.
* `tool_results_late`: the ring is cleared on every `llm.return`, also of results that
  settled after that request's prompt was rendered.
* `web_chat_overflow`: messages claimed under an id that is rejected for its length
  are never settled: the retry has a fresh id.
* `transcript_closed`: a write that was under way when teardown rewrote the file lands
  after the rewrite; an append lands as a second line with the same id, of which the next
  load makes two entries, and a receipt reaches the first only.
* `discard`: the settings page edits its only copy of an agent in place; what was
  discarded is shown again and saved with the next change.

More of the kind are listed as hazards with the exception they are of a property: the
second stop of an agent returns before the first is done, so a second signal exits in
mid-teardown (`agent_instance/src/index.ts:174`); a browser torn down during its
launch spawns Chrome all the same (`cdp.ts:166`); a handler that throws where no
promise catches it takes the calls after it with it (`orchestrator/src/index.ts:143`); the
logbook may hold a record twice (`logbook-store.ts:117`).

## Not modelled

* The content of prompts, replies, tool arguments and web pages, token counting,
  wording and layout: no property is about them. Of the pages that is most of their
  lines (`page.style.ts`, the rendering in `page.script.ts` and `app.js`), and the
  mock-ups under `design/` are no part of the program.
* Speech, transcription and what an OCR answers (gateway); `read_file`, `write_file`,
  screenshots; how a search engine's page is taken apart; the schema that the
  settings page is generated from and the probing of a provider's models; the
  installer; the console, which is a static page.
* Three hazards that are known and that no property states, since nothing in the
  code guards against them: a size taken before a file is read (`read_file`); the
  set-up assistant of the settings page, which cannot be repeated after a failure
  half-way, since the agent then exists (`app.js:1247`); the terminal's
  "cancelled - nothing saved" after a step of a menu has saved (`pages.ts:1167`).

Abstractions to know of: blocks render without waiting for I/O (none of the
repository's plugins does); the counter of message ids is seeded by one agent's
history; a plugin's registrations count as one resource in Lifecycle and are taken apart
in Loader and Prompt; the wall clock does not go back; the chat's list of agents is
answered as it is asked for.

## Plan

The system's parts are modelled as far as listed above, and what TLC checks of them is
proved but for the list under "Only model-checked". What remains:

1. `ShownInBudget`, `NothingIsDropped` and `UnchangedStays`, if sums and selections over
   lists are given by places, as `Picked` gives the filters and `Replay` the files.
2. Of the parts that are modelled in part, what [Not modelled](#not-modelled) names.
