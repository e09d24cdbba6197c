------------------------------ MODULE MCAgent ------------------------------
(***************************************************************************)
(* The agents of a runtime and what one of them is assembled from, checked *)
(* side by side: their life, the loader, the dispatch over the buses, the  *)
(* prompt, the gateway, the log.  One of them, the subject, runs in every   *)
(* behaviour; the others rest in a state of theirs in which they have       *)
(* nothing to do, or with their steps held back.                           *)
(***************************************************************************)
EXTENDS Lifecycle, Loader, Dispatch, Mirror, Prompt, Gateway

CONSTANTS s1, s2, p1, p2, p3, act1, act2, blk, b1, b2, b3, t1

VARIABLE subject

----------------------------------------------------------------------------
(* Lives: one of the agents clashes over an action.                        *)

TwoStoppers == {s1, s2}
FirstAgent == {1}

----------------------------------------------------------------------------
(* The loader: p2 is declared first; p3 only as an independent, p1 as both. *)

Plugins == {p1, p2, p3}
Actions == {act1, act2}
Blocks == {blk}

Fine ==
  [code : {"fine"}, requires : {{}, {act1}, {act2}}, surfaces : {<<act1>>, <<blk, act2>>}, throws : BOOLEAN]
  \cup [code : {"fine"}, requires : {{}, {act1}, {p1}}, surfaces : {<<>>}, throws : {FALSE}]
Unusable ==
  [code : {"broken", "missing", "misnamed"}, requires : {{}}, surfaces : {<<>>}, throws : {FALSE}]

Definitions ==
  [plugins : {<<p2, p1, p2>>}, privatePlugins : {<<p1, p3>>},
   traits : [Plugins -> Fine \cup Unusable]]

----------------------------------------------------------------------------
(* The prompt: blocks of one priority on both sides of the prompt; plugins  *)
(* that clash over a tool; one that fails late, and one that takes over a   *)
(* block.                                                                  *)

PromptBlocks == {b1, b2, b3}
Tools == {t1}
Setup(id, priority, target, tool, throws) ==
  [id |-> id, priority |-> priority, target |-> target, tool |-> tool, throws |-> throws]

PromptPlans ==
  {<<Setup(b1, 1, "system", t1, "no"), Setup(b2, 0, "messages", NoTool, "no"), Setup(b3, 1, "system", t1, "no")>>,
   <<Setup(b1, 0, "system", t1, "late"), Setup(b2, 1, "system", t1, "no"), Setup(b1, 1, "system", NoTool, "no")>>,
   <<Setup(b1, 0, "system", t1, "no"), Setup(b1, 1, "messages", NoTool, "no"), Setup(b2, 1, "messages", NoTool, "early")>>}

----------------------------------------------------------------------------
(* The gateway: names that clash once sanitised; content that no provider,  *)
(* or not every provider, takes; every kind of request against every       *)
(* provider.                                                               *)

Name(dotted, wire) == [dotted |-> dotted, wire |-> wire]
ab == Name(TRUE, <<"ab">>)
a_b == Name(FALSE, <<"ab">>)
a_b_2 == Name(FALSE, <<"ab", 2>>)
ab_2 == Name(TRUE, <<"ab", 2>>)
ToolLists ==
  SetToAllKPermutations({ab, a_b, a_b_2}) \cup {<<ab, a_b, ab>>, <<ab_2, ab, a_b_2, a_b>>}

Content(kind, source) == [kind |-> kind, source |-> source]
Words == Content("text", "none")
Message(role, content, calls, answers) ==
  [role |-> role, parts |-> content, calls |-> calls, answers |-> answers]
Talks ==
  {<<Message("user", <<Words, c>>, <<>>, 0),
     Message("assistant", content, <<[id |-> 1, name |-> ab], [id |-> 2, name |-> a_b]>>, 0),
     Message("tool", <<c>>, <<>>, 1),
     Message("system", <<Words>>, <<>>, 0)>> :
       c \in {Content("image", "url"), Content("audio", "data"), Content("document", "none")},
       content \in {<<>>, <<Words>>, <<Content("image", "url"), Words>>}}

Communicator(provider, capabilities, deadline) ==
  [provider |-> provider, hasKey |-> TRUE, capabilities |-> capabilities, deadline |-> deadline]
Request(communicator, does, tools_, messages, silentAt) ==
  [communicator |-> communicator, does |-> does, tools |-> tools_, messages |-> messages,
   silentAt |-> silentAt]
Chatting == {"anthropic", "openai-completion", "openai-responses"}
AllRequests ==
  {Request(Communicator(p, {"chat"}, TRUE), "chat", list, <<>>, "never") : p \in Chatting, list \in ToolLists}
  \cup {Request(Communicator(p, {"chat"}, TRUE), "chat", <<a_b, ab>>, talk, "never") : p \in Chatting, talk \in Talks}
  \cup {Request(Communicator(p, {does}, deadline), does, <<>>, <<>>, silentAt) :
          p \in Provider \cup {"unknown"}, does \in {"chat", "embed", "rerank", "ocr"},
          deadline \in BOOLEAN, silentAt \in {"never", "headers", "body"}}

NoRequest == CHOOSE r \in AllRequests : r.tools = <<>>

----------------------------------------------------------------------------

AgentInit ==
  /\ Init
  /\ subject \in {"lives", "loader", "dispatch", "logs", "prompt", "gateway"}
  /\ IF subject = "loader" THEN LInit
     ELSE /\ def = CHOOSE d \in Definitions : TRUE
          /\ phase = "down"
          /\ unread = <<>> /\ pending = <<>> /\ loaded = <<>> /\ available = {}
          /\ current = Nobody /\ registered = <<>>
          /\ owner = [s \in Surface |-> Nobody] /\ skipped = [p \in Plugin |-> "no"]
  /\ subject # "dispatch" =>
       /\ subs = [ev \in Event |-> IF ev = "llm.return" THEN <<Conductor>> ELSE <<>>]
       /\ found = [c \in Call |-> "async"]
  /\ DInit /\ MInit
  /\ subject # "prompt" => plan = CHOOSE p \in PromptPlans : TRUE
  /\ PInit
  /\ IF subject = "gateway" THEN GInit
     ELSE asked = NoRequest /\ progress = "failed" /\ body = NoBody /\ reply = <<>>

(* The agents come and go while the rest stands still. *)
Lives(A) == subject = "lives" /\ A /\ UNCHANGED <<subject, lvars, dvars, mvars, pvars, gvars>>

AgentNext ==
  \/ Lives(Next)
  \/ subject = "loader" /\ LNext /\ UNCHANGED <<subject, vars, dvars, mvars, pvars, gvars>>
  \/ subject = "dispatch" /\ DNext /\ UNCHANGED <<subject, vars, lvars, mvars, pvars, gvars>>
  \/ subject = "logs" /\ MNext /\ UNCHANGED <<subject, vars, lvars, dvars, pvars, gvars>>
  \/ subject = "prompt" /\ PNext /\ UNCHANGED <<subject, vars, lvars, dvars, mvars, gvars>>
  \/ subject = "gateway" /\ GNext /\ UNCHANGED <<subject, vars, lvars, dvars, mvars, pvars>>

agentVars == <<subject, vars, lvars, dvars, mvars, pvars, gvars>>

(* The fair actions of a component that rests are all disabled. *)
AgentSpec ==
  /\ AgentInit /\ [][AgentNext]_agentVars
  /\ \A a_ \in Agent : WF_agentVars(Lives(AgentStep(a_)))
  /\ \A s \in Stopper : WF_agentVars(Lives(Exit(s)))
  /\ LFairness /\ DFairness /\ GFairness

(* What follows is of the subject: of those that rest nothing changes.     *)

(* The types of an agent's life, and of what an agent is made of. *)
PartsTypeOK ==
  /\ TypeOK
  /\ subject = "loader" => LTypeOK
  /\ subject = "dispatch" => DTypeOK
  /\ subject = "logs" => MTypeOK
  /\ subject = "prompt" => PTypeOK
  /\ subject = "gateway" => GTypeOK

(* What a plugin requires is there before it comes up, outlives it, and is  *)
(* missing in the end if the plugin was left out for it (Loader).          *)
RequirementsHold == subject = "loader" => ProvidersOutlive /\ SkippedForCause

(* A plugin that fails to come up leaves nothing: no registration (Loader), *)
(* no tool without an action (Prompt).                                     *)
NothingHalfUp ==
  /\ subject = "loader" => NoLeak
  /\ subject = "prompt" => OfferedToolsAnswer

(* Whoever listens is called and whatever is called is reported (Dispatch); *)
(* a line that is logged is heard, and by its echoes only so often (Mirror). *)
EveryoneHears == EveryListenerHears /\ EveryCallReports /\ LinesAreHeard

(* What was asked to stop, an agent or all of them, does; a load and a     *)
(* request come to an end, whatever fails on the way.                      *)
EverythingEnds == StopsFinish /\ LoadEnds /\ RequestEnds
=============================================================================
