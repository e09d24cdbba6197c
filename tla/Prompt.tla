------------------------------- MODULE Prompt -------------------------------
(***************************************************************************)
(* The prompt of one agent: the blocks that plugins hand to the            *)
(* orchestrator, how a compose puts them together, and the list of tools   *)
(* that goes with it.                                                      *)
(*                                                                         *)
(* Blocks and tools are kept in Maps, so a key that is set again keeps its *)
(* place.  Plugins are set up one after the other and may throw, which the *)
(* loader undoes; prompts are composed once all are up.  A compose works   *)
(* on a copy of the blocks: it renders those of the system text, awaits    *)
(* them, and renders the messages.                                         *)
(*                                                                         *)
(* The text of a block is a number, 0 for an empty one.  `changed' is      *)
(* history: the blocks that render differently than they did for the last  *)
(* prompt.                                                                 *)
(***************************************************************************)
EXTENDS Integers, SequencesExt

CONSTANTS
  BlockId,    \* block ids
  Tool,       \* names of tools, which are names of actions
  NoTool,
  Plans,      \* load orders, with what each plugin's setup does
  Text        \* what a block may render

ASSUME PlansAssumption ==
  \A planned \in Plans :
    /\ planned \in Seq(ToSet(planned))
    /\ \A p \in ToSet(planned) :
         /\ p.id \in BlockId /\ p.priority \in Int
         /\ p.target \in {"system", "messages"}
         /\ p.tool \in Tool \cup {NoTool}
         /\ p.throws \in {"no", "early", "late"}
ASSUME TextAssumption == Text \subseteq Nat /\ Text # {} /\ IsFiniteSet(Text)

VARIABLES
  plan, todo,   \* the plugins, and those not yet set up
  up,           \* those that are, the last one first
  mode,        \* of the agent
  blocks,       \* the context buffer, in the order of its Map
  answering,    \* tools whose action is on the bus
  tools,        \* the tool registry, in the order of its Map
  text,         \* per block: what it would render
  failing,      \* blocks whose render throws or yields no text at all
  composing,    \* the copy and the system part of a compose under way
  prompt,       \* the last prompt
  changed

pvars == <<plan, todo, up, mode, blocks, answering, tools, text, failing, composing, prompt, changed>>

NoPrompt == [system |-> <<>>, messages |-> <<>>, copy |-> <<>>]
IsPart(s) == \A i \in DOMAIN s : s[i].id \in BlockId /\ s[i].text \in Text

PTypeOK ==
  /\ plan \in Plans /\ todo \in Seq(ToSet(plan)) /\ up \in Seq(ToSet(plan))
  /\ mode \in {"loading", "running", "stopped"}
  /\ \A i, j \in DOMAIN blocks : blocks[i].id = blocks[j].id => i = j
  /\ answering \subseteq Tool
  /\ tools \in Seq(Tool) /\ IsInjective(tools)
  /\ text \in [BlockId -> Text]
  /\ failing \subseteq BlockId
  /\ IsPart(composing.system)
  /\ IsPart(prompt.system) /\ IsPart(prompt.messages)
  /\ changed \subseteq BlockId

PInit ==
  /\ plan \in Plans /\ todo = plan /\ up = <<>>
  /\ mode = "loading"
  /\ blocks = <<>> /\ answering = {} /\ tools = <<>>
  /\ text = [b \in BlockId |-> Max(Text)]
  /\ failing = {}
  /\ composing = NoPrompt /\ prompt = NoPrompt
  /\ changed = {}

----------------------------------------------------------------------------
(* Setup.                                                                  *)

(* blocks.set: in its place when the id is there. *)
SetBlock(p) ==
  LET block == [id |-> p.id, target |-> p.target, priority |-> p.priority] IN
  IF \E i \in DOMAIN blocks : blocks[i].id = p.id
  THEN [i \in DOMAIN blocks |-> IF blocks[i].id = p.id THEN block ELSE blocks[i]]
  ELSE Append(blocks, block)

RemoveBlock(id) == RemoveFirstMatch(blocks, LAMBDA b : b.id = id)

(* llm.register_tool: add or replace by name. *)
RegisterTool(t) == IF t = NoTool \/ t \in ToSet(tools) THEN tools ELSE Append(tools, t)

(* Mutant of Undone: the undo goes by the names of the plugin. *)
UndoneByName(actions, p) == actions \ {p.tool}

(* The undo of a failed setup takes back the action it had registered: not  *)
(* the one another plugin has under that name, over which it failed.       *)
Undone(actions, p) == IF p.tool \in answering THEN actions ELSE actions \ {p.tool}

(* The next plugin's setup: its action, its tool, its block.  When it       *)
(* throws the loader takes back the first and, by its id, the last.        *)
SetUp ==
  /\ mode = "loading"
  /\ todo # <<>>
  /\ todo' = Tail(todo)
  /\ LET p == Head(todo)
         own == {p.tool} \ {NoTool}
         clashes == p.tool \in answering
     IN \/ /\ p.throws = "early" \/ clashes
           /\ answering' = Undone(answering, p)
           /\ UNCHANGED <<blocks, tools, up>>
        \/ /\ p.throws = "late" /\ ~clashes
           /\ blocks' = RemoveBlock(p.id)
           /\ answering' = Undone(answering \cup own, p)
           /\ tools' = RegisterTool(p.tool)
           /\ UNCHANGED up
        \/ /\ p.throws = "no" /\ ~clashes
           /\ blocks' = SetBlock(p)
           /\ answering' = answering \cup own
           /\ tools' = RegisterTool(p.tool)
           /\ up' = <<p>> \o up
  /\ UNCHANGED <<plan, mode, text, failing, composing, prompt, changed>>

Started ==
  /\ mode = "loading"
  /\ todo = <<>>
  /\ mode' = "running"
  /\ UNCHANGED <<plan, todo, up, blocks, answering, tools, text, failing, composing, prompt, changed>>

----------------------------------------------------------------------------
(* Composing.                                                              *)

(* A plugin's state changes, and with it what its block renders. *)
Rewrite(id, t) ==
  /\ mode = "running"
  /\ text[id] # t
  /\ text' = [text EXCEPT ![id] = t]
  /\ changed' = changed \cup {id}
  /\ UNCHANGED <<plan, todo, up, mode, blocks, answering, tools, failing, composing, prompt>>

(* A render begins to fail, or ceases to; bound: one does at a time. *)
Falter(id) ==
  /\ mode = "running"
  /\ failing' = {id} \ failing
  /\ changed' = changed \cup {id} \cup failing
  /\ UNCHANGED <<plan, todo, up, mode, blocks, answering, tools, text, composing, prompt>>

(* Indices in an order: at k, the one that k of them are not after. *)
Ranked(n, before) ==
  [k \in 1..Cardinality(n) |->
     CHOOSE i \in n : Cardinality({j \in n : <<j, i>> \in before \/ j = i}) = k]

(* By descending priority, equals in the order of the Map. *)
ByPriority(copy) ==
  {p \in (DOMAIN copy) \X (DOMAIN copy) :
     \/ copy[p[1]].priority > copy[p[2]].priority
     \/ copy[p[1]].priority = copy[p[2]].priority /\ p[1] < p[2]}

(* Mutant of Rendered: one failing render fails the frame's whole part. *)
RenderedTogether(copy, target) ==
  LET mine == {i \in DOMAIN copy : copy[i].target = target}
      sorted == Ranked({i \in mine : text[copy[i].id] # 0}, ByPriority(copy))
  IN IF \E i \in mine : copy[i].id \in failing THEN <<>>
     ELSE [k \in DOMAIN sorted |-> [id |-> copy[sorted[k]].id, text |-> text[copy[sorted[k]].id]]]

(* The blocks of one target; one that fails or is empty contributes nothing. *)
Rendered(copy, target) ==
  LET n == {i \in DOMAIN copy : /\ copy[i].target = target
                                /\ copy[i].id \notin failing
                                /\ text[copy[i].id] # 0}
      sorted == Ranked(n, ByPriority(copy))
  IN [k \in DOMAIN sorted |-> [id |-> copy[sorted[k]].id, text |-> text[copy[sorted[k]].id]]]

(* prompt.compose: gather, copy, and the renders of the system text. *)
ComposeSystem ==
  /\ mode = "running"
  /\ composing = NoPrompt
  /\ blocks # <<>>
  /\ composing' = [NoPrompt EXCEPT !.copy = blocks, !.system = Rendered(blocks, "system")]
  /\ changed' = {}
  /\ UNCHANGED <<plan, todo, up, mode, blocks, answering, tools, text, failing, prompt>>

(* The messages, from the copy; the agent may have been stopped meanwhile. *)
ComposeMessages ==
  /\ composing # NoPrompt
  /\ prompt' = [composing EXCEPT !.messages = Rendered(composing.copy, "messages")]
  /\ composing' = NoPrompt
  /\ UNCHANGED <<plan, todo, up, mode, blocks, answering, tools, text, failing, changed>>

(* stop: prompt.compose is off the bus. *)
StopComposing ==
  /\ mode = "running"
  /\ mode' = "stopped"
  /\ UNCHANGED <<plan, todo, up, blocks, answering, tools, text, failing, composing, prompt, changed>>

(* The plugins take their blocks and actions away, the last one up first;   *)
(* the tool registry is what every tool requires, so it is cleared last.   *)
TakeNextDown ==
  /\ mode = "stopped"
  /\ IF up # <<>>
     THEN /\ up' = Tail(up)
          /\ blocks' = RemoveBlock(Head(up).id)
          /\ answering' = answering \ {Head(up).tool}
          /\ UNCHANGED tools
     ELSE /\ tools # <<>>
          /\ tools' = <<>>
          /\ UNCHANGED <<up, blocks, answering>>
  /\ UNCHANGED <<plan, todo, mode, text, failing, composing, prompt, changed>>

PNext ==
  \/ SetUp \/ Started
  \/ \E id \in BlockId : Falter(id) \/ \E t \in Text : Rewrite(id, t)
  \/ ComposeSystem \/ ComposeMessages
  \/ StopComposing \/ TakeNextDown

----------------------------------------------------------------------------
(* Properties.                                                             *)

Same(part, ids) == SelectSeq(part, LAMBDA r : r.id \notin ids)

(* "It always renders at the top ... so the prompt prefix stays byte-stable *)
(* across frames" (persona): whatever one block does, from one prompt to    *)
(* the next the system text of all others is the same, in the same order.   *)
UnchangedStays ==
  [][composing' # NoPrompt /\ prompt # NoPrompt /\ composing = NoPrompt
       => Same(prompt.system, changed) = Same(composing'.system, changed)]_pvars

FailedSetup(t) == \E i \in DOMAIN plan : plan[i].tool = t /\ plan[i].throws = "late"

(* A tool the model is offered has an action behind it, unless a plugin     *)
(* failed after it had declared the tool: the undo does not take that back. *)
OfferedToolsAnswer ==
  mode = "running" => \A t \in ToSet(tools) : t \in answering \/ FailedSetup(t)
=============================================================================
