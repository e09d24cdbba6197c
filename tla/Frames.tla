------------------------------- MODULE Frames -------------------------------
(***************************************************************************)
(* A frame of one agent as the plugins on its bus see it: the send loop of *)
(* LLMCore with the orchestrator's side of a compose, and its steps sorted *)
(* by the event they emit.  A module that models a plugin joins each of    *)
(* these actions to what the plugin's listeners do in the same turn of the *)
(* event loop.                                                             *)
(*                                                                         *)
(* A compose that has begun does not fail: prompt.compose renders every     *)
(* block in isolation and catches what it throws.  One that begins after   *)
(* the orchestrator has stopped is refused: its action is gone.            *)
(***************************************************************************)
EXTENDS LLMCore

(* Every trigger on an agent's bus is its orchestrator's and carries its id. *)
ASSUME OneAgentAssumption == \A j, k \in Key : j = k

VARIABLES
  rendered,   \* the compose under way has rendered the message blocks
  refused     \* the compose under way was invoked in vain

fvars == <<vars, rendered, refused>>

Composing == {"compose", "recompose", "retry"}

FInit == Init /\ rendered = FALSE /\ refused = FALSE

----------------------------------------------------------------------------
(* The send loop.                                                          *)

Refused(l) == pc[l] \in Composing /\ refused

(* What a compose comes to: the prompt, or the rejection of its invoke. *)
SendStep(l) ==
  /\ \/ /\ ~Refused(l)
        /\ pc[l] \in Composing => rendered
        /\ \/ Composed(l) \/ Listed(l) \/ Recomposed(l) \/ ToolsListed(l)
           \/ ChatOk(l) \/ ChatOverflow(l) \/ ChatFailed(l)
           \/ RetryComposed(l) \/ LoopAgain(l) \/ LoopEnd(l)
     \/ Refused(l) /\ (ComposeFailed(l) \/ RetryComposeFailed(l))
  /\ rendered' = FALSE
  /\ refused' = (pc'[l] \in Composing /\ ~composeUp)

(* compose() renders the blocks into the prompt; a block reads its state    *)
(* now, not when the compose began.                                        *)
Render(l) ==
  /\ pc[l] \in Composing
  /\ ~rendered /\ ~refused
  /\ rendered' = TRUE
  /\ UNCHANGED <<vars, refused>>

(* A step that emits llm.request.sent, and the id it carries. *)
Sends(l) == SendStep(l) /\ sent' # sent
SentId(l) == frame[l].id

(* A step that emits llm.return, and what it says. *)
Returns(l) == SendStep(l) /\ returned' # returned
LastReturn == returned'[Len(returned')]

(* A step that emits context.full, and the round it says. *)
Presses(l) == SendStep(l) /\ frame'[l].round > frame[l].round
PressureRound(l) == frame'[l].round

(* A step that emits none of these. *)
Passes(l) ==
  /\ SendStep(l)
  /\ UNCHANGED <<sent, returned>>
  /\ frame'[l].round <= frame[l].round

----------------------------------------------------------------------------
(* The rest of the agent.                                                  *)

(* A tick, whether the clock's own or one asked for by clock.fire_now, is   *)
(* turned into a trigger of the send loop before the emission is over.     *)
OnTick == (\E k \in Key : TriggerBusy(k) \/ \E l \in Loop : TriggerIdle(k, l))
          /\ UNCHANGED <<rendered, refused>>

(* What clock.fire_now does: nothing when it is not registered. *)
FireNow == IF composeUp THEN OnTick ELSE UNCHANGED fvars

(* The agent starts its orchestrator once, stops it first, and then tears   *)
(* its plugins down.                                                       *)
OrchestratorStarts == triggers = 0 /\ ComposeRegistered /\ UNCHANGED <<rendered, refused>>
OrchestratorStops == ComposeUnregistered /\ UNCHANGED <<rendered, refused>>
PluginsTornDown == ~composeUp /\ Teardown /\ UNCHANGED <<rendered, refused>>

(* A loop is between the render of its prompt and its end. *)
HasPrompt(l) ==
  \/ pc[l] \in Composing /\ rendered
  \/ pc[l] \in {"listing", "tools", "chat"}
=============================================================================
