---------------------------- MODULE Conversation ----------------------------
(***************************************************************************)
(* The frames of an agent that has a tool plugin and the web channel: both *)
(* listen on one bus, so that every event of the send loop, and every      *)
(* render of a prompt, reaches both before the next thing happens.  Calls  *)
(* that settle and messages that are posted ask for frames of their own.   *)
(***************************************************************************)
EXTENDS ToolResults, WebChat

nvars == <<fvars, rvars, wvars>>

NInit == FInit /\ RInit /\ WInit

----------------------------------------------------------------------------
(* The send loop, with all that hear of its steps.                         *)

ReturnHeard(l) == Returns(l) /\ ToolsHearReturn /\ ChatHearsReturn

PressureHeard(l) ==
  /\ Presses(l)
  /\ ToolsHearPressure(PressureRound(l)) /\ ChatHearsPressure(PressureRound(l))

SentHeard(l) == Sends(l) /\ ChatHearsSent(SentId(l)) /\ UNCHANGED rvars

Unheard(l) == Passes(l) /\ UNCHANGED <<rvars, wvars>>

BlocksRendered(l) == Render(l) /\ RenderResults /\ RenderConversation

Turn(l) ==
  ReturnHeard(l) \/ PressureHeard(l) \/ SentHeard(l) \/ Unheard(l) \/ BlocksRendered(l)

----------------------------------------------------------------------------
(* The rest of the agent.                                                  *)

(* A tick of the clock. *)
Tick == composeUp /\ OnTick /\ UNCHANGED <<rvars, wvars>>

Start == OrchestratorStarts /\ UNCHANGED <<rvars, wvars>>
Stop == OrchestratorStops /\ UNCHANGED <<rvars, wvars>>
TearDownAll == PluginsTornDown /\ ToolsTornDown /\ UNCHANGED wvars

NNext ==
  \/ \E l \in Loop : Turn(l)
  \/ \E c \in Call : ToolSettles(c) /\ UNCHANGED wvars
  \/ \E m \in Message : Post(m) /\ UNCHANGED rvars
  \/ Tick \/ Start \/ Stop \/ TearDownAll

NSpec == NInit /\ [][NNext]_nvars

----------------------------------------------------------------------------
(* Properties.                                                             *)

NTypeOK == TypeOK /\ rendered \in BOOLEAN /\ RTypeOK /\ WTypeOK

(* However frames, retries and pressure fall, a result is given to one      *)
(* request that returns at most; the model never reads what such a request *)
(* carried that failed, what was shed, and what settled too late for the   *)
(* prompt of the request that was out, and nothing else is lost.           *)
ResultsGoOnce == OneShot /\ UnreadForCause

(* What asks for a frame of its own gets it, whatever else was under way:   *)
(* neither a result nor a message waits for another tick.                  *)
NothingStranded == NoResultStranded /\ NoMessageStranded
=============================================================================
