------------------------------- MODULE WebChat -------------------------------
(***************************************************************************)
(* The web channel of one agent: what the user types, what the model is    *)
(* shown of it, and the receipts ("sent", "read") the browser sees.        *)
(*                                                                         *)
(* A message waits in `pending' until a request is announced, is claimed   *)
(* by that request's id, and is read when that id returns; meanwhile the   *)
(* conversation block renders the end of the transcript, shorter under     *)
(* context pressure.  Message ids are unique over all agents; here they    *)
(* are counted for one.  Left out: the character budget of the window, and *)
(* the marker that says whether the user waits for an answer.              *)
(***************************************************************************)
EXTENDS Frames, SequencesExt

CONSTANTS
  MaxMessages,  \* bound: how many messages the user posts
  MaxTurns      \* conversationMaxTurns

ASSUME MessagesAssumption == MaxMessages \in Nat
ASSUME TurnsAssumption == MaxTurns \in Nat \ {0}

Message == 1..MaxMessages
AgentSend == 0   \* an entry of the transcript written by the agent

VARIABLES
  transcript,     \* the entries, oldest first
  pending,        \* messages no request has been announced for
  inFlightIds,    \* which request's return each claimed message awaits
  status,         \* per message: "unsent", "sent", "read"
  pressureRound,  \* the context pressure of the frame
  shown,          \* the messages in the prompt last composed
  given,          \* messages in the prompt of a returned request (history)
  cut             \* messages that a prompt's window left out (history)

wvars == <<transcript, pending, inFlightIds, status, pressureRound, shown,
           given, cut>>

(* Types, and the bookkeeping of receipts: a message is claimed by one      *)
(* request and is then noshown's, so that its receipt cannot come twice.    *)
WTypeOK ==
  /\ transcript \in Seq(Message \cup {AgentSend})
  /\ inFlightIds \subseteq [req : 1..seq, msg : Message]
  /\ status \in [Message -> {"unsent", "sent", "read"}]
  /\ pressureRound \in 0..config.maxReduceRounds
  /\ \A S \in {pending, shown, given, cut} : S \subseteq Message
  /\ \A c, d \in inFlightIds : c.msg = d.msg => c = d
  /\ \A c \in inFlightIds : status[c.msg] = "sent" /\ c.msg \notin pending

WInit ==
  /\ transcript = <<>>
  /\ pending = {}
  /\ inFlightIds = {}
  /\ status = [m \in Message |-> "unsent"]
  /\ pressureRound = 0
  /\ shown = {}
  /\ given = {} /\ cut = {}

Unposted == {m \in Message : status[m] = "unsent"}

----------------------------------------------------------------------------
(* The conversation block.                                                 *)

(* Half the turns for every round of pressure, and at least one. *)
PressuredMaxTurns ==
  LET halved == MaxTurns \div 2^pressureRound IN IF halved > 1 THEN halved ELSE 1

WindowTranscript ==
  LET n == Len(transcript) IN
  IF n > PressuredMaxTurns
  THEN SubSeq(transcript, n - PressuredMaxTurns + 1, n) ELSE transcript

RenderConversation ==
  /\ shown' = ToSet(WindowTranscript) \cap Message
  /\ cut' = cut \cup ((ToSet(transcript) \cap Message) \ ToSet(WindowTranscript))
  /\ UNCHANGED <<transcript, pending, inFlightIds, status, pressureRound, given>>

----------------------------------------------------------------------------
(* The listeners.                                                          *)

(* Mutant of Claim: what is claimed stays pending. *)
ClaimKeepsPending(req) ==
  /\ inFlightIds' = inFlightIds \cup [req : {req}, msg : pending]
  /\ UNCHANGED pending

(* llm.request.sent: the pending messages are this request's. *)
Claim(req) ==
  /\ inFlightIds' = inFlightIds \cup [req : {req}, msg : pending]
  /\ pending' = {}

ChatHearsSent(req) ==
  /\ Claim(req)
  /\ UNCHANGED <<transcript, status, pressureRound, shown, given, cut>>

(* Mutant of Receipts: everything outstanding is read. *)
ReceiptsForAll(req) ==
  /\ status' = [m \in Message |-> IF status[m] = "sent" THEN "read" ELSE status[m]]
  /\ inFlightIds' = {}

(* llm.return: what that request claimed is read. *)
Receipts(req) ==
  LET done == {c \in inFlightIds : c.req = req} IN
  /\ status' = [m \in Message |->
                  IF \E c \in done : c.msg = m THEN "read" ELSE status[m]]
  /\ inFlightIds' = inFlightIds \ done

(* The orchestrator on an answered request: the model may send messages to  *)
(* the user, which are on the transcript before the emission is over.      *)
AgentMaySpeak ==
  transcript' \in {transcript, Append(transcript, AgentSend)}

(* Mutant of ChatHearsReturn: the pressure stays. *)
ReturnKeepsPressure ==
  /\ Receipts(LastReturn.id)
  /\ IF LastReturn.ok /\ composeUp THEN AgentMaySpeak ELSE UNCHANGED transcript
  /\ given' = given \cup shown
  /\ UNCHANGED <<pending, pressureRound, shown, cut>>

ChatHearsReturn ==
  /\ pressureRound' = 0
  /\ Receipts(LastReturn.id)
  /\ IF LastReturn.ok /\ composeUp THEN AgentMaySpeak ELSE UNCHANGED transcript
  /\ given' = given \cup shown
  /\ UNCHANGED <<pending, shown, cut>>

(* context.full: the window of the next compose is smaller. *)
ChatHearsPressure(round) ==
  /\ pressureRound' = round
  /\ UNCHANGED <<transcript, pending, inFlightIds, status, shown, given, cut>>

----------------------------------------------------------------------------
(* The browser, and the rest of the agent.                                 *)

(* The HTTP handler of a POST is a task of its own.  No block of the        *)
(* repository's plugins and no tool list waits for I/O, so none runs        *)
(* between the render and the dispatch, nor before a refusal is caught.    *)
ServerRuns == ~\E l \in Loop : (HasPrompt(l) /\ pc[l] # "chat") \/ Refused(l)

(* The handler of a POST up to its 202: the message is pending and on the   *)
(* transcript before the clock is fired.                                   *)
Accept(m) ==
  /\ ~stopping
  /\ ServerRuns
  /\ m \in Unposted
  /\ \A n \in Unposted : m <= n
  /\ pending' = pending \cup {m}
  /\ transcript' = Append(transcript, m)
  /\ status' = [status EXCEPT ![m] = "sent"]
  /\ UNCHANGED <<inFlightIds, pressureRound, shown, given, cut>>

(* Mutant of Post: the message waits for the next tick. *)
PostQuietly(m) == Accept(m) /\ UNCHANGED fvars

Post(m) == Accept(m) /\ FireNow

----------------------------------------------------------------------------
(* Properties.                                                             *)

Read == {m \in Message : status[m] = "read"}

(* "A message is only `read' when the return of the request that actually  *)
(* included it arrives" (hub.ts, AgentReg.inFlight), whatever was posted   *)
(* while which request was out, unless a prompt's window had cut it off.   *)
ReadMeansGiven == Read \subseteq given \cup cut

(* "pressure is per-frame": however a frame ended, the next one starts      *)
(* from the full conversation budget, and an agent that is up rests with   *)
(* it.  Once the orchestrator has stopped, a refused recompose ends its     *)
(* frame without a return and leaves its pressure, but no frame begins.    *)
PressureIsPerFrame ==
  /\ composeUp /\ ~stopping /\ (\A l \in Loop : pc[l] = "free") => pressureRound = 0
  /\ ~stopping => \A l \in Loop : pc[l] = "compose" => pressureRound = 0

(* Once the agent has had its first trigger, no message waits for another  *)
(* tick (the server listens before the orchestrator starts; the first tick *)
(* serves what was posted until then): every one is given, or cut off.     *)
NoMessageStranded ==
  composeUp /\ ~stopping /\ triggers > 0 /\ (\A l \in Loop : pc[l] = "free")
    => \A m \in Message : status[m] # "unsent" => m \in given \cup cut

(* A claimed message awaits "THAT request's return" (hub.ts): when no       *)
(* request is out, none is left waiting for one.                           *)
ClaimsAreSettled ==
  ~stopping /\ (\A l \in Loop : pc[l] = "free") => inFlightIds = {}
=============================================================================
