------------------------------ MODULE MCFrames ------------------------------
(***************************************************************************)
(* What an agent and its user say to each other: the frames that carry it   *)
(* to the model and back (subject "frames"), and the page that shows it     *)
(* (subject "page").  In every behaviour one of them runs.                 *)
(***************************************************************************)
EXTENDS Conversation, ChatPage

CONSTANTS k1, l1

VARIABLE subject
talkVars == <<subject, nvars, hvars>>

OneKey == {k1}
OneLoop == {l1}

(* A budget of 1: an estimate of 2 overflows, and a further round may help. *)
Estimates == {1, 2}

Window(n, retry) ==
  [budget |-> 1, maxReduceRounds |-> n, retryOnContextError |-> retry, canChat |-> TRUE]

OneRound == {Window(1, TRUE)}
NoRounds == {Window(0, FALSE)}

(* With a message still to come and one call less, made and read before;    *)
(* with every call still to come and the messages said and read before.    *)
FirstCallWasMade ==
  /\ WInit /\ 1 \in Call
  /\ call = [c \in Call |-> IF c = 1 THEN "settled" ELSE "unmade"]
  /\ results = <<>> /\ folded = {} /\ read = {1} /\ burnt = {} /\ shed = {} /\ late = {}
MessagesWereRead ==
  /\ RInit
  /\ status = [m \in Message |-> "read"] /\ transcript = [m \in Message |-> m] /\ given = Message
  /\ pending = {} /\ inFlightIds = {} /\ pressureRound = 0 /\ shown = {} /\ cut = {}

(* The page with a stream that is opened twice, and with a restart and one   *)
(* stream, or one thing said.                                              *)
PageAtFirst ==
  /\ listed = Chatter /\ trusted = TRUE /\ chat = [a \in Chatter |-> <<>>]
  /\ stream = NoStream /\ wire = <<>> /\ posts = {}
  /\ current = Nobody /\ known = {} /\ log = <<>> /\ greeted = FALSE
  /\ connected = FALSE /\ locked = FALSE
  /\ broken = FALSE /\ crossed = {} /\ unheard = {} /\ overtaken = {} /\ news = {}
  /\ \/ said = 0 /\ opens = 0 /\ reboots = MaxReboots
     \/ said = 0 /\ MaxStreams > 0 /\ opens = MaxStreams - 1 /\ reboots = 0
     \/ MaxSaid > 0 /\ said = MaxSaid - 1 /\ opens = 0 /\ reboots = 0

TalkInit ==
  \/ subject = "frames" /\ FInit /\ HInit /\ (FirstCallWasMade \/ MessagesWereRead)
  \/ subject = "page" /\ NInit /\ PageAtFirst

TalkNext ==
  \/ subject = "frames" /\ NNext /\ UNCHANGED <<subject, hvars>>
  \/ subject = "page" /\ HNext /\ UNCHANGED <<subject, nvars>>

TalkSpec == TalkInit /\ [][TalkNext]_talkVars

(* The frames alone. *)
FramesInit == subject = "frames" /\ NInit /\ HInit
FramesNext == NNext /\ UNCHANGED <<subject, hvars>>
FramesSpec == FramesInit /\ [][FramesNext]_talkVars

(* One type invariant for the two.                                         *)
TalkTypeOK == NTypeOK /\ HTypeOK

(* What the chat page shows: replies, messages and ticks, as far as the      *)
(* stream was not lost (ChatPage).                                         *)
PageIsTrue == RepliesShown /\ MessagesShown /\ TicksAreTrue
=============================================================================
