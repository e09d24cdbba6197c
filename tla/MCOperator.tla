----------------------------- MODULE MCOperator -----------------------------
(***************************************************************************)
(* What the operator of an installation works with, checked side by side:  *)
(* the background processes and the commands about them, the settings      *)
(* files and the catalogue of services with their editors, the surfaces    *)
(* that the dashboard frames, and the tabs of the Chrome that he and the   *)
(* agent both use.  In every behaviour one of them, the subject, runs; the *)
(* others rest.                                                            *)
(***************************************************************************)
EXTENDS Processes, Settings, Catalogue, Surfaces, Tabs

VARIABLE subject

operatorVars == <<subject, prvars, evars, cvars, svars, tvars>>

(* The processes, with three commands after a run that is over, or with two. *)
ProcessesAtFirst ==
  /\ \E over \in BOOLEAN :
       /\ daemon = [p \in Pid |-> [what |-> IF over /\ p = 1 THEN "foreground" ELSE "unborn",
                                  leads |-> FALSE, boot |-> "none"]]
       /\ given = (IF over THEN 0 ELSE 1)
  /\ pidFile = [f \in File |-> {}] /\ present = {}
  /\ todo = [c \in Command |-> <<>>] /\ targets = [c \in Command |-> {}]
  /\ child = [c \in Command |-> Nothing] /\ host = [c \in Command |-> Nothing]
  /\ crossed = {} /\ doubled = FALSE /\ orphans = {}

(* The settings are looked at with three calls and nothing new entered, and *)
(* with two contents in two; the tabs with two navigations in one of them,  *)
(* with one in two, and with a window that opens another.                  *)
OperatorInit ==
  /\ subject \in {"processes", "settings", "catalogue", "surfaces", "tabs"}
  /\ ProcessesAtFirst /\ EFresh /\ CInit /\ SFInit /\ TabsInit
  /\ \/ made = 0 /\ marks = MaxMark
     \/ made = 1 /\ marks = Shipped /\ subject = "settings"
  /\ subject # "processes" => given = 0
  /\ subject # "catalogue" => edits = 0
  /\ subject # "surfaces" => surface = "chat" /\ twins /\ \A f \in Folder : file[f].has
  /\ \A u \in Use : use[u].at = "idle"
  /\ \/ tabs = [made |-> MaxTab, open |-> {MaxTab}] /\ pages = 0
     \/ tabs = [made |-> MaxTab, open |-> Tab] /\ pages = 1 /\ subject = "tabs"
     \/ tabs.made = 1 /\ pages = MaxPage /\ subject = "tabs"

OperatorNext ==
  \/ subject = "processes" /\ PRNext /\ UNCHANGED <<subject, evars, cvars, svars, tvars>>
  \/ subject = "settings" /\ ENext /\ UNCHANGED <<subject, prvars, cvars, svars, tvars>>
  \/ subject = "catalogue" /\ CNext /\ UNCHANGED <<subject, prvars, evars, svars, tvars>>
  \/ subject = "surfaces" /\ SFNext /\ UNCHANGED <<subject, prvars, evars, cvars, tvars>>
  \/ subject = "tabs" /\ TabsNext /\ UNCHANGED <<subject, prvars, evars, cvars, svars>>

OperatorSpec == OperatorInit /\ [][OperatorNext]_operatorVars

(* One type invariant for the five; of those at rest there is nothing to    *)
(* be seen.                                                                *)
OperatorTypeOK ==
  CASE subject = "processes" -> PRTypeOK
    [] subject = "settings"  -> ETypeOK
    [] subject = "catalogue" -> CTypeOK
    [] subject = "surfaces"  -> SFTypeOK
    [] OTHER                 -> TabsTypeOK

(* What runs in the background is recorded where a stop looks for it, and   *)
(* is replaced and not doubled (Processes).                                *)
DaemonsKept == DaemonsRecorded /\ Replaced

(* What an editor reported as saved is what the files hold, whoever edits  *)
(* beside it: the settings, the services and the default service, and the  *)
(* agents that were there when another was created.                        *)
ReportedIsKept == StoredStands /\ SavedStays /\ DefaultExists /\ CreationKeeps

(* The editors say truly what is applied and what was dropped: a restart    *)
(* is offered for what the runtime has not read, and what was cancelled in  *)
(* the terminal is in no file (Settings).                                  *)
EditorsAreHonest == RestartIsOffered /\ CancelledStaysOut

(* The windows that the operator looks into with the agent: the chat page   *)
(* and the inspector can be reached with the token the dashboard has, for   *)
(* as long as an agent serves them (Surfaces); what a tool of the browser   *)
(* answers is of the one page, in the tab that was activated (Tabs).        *)
WindowsAreTrue ==
  /\ FramedIsServed /\ ServedWhileNeeded /\ ListedAreThere
  /\ AnswersAgree /\ ActivationHolds
=============================================================================
