------------------------------ MODULE MCStores ------------------------------
(***************************************************************************)
(* The files an agent leaves behind, each a subject of its own: they share *)
(* nothing but the agent.  The others rest while one is looked at.  The    *)
(* subject "shown" is what the agent is shown of any small notebook and    *)
(* any small trail.                                                        *)
(***************************************************************************)
EXTENDS TranscriptStore, Journal, Logbook, Memory, InspectorPage, LogFetch

VARIABLE subject
storesVars == <<subject, svars, jvars, bvars, mvars, ivars, fetchVars>>

Caps == {1, 2}
Sizes == {1, 2}
BudgetsChecked == 1..18

Subjects == {"chat", "journal", "logbook", "memory", "shown", "inspector", "fetch"}

(* Up to three notes, of two kinds and two lengths, of equal importance    *)
(* or not; up to three entries.                                            *)
ShownNotes ==
  UNION {[1..n -> {"goal", "thought"} \X Sizes \X {2, 3}] : n \in 0..3}
AnyNotes ==
  \E choice \in ShownNotes :
    /\ notes = [i \in DOMAIN choice |-> [n |-> i, kind |-> choice[i][1], size |-> choice[i][2],
                                         importance |-> choice[i][3]]]
    /\ counter = Len(choice)
AnyEntries ==
  \E sizes \in UNION {[1..n -> Sizes] : n \in 0..3} :
    /\ entries = [i \in DOMAIN sizes |-> [id |-> i, size |-> sizes[i]]]
    /\ entryCount = Len(sizes)

(* The page, with two picks and a restart, with one and two requests, and   *)
(* so on: what is left of each count.                                      *)
Scenarios == {<<1, 2, 0, 1>>, <<2, 1, 1, 0>>, <<0, 1, 2, 0>>, <<1, 3, 0, 0>>}
AnyScenario ==
  \E used \in Scenarios :
    Counted(MaxCaptured - used[1], MaxPicks - used[2], MaxAsked - used[3], MaxUpsets - used[4])

(* What these ask of the constants.                                        *)
ASSUME ScenariosAssumption ==
  /\ 2 \in NotebookCaps /\ {2, 3} \subseteq Importances /\ 2 \in NoteSizes
  /\ MaxNoteId >= 3 /\ MaxEntryId >= 3 /\ MaxMStarts >= 1
  /\ MaxCaptured >= 2 /\ MaxPicks >= 3 /\ MaxAsked >= 2 /\ MaxUpsets >= 1

(* The agent's memory with something of old: a note and an entry, a note    *)
(* that has been forgotten, or two entries.                                *)
SomeMemory ==
  /\ cap \in NotebookCaps /\ notesWaiting = <<>> /\ memoryUp = TRUE
  /\ entries = <<>> /\ entryCount = 0 /\ trailWaiting = <<>> /\ historyUp = FALSE
  /\ batchLost = FALSE /\ unwritten = {} /\ mstarts = 1
  /\ \/ /\ notes = <<[n |-> 1, kind |-> "thought", size |-> 2, importance |-> 3]>>
        /\ counter = 1 /\ trailFile = <<[id |-> 1, size |-> 2]>>
     \/ notes = <<>> /\ counter = 1 /\ trailFile = <<>>
     \/ notes = <<>> /\ counter = 0 /\ trailFile = <<[id |-> 1, size |-> 2], [id |-> 2, size |-> 2]>>
  /\ notesFile = notes

(* A few events and a fetch; or more fetches, of an old logbook.           *)
AnyLogbook ==
  \/ FetchInit
  \/ /\ activity = [i \in 1..Remembered |-> [at |-> 0, type |-> "clock.tick", ok |-> <<>>, level |-> <<>>]]
     /\ fetched = NoFetch /\ outcomes = <<>> /\ left = [events |-> 0, fetches |-> 3]

Init ==
  /\ subject \in Subjects
  /\ IInit
  /\ IF subject = "inspector" THEN AnyScenario ELSE mode = "live" /\ Counted(0, 0, 0, 0)
  /\ SInit /\ JInit /\ BInit 
  /\ IF subject = "fetch" THEN AnyLogbook ELSE FetchInit
  /\ IF subject = "shown"
     THEN /\ (AnyNotes /\ entries = <<>> /\ entryCount = 0)
             \/ (AnyEntries /\ notes = <<>> /\ counter = 0)
          /\ cap = 2 /\ notesWaiting = <<>> /\ notesFile = notes /\ memoryUp = FALSE
          /\ trailWaiting = <<>> /\ trailFile = entries /\ historyUp = FALSE
          /\ batchLost = FALSE /\ unwritten = {} /\ mstarts = 1
     ELSE IF subject = "memory" THEN SomeMemory ELSE MInit /\ cap = 2

Next ==
  \/ subject = "chat" /\ SNext /\ UNCHANGED <<subject, jvars, bvars, mvars, ivars, fetchVars>>
  \/ subject = "journal" /\ JNext /\ UNCHANGED <<subject, svars, bvars, mvars, ivars, fetchVars>>
  \/ subject = "logbook" /\ BNext /\ UNCHANGED <<subject, svars, jvars, mvars, ivars, fetchVars>>
  \/ subject = "memory" /\ MNext /\ UNCHANGED <<subject, svars, jvars, bvars, ivars, fetchVars>>
  \/ subject = "inspector" /\ INext /\ UNCHANGED <<subject, svars, jvars, bvars, mvars, fetchVars>>
  \/ subject = "fetch" /\ FetchNext /\ UNCHANGED <<subject, svars, jvars, bvars, mvars, ivars>>

Spec == Init /\ [][Next]_storesVars

(* One type invariant for the five; of those at rest there is nothing to    *)
(* be seen.                                                                *)
TypeOK ==
  CASE subject = "chat"      -> STypeOK
    [] subject = "journal"   -> JTypeOK
    [] subject = "logbook"   -> KTypeOK
    [] subject = "inspector" -> ITypeOK
    [] subject = "fetch"     -> FetchTypeOK
    [] OTHER                 -> MTypeOK

(* What is replayed: each file that lines are appended to, once all is      *)
(* written, gives a restart what memory shows - the chat's window, the      *)
(* dashboard's buffer, the logbook's newest records - as far as nothing was *)
(* lost.                                                                   *)
FilesReplay == ReplayGivesWindow /\ JournalReplays /\ LogbookKeeps

(* What is to be kept is kept, and no more: the files of the notebook and   *)
(* the trail hold what memory holds, a batch evicted from the trail is in   *)
(* the notebook, and the journal's file stays small.                       *)
StoresKeep == FilesHoldMemory /\ NoBatchIsLost /\ JournalStaysSmall

(* What is shown fits its budget: the blocks of the small ones, and what   *)
(* was fetched.                                                            *)
ShownInBudget == (subject = "shown" => ShownFits) /\ FetchesFit

(* What is important outlives what is not: a receipt the entries after it,  *)
(* a note the less important ones.                                         *)
ImportantStays == ReceiptsStay /\ KeepsImportant

(* No id and no number of a record stands for two things, over restarts    *)
(* after whatever loss: of messages, and of the journal's records.         *)
IdsStandForOne == UniqueIds /\ JournalAscends

(* What the inspector's page shows (InspectorPage), and what the agent finds *)
(* in its logbook (LogFetch), is what was recorded.                        *)
LookedUpIsTrue == RecordsAreOwn /\ QueryFinds /\ PanelsCatchUp /\ FetchFinds
=============================================================================
