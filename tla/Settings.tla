------------------------------ MODULE Settings ------------------------------
(***************************************************************************)
(* The settings files - one per agent, one for the default - and the two   *)
(* that edit them: the page, whose requests are answered whenever they     *)
(* are, or never, and the terminal, which waits for each of its calls.      *)
(* Both go through the operations of config-ops, of which creating an agent *)
(* is three (look, read the default, write).  The commands that start a     *)
(* runtime or the dashboard write them too: they pin a token into the file  *)
(* of an agent that has none, and leave the rest of it.  A process that is  *)
(* killed while it writes leaves a file that is no JSON.  The runtime       *)
(* reads the files when it is restarted, and only then.                    *)
(***************************************************************************)
EXTENDS Naturals, FiniteSets

CONSTANTS
  Id,         \* ids of agents
  Default,    \* the default setting
  Nowhere,    \* no document
  MaxMark,    \* bound: the contents ever entered (numbered from Shipped + 1)
  MaxCall     \* bound: the calls ever made

ASSUME SettingsAssumption ==
  {MaxMark, MaxCall} \subseteq Nat \ {0} /\ {Default, Nowhere} \cap Id = {} /\ Default # Nowhere

Doc == Id \cup {Default}
Absent == 0
Shipped == 1

VARIABLES
  disk,         \* per document: what its file holds
  torn,         \* the documents whose file was cut short
  calls,        \* the calls under way
  made,         \* how many calls were made
  marks,        \* the last content entered
  page,         \* the page's copies: what it shows, unsaved edits included
  opened,       \* the page's editor: its document, or Nowhere
  dirty,        \* the page's editor says "unsaved changes"
  needsRestart, \* the page says so
  entry,        \* the terminal's editor: its document, the draft, whether it was edited
  restarting,   \* a restart was ordered, and the runtime has not read the files yet
  unapplied,    \* what the page was told is saved, and the runtime has not read (history)
  stored,       \* per document: what the last editor's call to end had written (history)
  raced,        \* the documents two calls were about at once (history)
  overwritten,  \* the documents a creation wrote over (history)
  muddled,      \* a save crossed a restart, or the page was loaded again (history)
  cancelled,    \* what was entered in the terminal and dropped (history)
  discarded     \* what was entered in the page and dropped (history)

evars == <<disk, torn, calls, made, marks, page, opened, dirty, needsRestart, entry, restarting,
           unapplied, stored, raced, overwritten, muddled, cancelled, discarded>>
told == <<unapplied, stored, raced, overwritten, muddled, cancelled, discarded>>

(* Why a call is made: on its own, to make a new agent, in the guided setup. *)
(* What a command does to pin a token is a call as well.                   *)
Call ==
  [n : 1..MaxCall, by : {"page", "terminal", "command"}, for : {"itself", "new", "setup"},
   does : {"put", "delete", "create", "pin", "get", "restart"}, doc : Doc \cup {Nowhere},
   body : 0..MaxMark, at : {"sent", "looked", "seeded", "landed", "failed"}, unread : BOOLEAN]

ETypeOK ==
  /\ disk \in [Doc -> 0..MaxMark] /\ page \in [Doc -> 0..MaxMark] /\ stored \in [Doc -> 0..MaxMark]
  /\ torn \subseteq Doc /\ calls \subseteq Call /\ made \in 0..MaxCall /\ marks \in 1..MaxMark
  /\ opened \in Doc \cup {Nowhere}
  /\ entry \in [doc : Doc \cup {Nowhere}, content : 0..MaxMark, own : BOOLEAN]
  /\ dirty \in BOOLEAN /\ needsRestart \in BOOLEAN /\ restarting \in BOOLEAN /\ muddled \in BOOLEAN
  /\ unapplied \subseteq Doc /\ raced \subseteq Doc /\ overwritten \subseteq Doc
  /\ cancelled \subseteq 1..MaxMark /\ discarded \subseteq 1..MaxMark

NoEntry == [doc |-> Nowhere, content |-> Absent, own |-> FALSE]

(* Where there is no default setting, the shipped one is read. *)
Read(d) == IF d = Default /\ disk[d] = Absent THEN Shipped ELSE disk[d]

EFresh ==
  /\ disk = [d \in Doc |-> Absent] /\ page = [d \in Doc |-> Read(d)] /\ stored = disk
  /\ torn = {} /\ calls = {}
  /\ opened = Nowhere /\ dirty = FALSE /\ needsRestart = FALSE /\ entry = NoEntry /\ restarting = FALSE
  /\ unapplied = {} /\ raced = {} /\ overwritten = {} /\ muddled = FALSE
  /\ cancelled = {} /\ discarded = {}

EInit == EFresh /\ made = 0 /\ marks = Shipped

CallsOf(who) == {c \in calls : c.by = who}
Changes(c) == c.does \in {"put", "delete", "create", "pin"}
Moved(c, at, body) == (calls \ {c}) \cup {[c EXCEPT !.at = at, !.body = body]}

(* What an editor's call has written, when it ends. *)
Ended(c) ==
  IF Changes(c) THEN [stored EXCEPT ![c.doc] = IF c.does = "delete" THEN Absent ELSE c.body] ELSE stored

(* A new call, in place of the one it follows from. *)
Placed(old, by, for, does, doc, body) ==
  /\ made < MaxCall
  /\ made' = made + 1
  /\ calls' = (calls \ old) \cup
       {[n |-> made + 1, by |-> by, for |-> for, does |-> does, doc |-> doc, body |-> body,
         at |-> "sent", unread |-> FALSE]}
  /\ raced' = raced \cup {d \in {doc} \cap Doc : \E c \in calls \ old : c.doc = d /\ Changes(c)}
  /\ muddled' = (muddled \/ (by = "page" /\ \E c \in CallsOf("page") \ old :
                                (does = "restart") # (c.does = "restart")))

----------------------------------------------------------------------------
(* config-ops, wherever it runs.                                           *)

(* Mutant of CreateLooks: the id may be in use. *)
CreateLooksNot(c) ==
  /\ c.does = "create" /\ c.at = "sent"
  /\ calls' = Moved(c, "looked", c.body)
  /\ UNCHANGED <<disk, torn, made, marks, page, opened, dirty, needsRestart, entry, restarting, told>>

CreateLooks(c) ==
  /\ c.does = "create" /\ c.at = "sent"
  /\ calls' = Moved(c, IF disk[c.doc] = Absent THEN "looked" ELSE "failed", c.body)
  /\ UNCHANGED <<disk, torn, made, marks, page, opened, dirty, needsRestart, entry, restarting, told>>

CreateSeeds(c) ==
  /\ c.at = "looked"
  /\ calls' = Moved(c, IF Default \in torn THEN "failed" ELSE "seeded", Read(Default))
  /\ UNCHANGED <<disk, torn, made, marks, page, opened, dirty, needsRestart, entry, restarting, told>>

WritesNext(c) ==
  (c.does = "create" /\ c.at = "seeded") \/ (c.does \in {"put", "delete", "pin"} /\ c.at = "sent")

WrittenOver(c) ==
  IF c.does = "create" /\ disk[c.doc] # Absent THEN overwritten \cup {c.doc} ELSE overwritten

(* A file is written, or removed. *)
Writes(c) ==
  /\ WritesNext(c)
  /\ disk' = [disk EXCEPT ![c.doc] = IF c.does = "delete" THEN Absent ELSE c.body]
  /\ torn' = torn \ {c.doc}
  /\ calls' = (calls \ {c}) \cup {[c EXCEPT !.at = "landed", !.unread = TRUE]}
  /\ overwritten' = WrittenOver(c)
  /\ UNCHANGED <<made, marks, page, opened, dirty, needsRestart, entry, restarting,
                 unapplied, stored, raced, muddled, cancelled, discarded>>

(* The process is killed while it writes: of the content a part is there.   *)
Tears(c) ==
  /\ WritesNext(c) /\ c.does # "delete"
  /\ disk' = [disk EXCEPT ![c.doc] = c.body]
  /\ torn' = torn \cup {c.doc}
  /\ calls' = Moved(c, "failed", c.body)
  /\ overwritten' = WrittenOver(c)
  /\ UNCHANGED <<made, marks, page, opened, dirty, needsRestart, entry, restarting,
                 unapplied, stored, raced, muddled, cancelled, discarded>>

Reads(c) ==
  /\ c.does = "get" /\ c.at = "sent"
  /\ calls' = Moved(c, IF Read(c.doc) = Absent \/ c.doc \in torn THEN "failed" ELSE "landed", Read(c.doc))
  /\ UNCHANGED <<disk, torn, made, marks, page, opened, dirty, needsRestart, entry, restarting, told>>

(* The server starts the restart command and answers at once.  (That        *)
(* command pins what it has to, see CommandPins.)                           *)
OrdersRestart(c) ==
  /\ c.does = "restart" /\ c.at = "sent"
  /\ calls' = Moved(c, "landed", c.body)
  /\ restarting' = TRUE
  /\ UNCHANGED <<disk, torn, made, marks, page, opened, dirty, needsRestart, entry, told>>

(* Mutant of Fails: the error is swallowed. *)
FailsSilently(c) ==
  /\ c.at = "sent"
  /\ calls' = Moved(c, "landed", c.body)
  /\ UNCHANGED <<disk, torn, made, marks, page, opened, dirty, needsRestart, entry, restarting, told>>

(* No such disk, no permission, no connection, before anything is written. *)
Fails(c) ==
  /\ c.at \in {"sent", "looked", "seeded"}
  /\ calls' = Moved(c, "failed", c.body)
  /\ UNCHANGED <<disk, torn, made, marks, page, opened, dirty, needsRestart, entry, restarting, told>>

(* It was done, and the connection is gone before the page hears of it.     *)
LosesAnswer(c) ==
  /\ c.by = "page" /\ c.at = "landed"
  /\ calls' = Moved(c, "failed", c.body)
  /\ stored' = Ended(c)
  /\ UNCHANGED <<disk, torn, made, marks, page, opened, dirty, needsRestart, entry, restarting,
                 unapplied, raced, overwritten, muddled, cancelled, discarded>>

RuntimeReads ==
  /\ restarting
  /\ restarting' = FALSE
  /\ unapplied' = {}
  /\ calls' = {[c EXCEPT !.unread = FALSE] : c \in calls}
  /\ UNCHANGED <<disk, torn, made, marks, page, opened, dirty, needsRestart, entry,
                 stored, raced, overwritten, muddled, cancelled, discarded>>

----------------------------------------------------------------------------
(* ensureSurfaceTokens, in a command: the file of an agent is read, and is   *)
(* written with a token in it; one that cannot be read is passed over.      *)

CommandPins(d) ==
  /\ disk[d] # Absent /\ d \notin torn
  /\ Placed({}, "command", "itself", "pin", d, disk[d])
  /\ UNCHANGED <<disk, torn, marks, page, opened, dirty, needsRestart, entry, restarting,
                 unapplied, stored, overwritten, cancelled, discarded>>

(* It goes on, whether the file could be written or not. *)
CommandEnds(c) ==
  /\ c.by = "command" /\ c.at \in {"landed", "failed"}
  /\ calls' = calls \ {c}
  /\ UNCHANGED <<disk, torn, made, marks, page, opened, dirty, needsRestart, entry, restarting, told>>

PinStep == (\E d \in Id : CommandPins(d)) \/ \E c \in calls : CommandEnds(c)

----------------------------------------------------------------------------
(* The page.                                                               *)

PageOpens(d) ==
  /\ page[d] # Absent
  /\ opened' = d
  /\ dirty' = FALSE
  /\ UNCHANGED <<disk, torn, calls, made, marks, page, needsRestart, entry, restarting, told>>

(* Every control writes into the page's own copy, at once. *)
PageEdits ==
  /\ opened # Nowhere
  /\ marks < MaxMark
  /\ marks' = marks + 1
  /\ page' = [page EXCEPT ![opened] = marks + 1]
  /\ dirty' = TRUE
  /\ UNCHANGED <<disk, torn, calls, made, opened, needsRestart, entry, restarting, told>>

(* "Discard" goes back to the list; what a save is under way with is not     *)
(* dropped by it.                                                          *)
PageDiscards ==
  /\ opened # Nowhere
  /\ opened' = Nowhere
  /\ dirty' = FALSE
  /\ discarded' = discarded \cup
       {m \in {page[opened]} : dirty /\ ~\E c \in CallsOf("page") : c.does = "put" /\ c.body = m}
  /\ UNCHANGED <<disk, torn, calls, made, marks, page, needsRestart, entry, restarting,
                 unapplied, stored, raced, overwritten, muddled, cancelled>>

Sending(old, for, does, doc, body) ==
  /\ Placed(old, "page", for, does, doc, body)
  /\ UNCHANGED <<disk, torn, entry, restarting, overwritten, cancelled, discarded>>

PageSaves ==
  /\ opened # Nowhere
  /\ Sending({}, "itself", "put", opened, page[opened])
  /\ UNCHANGED <<page, opened, dirty, needsRestart, marks, unapplied, stored>>

PageDeletes ==
  /\ opened \in Id
  /\ Sending({}, "itself", "delete", opened, Absent)
  /\ UNCHANGED <<page, opened, dirty, needsRestart, marks, unapplied, stored>>

(* A new agent, under an id the page has not; the guided setup takes any.   *)
PageCreates(d, for) ==
  /\ d \in Id
  /\ for = "new" => page[d] = Absent
  /\ Sending({}, for, "create", d, Absent)
  /\ UNCHANGED <<page, opened, dirty, needsRestart, marks, unapplied, stored>>

PageRestarts ==
  /\ needsRestart
  /\ ~\E c \in CallsOf("page") : c.does = "restart"
  /\ Sending({}, "itself", "restart", Nowhere, Absent)
  /\ UNCHANGED <<page, opened, dirty, needsRestart, marks, unapplied, stored>>

(* Mutant of Marks: what is deleted needs no restart. *)
MarksPut(c) == c.does \in {"put", "create"}
(* api(): every write that succeeds leaves the runtime behind. *)
Marks(c) == Changes(c)

Heard(c) ==
  /\ needsRestart' = (Marks(c) \/ (needsRestart /\ c.does # "restart"))
  /\ unapplied' = IF Changes(c) /\ c.unread THEN unapplied \cup {c.doc} ELSE unapplied
  /\ stored' = Ended(c)

(* The answer to a call that is the last of its kind. *)
PageHears(c) ==
  /\ c.by = "page" /\ c.at = "landed"
  /\ c.does \in {"delete", "restart", "put"}
  /\ calls' = calls \ {c}
  /\ Heard(c)
  /\ page' = IF c.does = "delete" THEN [page EXCEPT ![c.doc] = Absent]
             ELSE IF c.for = "itself" THEN page ELSE [page EXCEPT ![c.doc] = c.body]
  /\ opened' = IF c.does = "restart" THEN opened ELSE IF c.for = "new" THEN c.doc ELSE Nowhere
  /\ dirty' = (dirty /\ c.does = "restart")
  /\ UNCHANGED <<disk, torn, made, marks, entry, restarting, raced, overwritten, muddled, cancelled, discarded>>

(* A new agent was created: it is read back, what was chosen is laid over it *)
(* and written.  The guided setup writes what was chosen alone.            *)
PageGoesOn(c) ==
  /\ c.by = "page" /\ c.at = "landed"
  /\ c.does \in {"create", "get"}
  /\ Heard(c)
  /\ IF c.does = "create" /\ c.for = "new"
     THEN Sending({c}, c.for, "get", c.doc, Absent) /\ UNCHANGED marks
     ELSE /\ marks < MaxMark
          /\ marks' = marks + 1
          /\ Sending({c}, c.for, "put", c.doc, marks + 1)
  /\ UNCHANGED <<page, opened, dirty>>

(* An error is shown; nothing of what went before is taken back. *)
PageHearsError(c) ==
  /\ c.by = "page" /\ c.at = "failed"
  /\ calls' = calls \ {c}
  /\ UNCHANGED <<disk, torn, made, marks, page, opened, dirty, needsRestart, entry, restarting, told>>

(* The page is loaded again, and knows of no restart.  An agent that cannot  *)
(* be read is not shown; for a default that cannot, an empty form is (and    *)
(* is told apart from the shipped one no further).                         *)
PageLoadsAgain ==
  /\ CallsOf("page") = {}
  /\ page' = [d \in Doc |-> IF d \notin torn THEN Read(d) ELSE IF d = Default THEN Shipped ELSE Absent]
  /\ opened' = Nowhere
  /\ dirty' = FALSE
  /\ needsRestart' = FALSE
  /\ muddled' = (muddled \/ unapplied # {})
  /\ UNCHANGED <<disk, torn, calls, made, marks, entry, restarting,
                 unapplied, stored, raced, overwritten, cancelled, discarded>>

SettingsPage ==
  \/ PageEdits \/ PageDiscards \/ PageSaves \/ PageDeletes \/ PageRestarts \/ PageLoadsAgain
  \/ \E d \in Doc : PageOpens(d)
  \/ \E d \in Id : PageCreates(d, "new") \/ PageCreates(d, "setup")
  \/ \E c \in calls : PageHears(c) \/ PageGoesOn(c) \/ PageHearsError(c)

----------------------------------------------------------------------------
(* The terminal: one thing at a time.                                      *)

Idle == entry = NoEntry /\ CallsOf("terminal") = {}

TermOpens(d) ==
  /\ Idle
  /\ Read(d) # Absent /\ d \notin torn
  /\ entry' = [doc |-> d, content |-> Read(d), own |-> FALSE]
  /\ UNCHANGED <<disk, torn, calls, made, marks, page, opened, dirty, needsRestart, restarting, told>>

TermEdits ==
  /\ entry # NoEntry
  /\ marks < MaxMark
  /\ marks' = marks + 1
  /\ entry' = [entry EXCEPT !.content = marks + 1, !.own = TRUE]
  /\ cancelled' = cancelled \cup {c \in {entry.content} : entry.own}
  /\ UNCHANGED <<disk, torn, calls, made, page, opened, dirty, needsRestart, restarting,
                 unapplied, stored, raced, overwritten, muddled, discarded>>

TermCalls(old, for, does, doc, body) ==
  /\ Placed(old, "terminal", for, does, doc, body)
  /\ UNCHANGED <<disk, torn, page, opened, dirty, needsRestart, restarting, unapplied, overwritten, cancelled, discarded>>

TermSaves ==
  /\ entry # NoEntry
  /\ entry' = NoEntry
  /\ TermCalls({}, "itself", "put", entry.doc, entry.content)
  /\ UNCHANGED <<marks, stored>>

(* Mutant of TermDrops: leaving the editor saves it. *)
TermDropsSaving ==
  /\ entry # NoEntry
  /\ entry' = NoEntry
  /\ Placed({}, "terminal", "itself", "put", entry.doc, entry.content)
  /\ cancelled' = cancelled \cup {c \in {entry.content} : entry.own}
  /\ UNCHANGED <<disk, torn, marks, page, opened, dirty, needsRestart, restarting,
                 unapplied, stored, overwritten, discarded>>

(* Discard, or Ctrl+C: "unsaved edits are abandoned". *)
TermDrops ==
  /\ entry # NoEntry
  /\ entry' = NoEntry
  /\ cancelled' = cancelled \cup {c \in {entry.content} : entry.own}
  /\ UNCHANGED <<disk, torn, calls, made, marks, page, opened, dirty, needsRestart, restarting,
                 unapplied, stored, raced, overwritten, muddled, discarded>>

TermDeletes(d) ==
  /\ Idle
  /\ disk[d] # Absent
  /\ TermCalls({}, "itself", "delete", d, Absent)
  /\ UNCHANGED <<entry, marks, stored>>

TermCreates(d, for) ==
  /\ Idle
  /\ TermCalls({}, for, "create", d, Absent)
  /\ UNCHANGED <<entry, marks, stored>>

(* It hears of the end of its call.  The guided setup may be left here,     *)
(* with the agent created.                                                 *)
TermHears(c) ==
  /\ c.by = "terminal" /\ c.at \in {"landed", "failed"}
  /\ c.at = "landed" => c.does # "get"
  /\ calls' = calls \ {c}
  /\ stored' = IF c.at = "landed" THEN Ended(c) ELSE stored
  /\ UNCHANGED <<disk, torn, made, marks, page, opened, dirty, needsRestart, entry, restarting,
                 unapplied, raced, overwritten, muddled, cancelled, discarded>>

(* The guided setup goes on: the new agent is read, its persona and service *)
(* are set, and it is written.                                             *)
TermGoesOn(c) ==
  /\ c.by = "terminal" /\ c.at = "landed" /\ c.for = "setup"
  /\ \/ /\ c.does = "create"
        /\ stored' = [stored EXCEPT ![c.doc] = c.body]
        /\ TermCalls({c}, "setup", "get", c.doc, Absent)
        /\ UNCHANGED marks
     \/ /\ c.does = "get"
        /\ marks < MaxMark
        /\ marks' = marks + 1
        /\ TermCalls({c}, "setup", "put", c.doc, marks + 1)
        /\ UNCHANGED stored
  /\ UNCHANGED entry

SettingsTerminal ==
  \/ TermEdits \/ TermSaves \/ TermDrops
  \/ \E d \in Doc : TermOpens(d)
  \/ \E d \in Id : TermDeletes(d) \/ TermCreates(d, "itself") \/ TermCreates(d, "setup")
  \/ \E c \in calls : TermHears(c) \/ TermGoesOn(c)

OpsStep ==
  \/ RuntimeReads
  \/ \E c \in calls :
       \/ CreateLooks(c) \/ CreateSeeds(c) \/ Writes(c) \/ Tears(c) \/ Reads(c)
       \/ OrdersRestart(c) \/ Fails(c) \/ LosesAnswer(c)

ENext == OpsStep \/ PinStep \/ SettingsPage \/ SettingsTerminal

ESpec == EInit /\ [][ENext]_evars

----------------------------------------------------------------------------
(* Properties.                                                             *)

(* Creating an agent never replaces one that is there, unless another call  *)
(* about the same agent ran beside it.                                     *)
CreationKeeps == overwritten \subseteq raced

(* What an editor last wrote - and reported, or had no answer about - is      *)
(* what the file holds, also after a command has pinned a token into it,    *)
(* unless its writer was killed in the middle, or another call about it     *)
(* ran beside it.                                                          *)
StoredStands ==
  \A d \in Doc \ (raced \cup torn) :
    disk[d] = stored[d] \/ \E c \in calls : c.doc = d /\ c.at = "landed" /\ Changes(c)

(* As long as the runtime has not read what the page was told is saved, the *)
(* page says that a restart is needed, or one is on its way.               *)
RestartIsOffered == ~muddled /\ unapplied # {} => needsRestart \/ restarting

(* "Unsaved edits are abandoned" (pages.ts): what was entered in the        *)
(* terminal and dropped is in no file.                                     *)
CancelledStaysOut == \A d \in Doc : disk[d] \notin cancelled

(* The same, of the page's Discard.                                        *)
DiscardedStaysOut == \A d \in Doc : disk[d] \notin discarded
=============================================================================
