------------------------------- MODULE Loader -------------------------------
(***************************************************************************)
(* The plugin loader of one agent: which plugins come up, in which order,  *)
(* and how they come down.                                                 *)
(*                                                                         *)
(* The plugins are imported in the order of their declaration, those that  *)
(* fail left out; then the loader sweeps: it sets up the earliest pending  *)
(* plugin whose requirements are met now, which may meet those of others,  *)
(* and leaves the first pending one out when no plugin can go on.  A setup *)
(* registers what it registers one surface at a time and may throw in      *)
(* between; what it has registered by then is undone.                      *)
(*                                                                         *)
(* A surface is an action of the bus or a block of the prompt.  Listeners  *)
(* are undone like actions and cannot clash: they are left out, as are the *)
(* data directory of a plugin, capabilities (`provides' names only actions *)
(* here, which are looked for on the bus) and the plugins that only an     *)
(* agent's own folder declares, which come last.                           *)
(***************************************************************************)
EXTENDS Integers, SequencesExt

CONSTANTS
  Plugin,       \* plugin ids
  Action,       \* action names (requirements with a dot)
  Block,        \* context block ids
  Nobody,       \* the owner of a surface that is not there
  Definition    \* the agent definitions, with what their plugins turn out to do

ASSUME NobodyAssumption == Nobody \notin Plugin
ASSUME NamesAssumption ==
  /\ Plugin \cap Action = {} /\ Block \cap Action = {} /\ Plugin \cap Block = {}

Surface == Action \cup Block

ASSUME DefinitionAssumption ==
  \A d \in Definition :
    /\ d.plugins \in Seq(Plugin) /\ d.privatePlugins \in Seq(Plugin)
    /\ \A p \in Plugin :
         /\ d.traits[p].requires \subseteq Plugin \cup Action
         /\ d.traits[p].surfaces \in Seq(Surface)
         /\ d.traits[p].throws \in BOOLEAN
         /\ d.traits[p].code \in {"fine", "broken", "missing", "misnamed"}

VARIABLES
  def,          \* the definition of the agent
  phase,        \* how far load(), then teardown(), has come
  unread,       \* plugins not yet imported, in load order
  available,    \* ids that were imported
  pending,      \* plugins not yet set up, in load order
  current,      \* the plugin whose setup() runs, or Nobody
  registered,   \* what that setup has registered so far
  owner,        \* per surface: whose handler or block it is
  loaded,       \* plugins that are up, in the order they came up
  skipped       \* per plugin: why it was left out

lvars == <<def, phase, unread, available, pending, current, registered, owner,
           loaded, skipped>>

Traits(p) == def.traits[p]

(* Types; and a plugin that failed takes no action away from one that is   *)
(* up, though it failed because both want the same name.                   *)
LTypeOK ==
  /\ def \in Definition
  /\ phase \in {"resolve", "import", "sweep", "up", "rejected", "teardown", "down"}
  /\ unread \in Seq(Plugin) /\ pending \in Seq(Plugin) /\ loaded \in Seq(Plugin)
  /\ IsInjective(unread) /\ IsInjective(loaded \o pending)
  /\ available \subseteq Plugin
  /\ current \in Plugin \cup {Nobody}
  /\ registered \in Seq(Surface)
  /\ owner \in [Surface -> Plugin \cup {Nobody}]
  /\ skipped \in [Plugin -> {"no", "import", "unmet", "setup"}]
  /\ \A p \in ToSet(loaded) : \A a \in Action \cap ToSet(Traits(p).surfaces) : owner[a] = p

LInit ==
  /\ def \in Definition
  /\ phase = "resolve"
  /\ unread = <<>> /\ pending = <<>> /\ loaded = <<>>
  /\ available = {}
  /\ current = Nobody /\ registered = <<>>
  /\ owner = [s \in Surface |-> Nobody]
  /\ skipped = [p \in Plugin |-> "no"]

----------------------------------------------------------------------------
(* Pass 1: resolve and import.                                             *)

FirstOccurrences(s) ==
  LET first == {i \in DOMAIN s : \A j \in 1..(i - 1) : s[j] # s[i]} IN
  [k \in 1..Cardinality(first) |->
     s[CHOOSE i \in first : Cardinality({j \in first : j <= i}) = k]]

(* The declared plugins, then the independents declared nowhere else. *)
LoadOrder == FirstOccurrences(def.plugins \o def.privatePlugins)

(* A name that is no plain id, or an independent that is not there, fails   *)
(* the agent before any import.                                            *)
Resolve ==
  /\ phase = "resolve"
  /\ IF \/ \E p \in ToSet(LoadOrder) : Traits(p).code = "misnamed"
        \/ \E p \in ToSet(def.privatePlugins) : Traits(p).code = "missing"
     THEN phase' = "rejected" /\ UNCHANGED unread
     ELSE phase' = "import" /\ unread' = LoadOrder
  /\ UNCHANGED <<def, available, pending, current, registered, owner, loaded, skipped>>

(* The next plugin is imported, or left out when that fails. *)
Import ==
  /\ phase = "import"
  /\ unread # <<>>
  /\ unread' = Tail(unread)
  /\ LET p == Head(unread) IN
       IF Traits(p).code = "fine"
       THEN /\ pending' = Append(pending, p)
            /\ available' = available \cup {p}
            /\ UNCHANGED skipped
       ELSE /\ skipped' = [skipped EXCEPT ![p] = "import"]
            /\ UNCHANGED <<pending, available>>
  /\ UNCHANGED <<def, phase, current, registered, owner, loaded>>

BeginSweep ==
  /\ phase = "import"
  /\ unread = <<>>
  /\ phase' = "sweep"
  /\ UNCHANGED <<def, unread, available, pending, current, registered, owner, loaded, skipped>>

----------------------------------------------------------------------------
(* Pass 2: set up.                                                         *)

(* Mutant of IsMet: an imported provider is as good as its action. *)
IsMetByPromise(req) ==
  \/ req \in Action /\ \E p \in available : req \in ToSet(Traits(p).surfaces)
  \/ req \in available

(* An action must be on the bus now, an id among the imported plugins. *)
IsMet(req) == IF req \in Action THEN owner[req] # Nobody ELSE req \in available

Ready(p) == \A req \in Traits(p).requires : IsMet(req)

Sweeping == phase = "sweep" /\ current = Nobody

(* The earliest pending plugin that is ready has its setup() called. *)
BeginSetup ==
  /\ Sweeping
  /\ \E i \in DOMAIN pending :
       /\ Ready(pending[i])
       /\ \A j \in 1..(i - 1) : ~Ready(pending[j])
       /\ current' = pending[i]
       /\ pending' = RemoveAt(pending, i)
  /\ registered' = <<>>
  /\ UNCHANGED <<def, phase, unread, available, owner, loaded, skipped>>

(* Mutants of SkipFirst: whoever is not ready in its turn is left out; the   *)
(* plugin that is left out stays pending.                                  *)
SkipInOrder ==
  /\ Sweeping
  /\ pending # <<>>
  /\ ~Ready(Head(pending))
  /\ skipped' = [skipped EXCEPT ![Head(pending)] = "unmet"]
  /\ pending' = Tail(pending)
  /\ UNCHANGED <<def, phase, unread, available, current, registered, owner, loaded>>

SkipAgain ==
  /\ Sweeping
  /\ pending # <<>>
  /\ \A i \in DOMAIN pending : ~Ready(pending[i])
  /\ skipped' = [skipped EXCEPT ![Head(pending)] = "unmet"]
  /\ UNCHANGED <<def, phase, unread, available, pending, current, registered, owner, loaded>>

(* No pending plugin is ready: the first of them is left out. *)
SkipFirst ==
  /\ Sweeping
  /\ pending # <<>>
  /\ \A i \in DOMAIN pending : ~Ready(pending[i])
  /\ skipped' = [skipped EXCEPT ![Head(pending)] = "unmet"]
  /\ pending' = Tail(pending)
  /\ UNCHANGED <<def, phase, unread, available, current, registered, owner, loaded>>

(* The surface the running setup registers next. *)
NextSurface == Traits(current).surfaces[Len(registered) + 1]
Clashes == NextSurface \in Action /\ owner[NextSurface] # Nobody
Finished == Len(registered) = Len(Traits(current).surfaces)

(* setup() registers an action nobody has, or sets a block. *)
Register ==
  /\ current # Nobody
  /\ ~Finished
  /\ ~Clashes
  /\ owner' = [owner EXCEPT ![NextSurface] = current]
  /\ registered' = Append(registered, NextSurface)
  /\ UNCHANGED <<def, phase, unread, available, pending, current, loaded, skipped>>

SetupSucceeds ==
  /\ current # Nobody
  /\ Finished /\ ~Traits(current).throws
  /\ loaded' = Append(loaded, current)
  /\ current' = Nobody
  /\ UNCHANGED <<def, phase, unread, available, pending, registered, owner, skipped>>

(* Mutants of Undo: nothing is undone; everything it would register is.    *)
UndoNothing == UNCHANGED owner
UndoByName ==
  owner' = [s \in Surface |-> IF s \in ToSet(Traits(current).surfaces) THEN Nobody ELSE owner[s]]

(* The tracked registrations of the failed plugin are taken back. *)
Undo ==
  owner' = [s \in Surface |-> IF s \in ToSet(registered) THEN Nobody ELSE owner[s]]

(* setup() throws, of its own or because an action is already registered. *)
SetupFails ==
  /\ current # Nobody
  /\ IF Finished THEN Traits(current).throws ELSE Clashes
  /\ Undo
  /\ skipped' = [skipped EXCEPT ![current] = "setup"]
  /\ current' = Nobody
  /\ UNCHANGED <<def, phase, unread, available, pending, registered, loaded>>

LoadDone ==
  /\ Sweeping
  /\ pending = <<>>
  /\ phase' = "up"
  /\ UNCHANGED <<def, unread, available, pending, current, registered, owner, loaded, skipped>>

----------------------------------------------------------------------------
(* Teardown.                                                               *)

BeginTeardown ==
  /\ phase = "up"
  /\ phase' = "teardown"
  /\ UNCHANGED <<def, unread, available, pending, current, registered, owner, loaded, skipped>>

(* Mutant of TearDownNext: in load order. *)
TearDownFirst ==
  /\ phase = "teardown"
  /\ loaded # <<>>
  /\ loaded' = Tail(loaded)
  /\ owner' = [s \in Surface |-> IF owner[s] = Head(loaded) THEN Nobody ELSE owner[s]]
  /\ UNCHANGED <<def, phase, unread, available, pending, current, registered, skipped>>

(* The plugin that came up last releases what it has; when its teardown()  *)
(* throws the loader goes on all the same.                                 *)
TearDownNext ==
  /\ phase = "teardown"
  /\ loaded # <<>>
  /\ loaded' = Front(loaded)
  /\ owner' \in {owner, [s \in Surface |-> IF owner[s] = Last(loaded) THEN Nobody ELSE owner[s]]}
  /\ UNCHANGED <<def, phase, unread, available, pending, current, registered, skipped>>

TeardownDone ==
  /\ phase = "teardown"
  /\ loaded = <<>>
  /\ phase' = "down"
  /\ UNCHANGED <<def, unread, available, pending, current, registered, owner, loaded, skipped>>

Loading ==
  \/ Resolve \/ Import \/ BeginSweep
  \/ BeginSetup \/ SkipFirst \/ Register \/ SetupSucceeds \/ SetupFails \/ LoadDone
Unloading == TearDownNext \/ TeardownDone

LNext == Loading \/ BeginTeardown \/ Unloading

(* Fairness: imports, setups and teardowns return. *)
LFairness == WF_lvars(Loading) /\ WF_lvars(Unloading)

LSpec == LInit /\ [][LNext]_lvars /\ LFairness

----------------------------------------------------------------------------
(* Properties.                                                             *)

Up == ToSet(loaded)

(* "UNDO exactly that plugin's side-effects before the sweep continues":    *)
(* until teardown, what is registered belongs to a plugin that is up, or   *)
(* to the one coming up; nothing half-initialised is left behind.          *)
NoLeak ==
  phase \in {"sweep", "up"} =>
    \A s \in Surface : owner[s] \in Up \cup {current, Nobody}

(* What a plugin requires outlives it: while it is up, in the sweep and in  *)
(* the teardown "in reverse load order", every action it requires belongs  *)
(* to a plugin that came up before it.                                     *)
ProvidersOutlive ==
  \A j \in DOMAIN loaded : \A a \in Action \cap Traits(loaded[j]).requires :
    \E i \in 1..(j - 1) : owner[a] = loaded[i]

(* A plugin is left out for an unmet requirement only if no order of setup *)
(* would have met it: something it requires is missing when all is done.   *)
SkippedForCause ==
  phase = "up" => \A p \in Plugin : skipped[p] = "unmet" => ~Ready(p)

(* Every load comes to an end, whatever fails, with each plugin either up   *)
(* or left out.                                                            *)
LoadEnds ==
  phase = "resolve" ~>
    \/ phase = "rejected"
    \/ phase = "up" /\ \A p \in ToSet(LoadOrder) : p \in Up <=> skipped[p] = "no"
=============================================================================
