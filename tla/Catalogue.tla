----------------------------- MODULE Catalogue -----------------------------
(***************************************************************************)
(* llm.json and its two editors.  The page loads the catalogue once, when  *)
(* it is opened, and each of its saves sends the WHOLE catalogue as the     *)
(* page knows it; the terminal reads the file when a menu is opened and    *)
(* writes it whole at its end.  Neither looks whether the file is still    *)
(* the one it read.  What the page keeps of a save is not what it sent: it  *)
(* keeps the form's own object, with what was typed into it meanwhile.      *)
(***************************************************************************)
EXTENDS Naturals, FiniteSets

CONSTANTS
  Service,    \* names of services
  None,       \* no service
  MaxEdit,    \* bound: the definitions ever entered (numbered from 1)
  MaxPut      \* bound: the page's requests at once

ASSUME CatalogueAssumption == {MaxEdit, MaxPut} \subseteq Nat /\ None \notin Service

VARIABLES
  llm,        \* the file: its services, the default, whether it can be parsed
  view,       \* the page: services and default
  editor,     \* the page: the service editor that is open, or Closed
  puts,       \* the page: its requests, each a whole catalogue
  prompt,     \* the terminal: the catalogue that its menu read, or Closed
  edits,      \* how many definitions were entered
  promised,   \* per service: what the last "Saved" about it said (history)
  typed,      \* per service: what was typed into its form after it was sent (history)
  behind,     \* who has not read what the other has written since (history)
  outrun,     \* somebody wrote while behind, or before an answer (history)
  looseRename \* the default was renamed and at once made no default (history)

cvars == <<llm, view, editor, puts, prompt, edits, promised, typed, behind, outrun, looseRename>>

Closed == <<>>
NoDefinition == 0

Catalogues == [services : [Service -> 0..MaxEdit], default : Service \cup {None}]
Empty == [services |-> [n \in Service |-> NoDefinition], default |-> None]
Content == [services |-> llm.services, default |-> llm.default]
File_(cfg) == [services |-> cfg.services, default |-> cfg.default, readable |-> TRUE]
(* The process that wrote it was killed before the end: it is no JSON. *)
CutShort(cfg) == [File_(cfg) EXCEPT !.readable = FALSE]

CTypeOK ==
  /\ Content \in Catalogues /\ llm.readable \in BOOLEAN
  /\ view \in Catalogues
  /\ editor = Closed \/ (editor.name \in Service \cup {None} /\ editor.as \in Service \cup {None})
  /\ \A p \in puts :
       {p.cfg, p.keeps} \subseteq Catalogues /\ p.form \in BOOLEAN /\ p.stage \in {"sent", "landed", "failed"}
  /\ prompt = Closed \/ prompt \in Catalogues
  /\ edits \in 0..MaxEdit
  /\ promised \in [Service -> 0..MaxEdit] /\ typed \in [Service -> 0..MaxEdit]
  /\ behind \subseteq {"page", "terminal"} /\ outrun \in BOOLEAN /\ looseRename \in BOOLEAN

(* At first there is no service yet, or each has been defined. *)
CInit ==
  /\ edits \in {e \in 0..1 : e <= MaxEdit}
  /\ view = [Empty EXCEPT !.services = [n \in Service |-> edits]]
  /\ llm = File_(view) /\ promised = view.services /\ typed = Empty.services
  /\ editor = Closed /\ puts = {} /\ prompt = Closed
  /\ behind = {} /\ outrun = FALSE /\ looseRename = FALSE

(* What is recorded of the past.  Once somebody was outrun nothing is       *)
(* claimed of what was saved, and no record of it is kept.                 *)
Recorded(out, promises, typing, late) ==
  /\ outrun' = out
  /\ promised' = IF out THEN Empty.services ELSE promises
  /\ typed' = IF out THEN Empty.services ELSE typing
  /\ behind' = IF out THEN {} ELSE late

Has(cfg, n) == cfg.services[n] # NoDefinition

With(cfg, n, definition) == [cfg EXCEPT !.services[n] = definition]

(* Mutant of Without_: the default may be left pointing at what is gone. *)
WithoutOnly(cfg, n) == [cfg EXCEPT !.services[n] = NoDefinition]
(* Deleting the default leaves none. *)
Without_(cfg, n) ==
  [cfg EXCEPT !.services[n] = NoDefinition, !.default = IF @ = n THEN None ELSE @]

----------------------------------------------------------------------------
(* The page.                                                               *)

(* The editor is left: nothing can be typed any more into the form of a     *)
(* save that is under way.                                                 *)
Left(requests) == {[p EXCEPT !.form = FALSE] : p \in requests}

(* It is opened or loaded again: a file it cannot read leaves it empty.     *)
PageLoads ==
  /\ puts = {}
  /\ view' = IF llm.readable THEN Content ELSE Empty
  /\ editor' = Closed
  /\ Recorded(outrun, promised, typed, IF llm.readable THEN behind \ {"page"} ELSE behind \cup {"page"})
  /\ UNCHANGED <<llm, puts, prompt, edits, looseRename>>

OpenEditor(n) ==
  /\ n # None => Has(view, n)
  /\ editor' = [name |-> n, as |-> n, isDefault |-> n # None /\ view.default = n,
                definition |-> IF n = None THEN NoDefinition ELSE view.services[n]]
  /\ puts' = Left(puts)
  /\ UNCHANGED <<llm, view, prompt, edits, promised, typed, behind, outrun, looseRename>>

(* Its fields: a copy is worked on, under a name that can be changed.  The  *)
(* copy of a form that was saved is also in what the page will keep.       *)
TypedInto(p, definition) ==
  [p EXCEPT !.keeps.services =
     [n \in Service |-> IF p.form /\ n \in p.stored THEN definition ELSE @[n]]]

Fill(as, isDefault) ==
  /\ editor # Closed
  /\ edits < MaxEdit
  /\ edits' = edits + 1
  /\ editor' = [editor EXCEPT !.as = as, !.isDefault = isDefault, !.definition = edits + 1]
  /\ puts' = {TypedInto(p, edits + 1) : p \in puts}
  /\ UNCHANGED <<llm, view, prompt, promised, typed, behind, outrun, looseRename>>

Cancel ==
  /\ editor # Closed
  /\ editor' = Closed
  /\ puts' = Left(puts)
  /\ UNCHANGED <<llm, view, prompt, edits, promised, typed, behind, outrun, looseRename>>

Send(cfg, stored, removed, closes) ==
  /\ Cardinality(puts) < MaxPut
  /\ puts' = puts \cup
       {[cfg |-> cfg, keeps |-> cfg, form |-> closes, stage |-> "sent",
         stored |-> stored, removed |-> removed, closes |-> closes]}
  /\ Recorded(outrun \/ "page" \in behind \/ puts # {}, promised, typed, behind)
  /\ UNCHANGED <<llm, view, editor, prompt>>

(* Mutant of Edited: a renamed service stays under its old name too. *)
EditedKeepsOld(cfg, e) ==
  LET stored == With(cfg, e.as, e.definition) IN
  [stored EXCEPT !.default = IF e.isDefault THEN e.as ELSE IF @ = e.as THEN None ELSE @]

(* What a save makes of the catalogue: a renamed default that is switched   *)
(* off in the same edit stays behind as the default.                       *)
Edited(cfg, e) ==
  LET moved == IF e.name \notin {None, e.as} THEN WithoutOnly(cfg, e.name) ELSE cfg
      stored == With(moved, e.as, e.definition)
  IN [stored EXCEPT !.default = IF e.isDefault THEN e.as ELSE IF @ = e.as THEN None ELSE @]

SaveService ==
  /\ editor # Closed
  /\ editor.as # None
  /\ editor.definition # NoDefinition
  /\ Has(view, editor.as) => editor.as = editor.name
  /\ LET renamed == editor.name \notin {None, editor.as} IN
     /\ Send(Edited(view, editor), {editor.as}, {n \in Service : renamed /\ n = editor.name}, TRUE)
     /\ looseRename' = (looseRename \/ (renamed /\ view.default = editor.name /\ ~editor.isDefault))
  /\ UNCHANGED edits

DeleteService ==
  /\ editor # Closed
  /\ editor.name # None
  /\ Send(Without_(view, editor.name), {}, {editor.name}, TRUE)
  /\ UNCHANGED <<edits, looseRename>>

(* The first step of the guided setup: it takes any name, in use or not.    *)
SetUpService(n) ==
  /\ editor = Closed
  /\ edits < MaxEdit
  /\ edits' = edits + 1
  /\ Send(With(view, n, edits + 1), {n}, {}, FALSE)
  /\ UNCHANGED looseRename

(* The server writes what it is sent, or cannot. *)
Land(p) ==
  /\ p.stage = "sent"
  /\ llm' = File_(p.cfg)
  /\ puts' = (puts \ {p}) \cup {[p EXCEPT !.stage = "landed"]}
  /\ Recorded(outrun, promised, typed, IF prompt = Closed THEN behind ELSE behind \cup {"terminal"})
  /\ UNCHANGED <<view, editor, prompt, edits, looseRename>>

(* The server is killed while it writes: the file is cut short, and the page *)
(* gets no answer.                                                         *)
LandCutShort(p) ==
  /\ p.stage = "sent"
  /\ llm' = CutShort(p.cfg)
  /\ puts' = (puts \ {p}) \cup {[p EXCEPT !.stage = "failed"]}
  /\ Recorded(TRUE, promised, typed, behind)
  /\ UNCHANGED <<view, editor, prompt, edits, looseRename>>

FailToLand(p) ==
  /\ p.stage = "sent"
  /\ puts' = (puts \ {p}) \cup {[p EXCEPT !.stage = "failed"]}
  /\ UNCHANGED <<llm, view, editor, prompt, edits, promised, typed, behind, outrun, looseRename>>

Promised(p) ==
  [n \in Service |-> IF n \in p.removed THEN NoDefinition
                     ELSE IF n \in p.stored THEN p.cfg.services[n] ELSE promised[n]]

(* What was typed into a form after it was sent is in the page's catalogue  *)
(* now, though nobody saved it.                                            *)
TypedSince(p) ==
  [n \in Service |-> IF n \in p.removed \/ (n \in p.stored /\ p.keeps.services[n] = p.cfg.services[n])
                     THEN NoDefinition
                     ELSE IF n \in p.stored THEN p.keeps.services[n] ELSE typed[n]]

(* "Saved": what was sent is the page's catalogue now, but for what was     *)
(* typed since.  The page goes to its list, from whatever editor is open    *)
(* by then.                                                                *)
Answered(p) ==
  /\ p.stage = "landed"
  /\ view' = p.keeps
  /\ IF p.closes THEN editor' = Closed /\ puts' = Left(puts \ {p})
     ELSE editor' = editor /\ puts' = puts \ {p}
  /\ Recorded(outrun, Promised(p), TypedSince(p), behind)
  /\ UNCHANGED <<llm, prompt, edits, looseRename>>

(* An error, or no answer at all though it was written: the page does not   *)
(* know.                                                                   *)
Unanswered(p) ==
  /\ p.stage # "sent"
  /\ puts' = puts \ {p}
  /\ Recorded(outrun \/ p.stage = "landed", promised, typed, behind)
  /\ UNCHANGED <<llm, view, editor, prompt, edits, looseRename>>

CataloguePage ==
  \/ PageLoads \/ Cancel \/ SaveService \/ DeleteService
  \/ \E n \in Service \cup {None} : OpenEditor(n)
  \/ \E n \in Service : SetUpService(n) \/ \E isDefault \in BOOLEAN : Fill(n, isDefault)
  \/ \E p \in puts : Land(p) \/ LandCutShort(p) \/ FailToLand(p) \/ Answered(p) \/ Unanswered(p)

----------------------------------------------------------------------------
(* The terminal.                                                           *)

(* Mutant of PromptOpens: what cannot be parsed counts as nothing. *)
PromptOpensAnyway ==
  /\ prompt = Closed
  /\ prompt' = IF llm.readable THEN Content ELSE Empty
  /\ behind' = behind \ {"terminal"}
  /\ UNCHANGED <<llm, view, editor, puts, edits, promised, typed, outrun, looseRename>>

(* "A corrupt catalogue may hold API keys": it is not even shown. *)
PromptOpens ==
  /\ prompt = Closed
  /\ llm.readable
  /\ prompt' = Content
  /\ behind' = behind \ {"terminal"}
  /\ UNCHANGED <<llm, view, editor, puts, edits, promised, typed, outrun, looseRename>>

(* The whole file is written, unless the terminal is killed meanwhile. *)
PromptWrites(cfg, n, definition, whole) ==
  /\ llm' = IF whole THEN File_(cfg) ELSE CutShort(cfg)
  /\ prompt' = Closed
  /\ Recorded(outrun \/ "terminal" \in behind \/ puts # {} \/ ~whole, [promised EXCEPT ![n] = definition],
              [typed EXCEPT ![n] = NoDefinition], behind \cup {"page"})
  /\ UNCHANGED <<view, editor, puts, looseRename>>

(* A service is edited, added, or made in the guided setup. *)
PromptSaves(n, whole) ==
  /\ prompt # Closed
  /\ edits < MaxEdit
  /\ edits' = edits + 1
  /\ PromptWrites(With(prompt, n, edits + 1), n, edits + 1, whole)

PromptDeletes(n, whole) ==
  /\ prompt # Closed
  /\ Has(prompt, n)
  /\ PromptWrites(Without_(prompt, n), n, NoDefinition, whole)
  /\ UNCHANGED edits

(* Back, Cancel, Ctrl+C. *)
PromptDrops ==
  /\ prompt # Closed
  /\ prompt' = Closed
  /\ UNCHANGED <<llm, view, editor, puts, edits, promised, typed, behind, outrun, looseRename>>

CatalogueTerminal ==
  \/ PromptOpens \/ PromptDrops
  \/ \E n \in Service, whole \in BOOLEAN : PromptSaves(n, whole) \/ PromptDeletes(n, whole)

(* Somebody edits the file by hand: it cannot be parsed until it is mended. *)
HandEdit ==
  /\ llm' = [llm EXCEPT !.readable = ~@]
  /\ UNCHANGED <<view, editor, puts, prompt, edits, promised, typed, behind, outrun, looseRename>>

CNext == CataloguePage \/ CatalogueTerminal \/ HandEdit

CSpec == CInit /\ [][CNext]_cvars

----------------------------------------------------------------------------
(* Properties.                                                             *)

(* What was reported as saved is in the file until it is saved again, or    *)
(* deleted, even when an edit of another service, by the other editor, or   *)
(* of a file that could not be read comes after it - as long as nobody     *)
(* wrote from a reading that the other had outrun, or while an answer was   *)
(* outstanding.  The page itself breaks this with what was typed into the   *)
(* form of a service while its save was out: that was not saved, and the   *)
(* next save of another service writes it.                                 *)
SavedStays ==
  ~outrun =>
    \A n \in Service :
      \/ promised[n] = llm.services[n]
      \/ typed[n] # NoDefinition /\ llm.services[n] = typed[n]
      \/ \E p \in puts : p.stage = "landed" /\ n \in p.stored \cup p.removed

(* Whoever wrote last: the default names a service that is there, unless    *)
(* it was renamed and switched off in one edit.                            *)
DefaultExists == ~looseRename /\ llm.default # None => llm.services[llm.default] # NoDefinition
=============================================================================
