--------------------------- MODULE InspectorPage ---------------------------
(***************************************************************************)
(* The inspector's page in a browser tab and the hub it asks.  An agent is *)
(* picked; its buffer is fetched; when that is there a stream is opened,   *)
(* on which every record captured from then on comes.  Queries and clears   *)
(* are requests of their own.  The page keeps the records it has, and      *)
(* draws its panels from them: what comes on a stream only marks a panel   *)
(* dirty, and is drawn with the next frame of the browser if the panel is  *)
(* in sight.  How the hub keeps the buffer is the Journal's matter; here    *)
(* the number a record gets is enough, and no buffer overflows.             *)
(***************************************************************************)
EXTENDS Files, FiniteSets

CONSTANTS
  Watched,      \* agents
  NoAgent,      \* none of them
  MaxCaptured,  \* bound: records captured
  MaxPicks,     \* bound: agents picked
  MaxAsked,     \* bound: requests other than those of a pick
  MaxUpsets     \* bound: streams lost and agents restarted

ASSUME InspectorPageAssumption ==
  NoAgent \notin Watched /\ {MaxCaptured, MaxPicks, MaxAsked, MaxUpsets} \subseteq Nat

VARIABLES
  recorded,    \* per agent: the records in its buffer
  last,        \* per agent: the number of its last record
  sources,     \* the streams ever opened, closed ones included
  requests,    \* the requests under way
  view,        \* the state of the selection: agent, records, query, its stream
  screen, expanded,
  mode,        \* the logs panel shows what is live or what a query found
  only,        \* the kinds chosen for the query; none for all
  dirty, raf,  \* the panels to draw, and whether a frame will
  painted,     \* per panel: what was drawn last
  captured, picks, asked, upsets,
  missed,      \* records of the agent shown that no stream of its was open for (history)
  renumbered,  \* the agents whose numbers began anew since they were picked (history)
  stray,       \* the stream of a selection was forgotten, and no pick will close it (history)
  strained     \* an answer was ignored, failed, or overlapped with a record or another (history)

hub == <<recorded, last>>
counts == <<captured, picks, asked, upsets>>
drawing == <<dirty, raf, painted>>
chosen == <<screen, expanded, mode, only>>
told == <<missed, renumbered, stray, strained>>
ivars == <<hub, sources, requests, view, chosen, drawing, counts, told>>

RecordKinds == {"log", "tick"}
Panels == {"logs", "frames"}
Captured == [of : Watched, seq : 1..MaxCaptured, kind : RecordKinds]

(* freshState *)
Fresh(a) == [id |-> a, lastSeq |-> 0, records |-> <<>>, found |-> <<>>, ran |-> FALSE, es |-> 0]
Nothing == Fresh(NoAgent)

ITypeOK ==
  /\ recorded \in [Watched -> Seq(Captured)] /\ last \in [Watched -> 0..MaxCaptured]
  /\ \A i \in DOMAIN sources : /\ sources[i].of \in Watched /\ sources[i].wire \in Seq(Captured)
                               /\ sources[i].state \in {"opening", "open", "closed"}
  /\ requests \subseteq [n : 0..(MaxPicks + MaxAsked), what : {"snapshot", "query", "clear"}, of : Watched,
                         at : {"sent", "served"}, only : SUBSET RecordKinds, recs : Seq(Captured)]
  /\ view \in [id : Watched \cup {NoAgent}, lastSeq : 0..MaxCaptured, records : Seq(Captured),
               found : Seq(Captured), ran : BOOLEAN, es : 0..Len(sources)]
  /\ screen \in {"landing", "dashboard", "lock"} /\ expanded \in {"overview"} \cup Panels
  /\ mode \in {"live", "query"} /\ only \in SUBSET RecordKinds
  /\ dirty \in SUBSET Panels /\ raf \in BOOLEAN /\ painted \in [Panels -> Seq(Captured)]
  /\ captured \in 0..MaxCaptured /\ picks \in 0..MaxPicks /\ asked \in 0..MaxAsked /\ upsets \in 0..MaxUpsets
  /\ missed \subseteq Captured /\ renumbered \subseteq Watched /\ stray \in BOOLEAN /\ strained \in BOOLEAN

Counted(c, p, a, u) == captured = c /\ picks = p /\ asked = a /\ upsets = u

(* The counts start where the run says: at 0, or so that less is left.     *)
IInit ==
  /\ recorded = [a \in Watched |-> <<>>] /\ last = [a \in Watched |-> 0]
  /\ sources = <<>> /\ requests = {}
  /\ view = Nothing /\ screen = "landing" /\ expanded = "overview" /\ mode \in {"live", "query"} /\ only = {}
  /\ dirty = {} /\ raf = FALSE /\ painted = [p \in Panels |-> <<>>]
  /\ missed = {} /\ renumbered = {} /\ stray = FALSE /\ strained = FALSE

(* filterRecords of the server and clientFilter of the page: by kind.  Levels,*)
(* times and limits narrow it the same way.                                *)
Matches(r, kinds) == kinds = {} \/ r.kind \in kinds
Filter(recs, kinds) == Picked(recs, {i \in DOMAIN recs : Matches(recs[i], kinds)})

Open(i) == sources[i].state = "open"
Queries == {q \in requests : q.what = "query" /\ q.of = view.id}
Wire == IF view.es = 0 THEN <<>> ELSE sources[view.es].wire
InSight(p) == expanded \in {"overview", p}

----------------------------------------------------------------------------
(* The hub.                                                                *)

(* pushRecord: into the buffer, and to every open stream of the agent. *)
Capture(a, kind) ==
  /\ captured < MaxCaptured
  /\ captured' = captured + 1
  /\ last' = [last EXCEPT ![a] = @ + 1]
  /\ LET rec == [of |-> a, seq |-> last[a] + 1, kind |-> kind]
     IN /\ recorded' = [recorded EXCEPT ![a] = Append(@, rec)]
        /\ sources' = [i \in DOMAIN sources |->
             IF sources[i].of = a /\ Open(i) THEN [sources[i] EXCEPT !.wire = Append(@, rec)] ELSE sources[i]]
        /\ missed' = IF a = view.id /\ view.es # 0 /\ ~Open(view.es) THEN missed \cup {rec} ELSE missed
        /\ strained' = (strained \/ (a = view.id /\ Queries # {}))
  /\ UNCHANGED <<requests, view, chosen, drawing, picks, asked, upsets, renumbered, stray>>

(* A request is served from the buffer as it is then. *)
ServeRequest(q) ==
  /\ q.at = "sent"
  /\ requests' = (requests \ {q}) \cup
       {[q EXCEPT !.at = "served", !.recs = IF q.what = "clear" THEN <<>> ELSE Filter(recorded[q.of], q.only)]}
  /\ recorded' = IF q.what = "clear" THEN [recorded EXCEPT ![q.of] = <<>>] ELSE recorded
  /\ UNCHANGED <<last, sources, view, chosen, drawing, counts, told>>

(* A stream begins with nothing: what was captured before it is not sent.   *)
ServeStreamOf(i) ==
  /\ sources[i].state = "opening"
  /\ sources' = [sources EXCEPT ![i].state = "open"]
  /\ UNCHANGED <<hub, requests, view, chosen, drawing, counts, told>>

(* The agent is restarted: its streams end.  Where nothing is persisted its  *)
(* records are gone, and their numbers begin anew.                         *)
AgentRestarts(a, persisted) ==
  /\ upsets < MaxUpsets
  /\ upsets' = upsets + 1
  /\ IF persisted THEN UNCHANGED hub
     ELSE recorded' = [recorded EXCEPT ![a] = <<>>] /\ last' = [last EXCEPT ![a] = 0]
  /\ sources' = [i \in DOMAIN sources |->
       IF sources[i].of = a /\ Open(i) THEN [sources[i] EXCEPT !.state = "opening", !.wire = <<>>] ELSE sources[i]]
  /\ missed' = missed \cup {Wire[i] : i \in {j \in DOMAIN Wire : Wire[j].of = a}}
  /\ renumbered' = IF persisted THEN renumbered ELSE renumbered \cup {a}
  /\ UNCHANGED <<requests, view, chosen, drawing, captured, picks, asked, strained, stray>>

(* A stream is lost, with what was on it; the browser opens it again. *)
StreamLost(i) ==
  /\ Open(i)
  /\ upsets < MaxUpsets
  /\ upsets' = upsets + 1
  /\ sources' = [sources EXCEPT ![i].state = "opening", ![i].wire = <<>>]
  /\ missed' = IF i = view.es THEN missed \cup {Wire[k] : k \in DOMAIN Wire} ELSE missed
  /\ UNCHANGED <<hub, requests, view, chosen, drawing, captured, picks, asked, renumbered, strained, stray>>

----------------------------------------------------------------------------
(* Drawing.                                                                *)

(* What a panel is to show of a selection. *)
Content(p, v, m) ==
  IF p = "frames" THEN v.records
  ELSE IF m = "query" THEN v.found
  ELSE Picked(v.records, {i \in DOMAIN v.records : v.records[i].kind = "log"})

(* Mutant of FlushFor: a panel out of sight counts as drawn. *)
FlushForgetting(v, m, sight) ==
  /\ painted' = [p \in Panels |-> IF p \in dirty /\ p \in sight THEN Content(p, v, m) ELSE painted[p]]
  /\ dirty' = {}

(* flushDirty: the dirty panels in sight; those out of it stay dirty. *)
FlushFor(v, m, sight) ==
  IF v = Nothing THEN dirty' = {} /\ UNCHANGED painted
  ELSE /\ painted' = [p \in Panels |-> IF p \in dirty \cap sight THEN Content(p, v, m) ELSE painted[p]]
       /\ dirty' = dirty \ sight

(* Everything is drawn, and a frame that was asked for will find nothing. *)
DrawAll(v, m) ==
  /\ painted' = [p \in Panels |-> Content(p, v, m)]
  /\ dirty' = {}

AnimationFrame ==
  /\ raf
  /\ raf' = FALSE
  /\ FlushFor(view, mode, {p \in Panels : InSight(p)})
  /\ UNCHANGED <<hub, sources, requests, view, chosen, counts, told>>

Expand(to) ==
  /\ screen = "dashboard" /\ (expanded = "overview") # (to = "overview")
  /\ expanded' = to
  /\ FlushFor(view, mode, {p \in Panels : to \in {"overview", p}})
  /\ raf' = FALSE
  /\ UNCHANGED <<hub, sources, requests, view, screen, mode, only, counts, told>>

(* A screen other than the dashboard collapses what is expanded. *)
LeaveFor(which, v) ==
  /\ screen' = which
  /\ expanded' = "overview"
  /\ FlushFor(v, mode, Panels)
  /\ raf' = FALSE

----------------------------------------------------------------------------
(* The page.                                                               *)

Numbered == picks + asked
Requested(what, a, kinds) ==
  requests' = requests \cup
    {[n |-> Numbered, what |-> what, of |-> a, at |-> "sent", only |-> kinds, recs |-> <<>>]}

(* Mutant of Disconnected: the stream is left to itself. *)
DisconnectedNot == sources
(* disconnect: the stream of the selection, if it is there, is closed. *)
Disconnected ==
  IF view.es = 0 THEN sources ELSE [sources EXCEPT ![view.es].state = "closed", ![view.es].wire = <<>>]

(* Pick an agent, or none. *)
PickAgent(a) ==
  /\ picks < MaxPicks
  /\ picks' = picks + 1
  /\ sources' = Disconnected
  /\ Requested("snapshot", a, {})
  /\ view' = Fresh(a)
  /\ screen' = "dashboard"
  /\ painted' = [p \in Panels |-> <<>>] /\ dirty' = {} /\ raf' = FALSE
  /\ missed' = {} /\ strained' = FALSE
  /\ renumbered' = renumbered \ {b \in {a} : \A q \in requests : q.of # b}
  /\ UNCHANGED <<hub, expanded, mode, only, captured, asked, upsets, stray>>

PickNone ==
  /\ view # Nothing
  /\ sources' = Disconnected
  /\ view' = Nothing
  /\ screen' = "landing" /\ expanded' = "overview"
  /\ painted' = [p \in Panels |-> <<>>] /\ dirty' = {} /\ raf' = FALSE
  /\ missed' = {} /\ strained' = FALSE
  /\ UNCHANGED <<hub, renumbered, requests, mode, only, counts, stray>>

(* applyRecord: numbers at or below the last are taken for repetitions. *)
Applied(v, rec) ==
  IF rec.seq <= v.lastSeq THEN v
  ELSE [v EXCEPT !.lastSeq = rec.seq, !.records = Append(@, rec)]
AppliedAll(v, recs) ==
  LET after[i \in 0..Len(recs)] == IF i = 0 THEN v ELSE Applied(after[i - 1], recs[i])
  IN after[Len(recs)]

(* runLogQuery, where it is let. *)
QueryRuns(rest) ==
  /\ asked < MaxAsked
  /\ asked' = asked + 1
  /\ requests' = rest \cup
       {[n |-> Numbered + 1, what |-> "query", of |-> view.id, at |-> "sent", only |-> only', recs |-> <<>>]}

(* The buffer is there: it is drawn, and the stream opened - of the agent     *)
(* shown, be the answer to this pick of it or to an earlier one.            *)
SnapshotHeard(q) ==
  /\ q.what = "snapshot" /\ q.at = "served"
  /\ IF q.of # view.id
     THEN requests' = requests \ {q} /\ UNCHANGED <<sources, view, painted, dirty, asked, only, strained>>
     ELSE LET v == AppliedAll(view, q.recs)
          IN /\ view' = [v EXCEPT !.es = Len(sources) + 1]
             /\ sources' = Append(sources, [of |-> q.of, state |-> "opening", wire |-> <<>>])
             /\ DrawAll(v, mode)
             /\ UNCHANGED only
             /\ IF mode = "query" THEN QueryRuns(requests \ {q}) /\ strained' = (strained \/ Queries # {})
                ELSE requests' = requests \ {q} /\ UNCHANGED asked /\ strained' = (strained \/ view.ran)
  /\ missed' = IF q.of # view.id THEN missed
               ELSE missed \cup {recorded[q.of][i] : i \in {j \in DOMAIN recorded[q.of] :
                      \A k \in DOMAIN view'.records : view'.records[k] # recorded[q.of][j]}}
  /\ stray' = (stray \/ (q.of = view.id /\ view.es # 0))
  /\ UNCHANGED <<hub, screen, expanded, mode, raf, captured, picks, upsets, renumbered>>

(* The agent is gone, or the hub: back to the landing, if it is still the    *)
(* one that is shown.                                                      *)
SnapshotFails(q) ==
  /\ q.what = "snapshot"
  /\ requests' = requests \ {q}
  /\ IF view.id = q.of \/ view = Nothing
     THEN view' = Nothing /\ LeaveFor("landing", Nothing)
     ELSE UNCHANGED <<view, screen, expanded, drawing>>
  /\ stray' = (stray \/ (view.id = q.of /\ view.es # 0))
  /\ UNCHANGED <<hub, sources, mode, only, counts, missed, renumbered, strained>>

(* A 401: locked, whatever is shown, and the streams stay. *)
Refused(q) ==
  /\ q.at = "sent"
  /\ requests' = requests \ {q}
  /\ LeaveFor("lock", view)
  /\ strained' = (strained \/ q.what = "query")
  /\ UNCHANGED <<hub, sources, view, mode, only, counts, missed, renumbered, stray>>

(* A record comes on a stream: whichever is shown gets it.  In query mode it  *)
(* joins what was found if the query would have found it.                  *)
OnRecord(i) ==
  /\ sources[i].wire # <<>>
  /\ sources' = [sources EXCEPT ![i].wire = Tail(@)]
  /\ LET rec == Head(sources[i].wire)
         v == Applied(view, rec)
         joins == mode = "query" /\ view.ran /\ Matches(rec, only)
     IN IF view = Nothing \/ v = view THEN UNCHANGED <<view, dirty, raf, strained>>
        ELSE /\ view' = IF joins THEN [v EXCEPT !.found = Append(@, rec)] ELSE v
             /\ dirty' = dirty \cup {"frames"} \cup {p \in {"logs"} : rec.kind = "log" \/ joins}
             /\ raf' = TRUE
             /\ strained' = (strained \/ Queries # {} \/ (view.ran /\ mode = "live"))
  /\ UNCHANGED <<hub, requests, chosen, painted, counts, missed, renumbered, stray>>

(* A query is run, for the kinds chosen now. *)
RunQuery(kinds) ==
  /\ view # Nothing /\ mode = "query" /\ screen = "dashboard"
  /\ only' = kinds
  /\ QueryRuns(requests)
  /\ strained' = (Queries # {} \/ Wire # <<>>)
  /\ UNCHANGED <<hub, sources, view, screen, expanded, mode, drawing, captured, picks, upsets, missed, renumbered, stray>>

(* The logs panel is switched; a first look at the query runs it. *)
SetLogSource ==
  /\ screen = "dashboard"
  /\ mode' = IF mode = "live" THEN "query" ELSE "live"
  /\ UNCHANGED only
  /\ IF mode' = "query" /\ view # Nothing /\ ~view.ran
     THEN QueryRuns(requests) /\ strained' = (Queries # {} \/ Wire # <<>>)
     ELSE UNCHANGED <<requests, asked, strained>>
  /\ painted' = [painted EXCEPT !["logs"] = Content("logs", view, mode')]
  /\ UNCHANGED <<hub, sources, view, screen, expanded, dirty, raf, captured, picks, upsets, missed, renumbered, stray>>

QueryHeard(q) ==
  /\ q.what = "query" /\ q.at = "served"
  /\ requests' = requests \ {q}
  /\ IF q.of # view.id \/ mode = "live"
     THEN strained' = (strained \/ q.of = view.id) /\ UNCHANGED <<view, painted>>
     ELSE /\ view' = [view EXCEPT !.found = q.recs, !.ran = TRUE]
          /\ painted' = [painted EXCEPT !["logs"] = q.recs]
          /\ UNCHANGED strained
  /\ UNCHANGED <<hub, sources, chosen, dirty, raf, counts, missed, renumbered, stray>>

(* The error is shown beside what an earlier query found. *)
RequestFails(q) ==
  /\ q.what # "snapshot"
  /\ requests' = requests \ {q}
  /\ strained' = (strained \/ q.what = "query")
  /\ UNCHANGED <<hub, sources, view, chosen, drawing, counts, missed, renumbered, stray>>

PressClear ==
  /\ view # Nothing /\ screen = "dashboard"
  /\ ~\E q \in requests : q.what = "clear"
  /\ asked < MaxAsked
  /\ asked' = asked + 1
  /\ requests' = requests \cup
       {[n |-> Numbered + 1, what |-> "clear", of |-> view.id, at |-> "sent", only |-> {}, recs |-> <<>>]}
  /\ UNCHANGED <<hub, sources, view, chosen, drawing, captured, picks, upsets, told>>

(* The agent's records are gone; the page forgets those it has, what came     *)
(* since the clear included, and keeps the stream.                         *)
ClearHeard(q) ==
  /\ q.what = "clear" /\ q.at = "served"
  /\ requests' = requests \ {q}
  /\ IF q.of # view.id THEN UNCHANGED <<view, painted, dirty, missed, strained>>
     ELSE /\ view' = [Fresh(view.id) EXCEPT !.es = view.es]
          /\ DrawAll(view', mode)
          /\ missed' = missed \cup {view.records[i] : i \in DOMAIN view.records}
          /\ strained' = (strained \/ Queries # {})
  /\ UNCHANGED <<hub, sources, chosen, raf, counts, renumbered, stray>>

InspectorHub ==
  \/ \E a \in Watched : (\E kind \in RecordKinds : Capture(a, kind)) \/ \E persisted \in BOOLEAN : AgentRestarts(a, persisted)
  \/ \E q \in requests : ServeRequest(q)
  \/ \E i \in DOMAIN sources : ServeStreamOf(i) \/ StreamLost(i)

InspectorTab ==
  \/ AnimationFrame \/ PickNone \/ SetLogSource \/ PressClear
  \/ \E a \in Watched : PickAgent(a)
  \/ \E to \in {"overview"} \cup Panels : Expand(to)
  \/ \E kinds \in {{}, {"log"}} : RunQuery(kinds)
  \/ \E i \in DOMAIN sources : OnRecord(i)
  \/ \E q \in requests :
       SnapshotHeard(q) \/ SnapshotFails(q) \/ Refused(q) \/ QueryHeard(q) \/ RequestFails(q) \/ ClearHeard(q)

INext == InspectorHub \/ InspectorTab

ISpec == IInit /\ Counted(0, 0, 0, 0) /\ [][INext]_ivars

----------------------------------------------------------------------------
(* Properties.                                                             *)

Shown == {view.records[i] : i \in DOMAIN view.records}
OnTheWay == {Wire[i] : i \in DOMAIN Wire}

(* "Each row inspects that agent's bus": the page shows records of the  *)
(* agent picked alone, in the order of their numbers,  *)
(* and each that was captured while its stream was open, unless its numbers *)
(* began anew or it was on the page when it was cleared; but for the case   *)
(* that an agent was picked again before its first buffer came.            *)
RecordsAreOwn ==
  ~stray /\ view # Nothing =>
    /\ \A r \in Shown \cup OnTheWay : r.of = view.id
    /\ \A i, j \in DOMAIN view.records : i < j => view.records[i].seq < view.records[j].seq
    /\ view.es # 0 /\ view.id \notin renumbered =>
         \A i \in DOMAIN recorded[view.id] : recorded[view.id][i] \in Shown \cup OnTheWay \cup missed

(* A query that nothing crossed finds what is in the buffer, each record     *)
(* once, and what comes after it joins what it found.                      *)
QueryFinds ==
  ~stray /\ view.es # 0 /\ view.ran /\ mode = "query" /\ ~strained /\ Queries = {} /\ view.id \notin renumbered =>
    /\ \A i, j \in DOMAIN view.found : i # j => view.found[i] # view.found[j]
    /\ \A i \in DOMAIN view.found : view.found[i].of = view.id /\ Matches(view.found[i], only)
    /\ \A i \in DOMAIN recorded[view.id] :
         LET r == recorded[view.id][i] IN
         Matches(r, only) => r \in missed \cup OnTheWay \/ \E j \in DOMAIN view.found : view.found[j] = r

(* A panel in sight shows what there is, or the browser has been asked for   *)
(* a frame that will draw it; one out of sight at least knows.             *)
PanelsCatchUp ==
  view # Nothing /\ screen = "dashboard" =>
    \A p \in Panels :
      painted[p] # Content(p, view, mode) => p \in dirty /\ (InSight(p) => raf)
=============================================================================
