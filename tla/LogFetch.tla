------------------------------ MODULE LogFetch ------------------------------
(***************************************************************************)
(* log.fetch: what the agent looks up in the records of its logbook, and   *)
(* what it is shown of that in the frames after.                           *)
(*                                                                         *)
(* Of a record there matters what a filter asks for: its time, its type,   *)
(* and, where the type has them, its outcome and its level.  A parameter   *)
(* that may be left out is a sequence of at most one.                      *)
(***************************************************************************)
EXTENDS Files, Shown, Integers, FiniteSets

CONSTANTS
  LastAt,         \* bound: the times of events
  MaxEvents,      \* bound: the events
  MaxFetches,     \* bound: the fetches
  Remembered,     \* cfg.ringSize
  DefaultLimit,   \* cfg.defaultFetchLimit
  FetchLimit,     \* cfg.maxFetchLimit
  FetchBudget,    \* cfg.maxResultsTotalChars, a line being 1
  MaxHeld         \* MAX of trimResults

ASSUME FetchAssumption ==
  /\ {LastAt, MaxEvents, MaxFetches} \subseteq Nat
  /\ {Remembered, DefaultLimit, FetchLimit, FetchBudget, MaxHeld} \subseteq Nat \ {0}

VARIABLES
  activity,   \* the records in memory, oldest first
  fetched,    \* the fetch that was made and is not yet told
  outcomes,   \* the outcomes held, oldest first
  left        \* how many events and fetches may still come

fetchVars == <<activity, fetched, outcomes, left>>

Now == LastAt
Type == {"clock.tick", "tool.result", "log.entry"}
Event == [type : {"clock.tick"}, ok : {<<>>}, level : {<<>>}, own : {FALSE}]
           \cup [type : {"tool.result"}, ok : {<<TRUE>>, <<FALSE>>}, level : {<<>>}, own : {FALSE}]
           \cup [type : {"log.entry"}, ok : {<<>>}, level : {<<"warn">>}, own : BOOLEAN]
Fetchable == [at : 0..LastAt, type : Type, ok : {<<>>, <<TRUE>>, <<FALSE>>}, level : {<<>>, <<"warn">>}]

(* A window is "since" so long ago, or "from" and "until"; one of each that *)
(* there is, both together, and one that is upside down.                   *)
Asked(since, from, until) == [sinceMs |-> since, fromTimestamp |-> from, untilTimestamp |-> until]
Windows ==
  {Asked(<<>>, <<>>, <<>>), Asked(<<0>>, <<>>, <<>>), Asked(<<0>>, <<0>>, <<0>>),
   Asked(<<>>, <<LastAt>>, <<>>), Asked(<<>>, <<>>, <<0>>), Asked(<<>>, <<LastAt>>, <<0>>)}
Params ==
  [window : Windows, types : {{}, {"tool.result", "log.entry"}, {"unknown"}},
   level : {<<>>, <<"warn">>}, ok : {<<>>, <<TRUE>>}, limit : {<<>>, <<0>>, <<1>>, <<FetchLimit + 1>>}]

NoFetch == [made |-> FALSE, ok |-> FALSE, params |-> <<>>, records |-> <<>>]

FetchTypeOK ==
  /\ activity \in Seq(Fetchable) /\ Len(activity) <= Remembered
  /\ fetched.made /\ fetched.ok => fetched.records \in Seq(Fetchable)
  /\ outcomes \in Seq([ok : BOOLEAN, count : 0..Remembered]) /\ Len(outcomes) <= MaxHeld

FetchInit ==
  /\ activity = <<>> /\ fetched = NoFetch /\ outcomes = <<>>
  /\ left = [events |-> MaxEvents, fetches |-> MaxFetches]

----------------------------------------------------------------------------
(* The records.                                                            *)

BuildRecord(event, at) == [at |-> at, type |-> event.type, ok |-> event.ok, level |-> event.level]

(* An event, but no line of the logbook's own.  Its time is that of whoever *)
(* emitted it: one emitted by a listener of another is recorded before it. *)
Captures(event, at) ==
  activity' = IF event.type = "log.entry" /\ event.own THEN activity
              ELSE Newer(Append(activity, BuildRecord(event, at)), Remembered)

Happens(event, at) ==
  /\ ~fetched.made /\ left.events > 0
  /\ left' = [left EXCEPT !.events = @ - 1]
  /\ Captures(event, at)
  /\ UNCHANGED <<fetched, outcomes>>

----------------------------------------------------------------------------
(* A fetch.                                                                *)

(* The window that counts: "since" wins. *)
Span(w) ==
  IF w.sinceMs # <<>> THEN {t \in 0..LastAt : t >= Now - w.sinceMs[1] /\ t <= Now}
  ELSE {t \in 0..LastAt : /\ w.fromTimestamp # <<>> => t >= w.fromTimestamp[1]
                          /\ w.untilTimestamp # <<>> => t <= w.untilTimestamp[1]}

BadParams(p) ==
  \/ /\ p.window.sinceMs = <<>> /\ p.window.fromTimestamp # <<>> /\ p.window.untilTimestamp # <<>>
     /\ p.window.fromTimestamp[1] > p.window.untilTimestamp[1]
  \/ ~p.types \subseteq Type

(* Mutant of Limit: none, where none is named. *)
LimitNot(p) == IF p.limit = <<>> THEN Remembered ELSE p.limit[1]

(* How many at most. *)
Limit(p) ==
  LET asked == IF p.limit = <<>> THEN DefaultLimit ELSE p.limit[1] IN
  IF asked > FetchLimit THEN FetchLimit ELSE asked

Answers(p, r) ==
  /\ r.at \in Span(p.window)
  /\ p.types # {} => r.type \in p.types
  /\ p.level # <<>> => r.level = p.level
  /\ p.ok # <<>> => r.ok = p.ok

(* Mutant of Query: the newest are taken first, and of those what matches. *)
QueryLast(p) ==
  LET newest == Newer(activity, Limit(p)) IN
  Picked(newest, {i \in DOMAIN newest : Answers(p, newest[i])})

Query(p) ==
  Newer(Picked(activity, {i \in DOMAIN activity : Answers(p, activity[i])}), Limit(p))

Fetches(p) ==
  /\ ~fetched.made /\ left.fetches > 0
  /\ left' = [left EXCEPT !.fetches = @ - 1]
  /\ fetched' = [made |-> TRUE, ok |-> ~BadParams(p), params |-> p,
                 records |-> IF BadParams(p) THEN <<>> ELSE Query(p)]
  /\ UNCHANGED <<activity, outcomes>>

(* Its outcome comes as an event, which is recorded like any other, and put *)
(* with those held.                                                        *)
Told ==
  /\ fetched.made
  /\ Captures([type |-> "tool.result", ok |-> <<fetched.ok>>, level |-> <<>>, own |-> FALSE], Now)
  /\ outcomes' = PushResult(outcomes, [ok |-> fetched.ok, count |-> Len(fetched.records)], MaxHeld)
  /\ fetched' = NoFetch
  /\ UNCHANGED left

(* context.full *)
ShedFetch ==
  /\ outcomes # <<>>
  /\ outcomes' = Tail(outcomes)
  /\ UNCHANGED <<activity, fetched, left>>

(* llm.return: they have been read. *)
ClearFetches ==
  /\ outcomes # <<>>
  /\ outcomes' = <<>>
  /\ UNCHANGED <<activity, fetched, left>>

FetchNext ==
  \/ \E e \in Event, at \in 0..LastAt : Happens(e, at)
  \/ \E p \in Params : Fetches(p)
  \/ Told \/ ShedFetch \/ ClearFetches

(* The outcomes in the next prompt, newest first, as many as fit: each a    *)
(* heading, and the records or the error.                                  *)
Lines(outcome) == 1 + IF outcome.ok THEN outcome.count ELSE 1
RenderFetches ==
  LET full == InFull([i \in DOMAIN outcomes |-> Lines(outcomes[i])], FetchBudget)
      fit == Cardinality({i \in DOMAIN outcomes : full[i]}) IN
  Reverse(Newer(outcomes, fit))

----------------------------------------------------------------------------
(* Properties.                                                             *)

(* Of a fetch comes what was asked for and nothing else: every record that  *)
(* is told matches;  of those that match, one is left out only because as    *)
(* many newer ones were to be told; and of two windows given, the relative  *)
(* one counts.                                                             *)
FetchFinds ==
  fetched.made /\ fetched.ok =>
    LET p == fetched.params
        asked == {i \in DOMAIN activity :
                    /\ IF p.window.sinceMs # <<>> THEN activity[i].at >= Now - p.window.sinceMs[1]
                       ELSE \A b \in ToSet(p.window.untilTimestamp) : activity[i].at <= b
                    /\ p.window.sinceMs = <<>> =>
                         \A b \in ToSet(p.window.fromTimestamp) : activity[i].at >= b
                    /\ activity[i].type \in (IF p.types = {} THEN Type ELSE p.types)
                    /\ ToSet(p.level) \subseteq ToSet(activity[i].level)
                    /\ ToSet(p.ok) \subseteq ToSet(activity[i].ok)}
        most == Min({FetchLimit} \cup (IF p.limit = <<>> THEN {DefaultLimit} ELSE ToSet(p.limit))) IN
    \E taken \in SUBSET asked :
      /\ Cardinality(taken) = Min({most, Cardinality(asked)})
      /\ \A i \in taken, j \in asked \ taken : j < i
      /\ fetched.records = [n \in 1..Cardinality(taken) |->
           activity[CHOOSE i \in taken : Cardinality({j \in taken : j < i}) = n - 1]]

(* The last outcome is told, with what comes before it as long as it fits, *)
(* and no more than fits, but for the last one alone.                      *)
FetchesFit ==
  LET shown == RenderFetches
      Size(s) == FoldLeft(LAMBDA sum, o : sum + Lines(o), 0, s) IN
  /\ outcomes # <<>> => shown # <<>> /\ shown[1] = Last(outcomes)
  /\ Size(shown) <= FetchBudget \/ Len(shown) = 1
=============================================================================
