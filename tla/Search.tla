------------------------------- MODULE Search -------------------------------
(***************************************************************************)
(* web-search: one search after the other, each down its row of endpoints  *)
(* until one has results, and what the model is shown of them.             *)
(*                                                                         *)
(* An endpoint is a number.  Of an answer there matters how many results it  *)
(* has; of an outcome, whether it is results or an error, and its size.    *)
(***************************************************************************)
EXTENDS Naturals, Sequences, FiniteSets, SequencesExt, Shown

CONSTANTS
  MaxSearch,   \* bound: the searches
  MaxPool,     \* bound: the public instances
  MaxFound,    \* bound: the results of an answer, and maxResults
  MaxSize,     \* maxResultChars, with the heading
  Budget       \* maxResultsTotalChars

ASSUME SearchAssumption ==
  /\ {MaxSearch, MaxPool, MaxFound, Budget} \subseteq Nat /\ MaxSize \in Nat \ {0}

Instance == 1
Local == 2
DuckDuckGo == 3
Public(i) == 3 + i
Endpoint == 1..Public(MaxPool)

VARIABLES
  settings,   \* the configuration
  searches,   \* how many searches were made
  search,     \* the one under way, or the last
  ring,       \* the outcomes kept, oldest first
  had         \* the endpoints that had results for it (history)

shvars == <<settings, searches, search, ring, had>>

NoSearch == [at |-> "none", todo |-> <<>>, tried |-> <<>>, found |-> 0]

SearchTypeOK ==
  /\ settings.pinned \in BOOLEAN /\ settings.pool \in 0..MaxPool /\ settings.ddg \in BOOLEAN
  /\ settings.valid \subseteq Endpoint /\ settings.maxResults \in 0..MaxFound
  /\ searches \in 0..MaxSearch
  /\ search.at \in {"none", "next", "asked", "headers", "found", "failed", "told"}
  /\ search.todo \in Seq(Endpoint) /\ search.tried \in Seq(Endpoint) /\ search.found \in 0..MaxFound
  /\ had \subseteq Endpoint
  /\ ring \in Seq([ok : BOOLEAN, size : 1..MaxSize]) /\ Len(ring) <= settings.maxResults

SearchInit ==
  /\ settings \in [pinned : BOOLEAN, pool : 0..MaxPool, ddg : BOOLEAN, maxResults : 0..MaxFound,
                   valid : {Endpoint, Endpoint \ {Local}, Endpoint \ {Instance}}]
  /\ searches = 0 /\ search = NoSearch /\ ring = <<>> /\ had = {}

(* SearXNG endpoints only: the instance that is set and no other, or the    *)
(* local one and then the pool.                                            *)
ResolveEndpoints ==
  IF settings.pinned THEN <<Instance>>
  ELSE <<Local>> \o [i \in 1..settings.pool |-> Public(i)]

(* Mutant of Fallback: for whoever allows it. *)
FallbackAlways == IF settings.ddg THEN <<DuckDuckGo>> ELSE <<>>

(* DuckDuckGo, "only when no SearXNG instance is pinned". *)
Fallback == IF settings.ddg /\ ~settings.pinned THEN <<DuckDuckGo>> ELSE <<>>

Searches ==
  /\ search.at \in {"none", "told"} /\ searches < MaxSearch
  /\ searches' = searches + 1
  /\ search' = [NoSearch EXCEPT !.at = "next", !.todo = ResolveEndpoints \o Fallback]
  /\ had' = {}
  /\ UNCHANGED <<settings, ring>>

(* The next endpoint is asked, with a deadline.  One whose address cannot   *)
(* be parsed ends the search, whatever else there is to try.               *)
Tries ==
  /\ search.at = "next" /\ search.todo # <<>>
  /\ search' = [search EXCEPT
       !.tried = Append(@, Head(search.todo)), !.todo = Tail(@),
       !.at = IF Head(search.todo) \in settings.valid THEN "asked" ELSE "failed"]
  /\ UNCHANGED <<settings, searches, ring, had>>

NotThere == search.at = "next" /\ search.todo = <<>>

AllFailed ==
  /\ NotThere
  /\ search' = [search EXCEPT !.at = "failed"]
  /\ UNCHANGED <<settings, searches, ring, had>>

(* It is refused, or the deadline comes, or the status is an error. *)
Refuses ==
  /\ search.at = "asked"
  /\ search' = [search EXCEPT !.at = "next"]
  /\ UNCHANGED <<settings, searches, ring, had>>

(* The headers are there, and the deadline is over. *)
Headers ==
  /\ search.at = "asked"
  /\ search' = [search EXCEPT !.at = "headers"]
  /\ UNCHANGED <<settings, searches, ring, had>>

(* The body is cut off, or is not what was asked for. *)
BodyFails ==
  /\ search.at = "headers"
  /\ search' = [search EXCEPT !.at = "next"]
  /\ UNCHANGED <<settings, searches, ring, had>>

(* Mutant of Kept: an answer without results is one. *)
KeptEmpty(n) == "found"

(* What becomes of a search with an answer of so many results. *)
Kept(n) == IF n = 0 THEN "next" ELSE "found"

(* The body comes, with n results, of which so many are taken. *)
Body(n) ==
  /\ search.at = "headers"
  /\ LET taken == IF n > settings.maxResults THEN settings.maxResults ELSE n IN
     search' = [search EXCEPT !.at = Kept(taken), !.found = taken]
  /\ had' = IF n > 0 THEN had \cup {Last(search.tried)} ELSE had
  /\ UNCHANGED <<settings, searches, ring>>

(* The outcome, of whatever size, is put on the ring. *)
Tells(size) ==
  /\ search.at \in {"found", "failed"}
  /\ ring' = PushResult(ring, [ok |-> search.at = "found", size |-> size], settings.maxResults)
  /\ search' = [search EXCEPT !.at = "told"]
  /\ UNCHANGED <<settings, searches, had>>

SearchNext ==
  \/ Searches \/ Tries \/ AllFailed \/ Refuses \/ Headers \/ BodyFails
  \/ \E n \in 0..MaxFound : Body(n)
  \/ \E size \in 1..MaxSize : Tells(size)

(* A request has a deadline until its headers are there, and none after.    *)
SearchFairness == WF_shvars(Tries \/ AllFailed \/ Refuses \/ Headers \/ \E size \in 1..MaxSize : Tells(size))

----------------------------------------------------------------------------
(* Properties.                                                             *)

(* What a search finds is what the first endpoint with results had, and it *)
(* fails only where none had any and all that the settings allow were       *)
(* asked; an instance that is set is asked alone.  Two settings are         *)
(* excepted: no results to be taken, and an address that is none, which    *)
(* keeps the endpoints after it from being asked.                          *)
SearchFinds ==
  LET all == ResolveEndpoints \o Fallback
      badly == ~ToSet(all) \subseteq settings.valid IN
  /\ settings.pinned => ToSet(search.tried) \subseteq {Instance}
  /\ search.at = "found" => had = {Last(search.tried)} /\ search.found > 0
  /\ search.at = "failed" =>
       /\ had = {} \/ settings.maxResults = 0
       /\ search.tried = all \/ badly

(* The last outcome is shown in full, unless none is kept, and those in     *)
(* full are the newest and within the budget, but for the last one alone.  *)
ResultsAreShown ==
  LET sizes == [i \in DOMAIN ring |-> ring[i].size]
      full == InFull(sizes, Budget)
      whole == {i \in DOMAIN ring : full[i]} IN
  /\ search.at = "told" /\ settings.maxResults > 0 =>
       ring # <<>> /\ Last(ring).ok = (search.found > 0) /\ Len(ring) \in whole
  /\ \A i, j \in DOMAIN ring : i < j /\ i \in whole => j \in whole
  /\ Cardinality(whole) > 1 =>
       FoldLeft(LAMBDA sum, i : IF i \in whole THEN sum + sizes[i] ELSE sum, 0,
                [i \in DOMAIN ring |-> i]) <= Budget

(* A search ends, unless a body does not come to an end.                   *)
SearchesEnd == search.at = "next" ~> search.at \in {"told", "headers"}
=============================================================================
