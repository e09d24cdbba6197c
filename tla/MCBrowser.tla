----------------------------- MODULE MCBrowser -----------------------------
(***************************************************************************)
(* The tools of the plugins at work, checked side by side: the browser and *)
(* its Chrome, a row of searches, a command in a shell, an edit and a       *)
(* listing.  In every behaviour one of them, the subject, runs; the others *)
(* rest.                                                                   *)
(***************************************************************************)
EXTENDS Browser, Search, Shell

CONSTANTS c1, c2, a, b

TwoCalls == {c1, c2}
TwoChildren == {1, 2}
TextsOf(n) == UNION {[1..k -> {a, b}] : k \in 0..n}
SomeTexts == TextsOf(4)
SomeParts == TextsOf(2)

VARIABLES
  subject,
  listing   \* a listing, as asked for

toolVars == <<subject, listing, bvars, shvars, shellvars>>

ToolsInit ==
  /\ subject \in {"browser", "search", "shell", "listing"}
  /\ BInit /\ SearchInit /\ ShellInit
  /\ subject # "browser" => canFallback
  /\ subject # "search" =>
       settings = [pinned |-> TRUE, pool |-> 0, ddg |-> TRUE, maxResults |-> 0, valid |-> Endpoint]
  /\ subject # "shell" => edit = [orig |-> <<>>, old |-> <<a>>, new |-> <<>>, all |-> FALSE]
  /\ IF subject = "listing" THEN listing \in Listings
     ELSE listing = [inside |-> [n \in Node |-> Top], depth |-> 0, maxEntries |-> 0]

(* A command is run beside one of the edits only.                          *)
Plain == edit = [orig |-> <<>>, old |-> <<a>>, new |-> <<>>, all |-> FALSE]

(* The two calls are alike: c1 is the one that comes first.                *)
InOrder == phase[c1] = "idle" => phase[c2] = "idle"

ToolsNext ==
  \/ subject = "browser" /\ BNext /\ InOrder' /\ UNCHANGED <<subject, listing, shvars, shellvars>>
  \/ subject = "search" /\ SearchNext /\ UNCHANGED <<subject, listing, bvars, shellvars>>
  \/ subject = "shell" /\ Plain /\ ShellNext /\ UNCHANGED <<subject, listing, bvars, shvars>>

ToolsSpec ==
  /\ ToolsInit /\ [][ToolsNext]_toolVars
  /\ BFairness /\ SearchFairness /\ ShellFairness

(* One type invariant for the three, of the one that runs.                 *)
ToolsTypeOK ==
  /\ subject = "browser" => BTypeOK
  /\ subject = "search" => SearchTypeOK
  /\ subject = "shell" => ShellTypeOK

(* No process is left running that nobody could kill, and no two on one     *)
(* profile (Browser); what a search finds is the first there was (Search);  *)
(* the answer of a command has its output and leaves nothing behind         *)
(* (Shell).                                                                *)
ToolsAreSound ==
  /\ subject = "browser" => ChromesAreOwned
  /\ subject = "search" => SearchFinds
  /\ subject = "shell" => AnswersWhole

(* What a tool answers with is what was asked for: of the results kept, the *)
(* last are shown (Search); an edit is of the one place there was; a      *)
(* listing has the entries of the levels asked for (Shell).                *)
AnswersAreExact ==
  /\ subject = "search" => ResultsAreShown
  /\ subject = "shell" => EditsAreExact
  /\ subject = "listing" => ListingIsExact(listing)

Waits(q) ==
  CASE subject = "browser" -> phase[q] # "idle"
    [] subject = "search"  -> search.at = "next"
    [] subject = "shell"   -> command = "running"
    [] OTHER               -> FALSE

Settles(q) ==
  CASE subject = "browser" -> phase[q] = "done" \/ down
    [] subject = "search"  -> search.at \in {"told", "headers"}
    [] subject = "shell"   -> command = "settled" \/ (live \cap holds) \ group # {}
    [] OTHER               -> TRUE

(* Every call of a tool is settled: a call of the browser's, however       *)
(* launches, exits, broken connections and timeouts fall, a search unless  *)
(* a body stalls, a command unless one that left its group holds its pipes. *)
(* (CallsSettle, SearchesEnd and ShellsSettle, each where it is the subject.) *)
EveryCallSettles == \A q \in Call : Waits(q) ~> Settles(q)
=============================================================================
