-------------------------------- MODULE Tabs --------------------------------
(***************************************************************************)
(* The tools of the browser at work on a Chrome that is up: its tabs, the  *)
(* one the plugin takes for the active one, and the calls, each a row of   *)
(* requests between which the other calls, the pages themselves and whoever *)
(* sits at the window go on.                                               *)
(*                                                                         *)
(* A page is the number of the navigation that brought it.  What a tool    *)
(* returns is the pages its answers were of: the address and the title,    *)
(* and before them, of a reading, the content.  A screenshot, which is one *)
(* answer, is left out.                                                    *)
(***************************************************************************)
EXTENDS Naturals, Sequences, FiniteSets, FiniteSetsExt, Functions

CONSTANTS
  MaxUse,    \* bound: the calls of the tools, in the order they are made
  MaxTab,    \* bound: the tabs ever opened
  MaxPage    \* bound: the navigations

ASSUME TabsAssumption == {MaxUse, MaxTab, MaxPage} \subseteq Nat

Use == 1..MaxUse
Tab == 1..MaxTab
NoTab == 0

VARIABLES
  tabs,       \* the tabs ever opened, and those open
  shows,      \* per tab: the page, and whether it is complete
  pages,      \* the last navigation
  active,     \* activeTargetId
  attached,   \* the tabs a session is kept for
  use,        \* per call: the tool, how far it is, its tab and answers
  meant,      \* the tab last activated, if nobody else chose one since (history)
  overruled   \* a call that did not know of it took another (history)

tvars == <<tabs, shows, pages, active, attached, use, meant, overruled>>

Tool == {"navigate", "read", "activate"}
Unused == [tool |-> "none", at |-> "idle", tab |-> NoTab, targets |-> {}, own |-> 0, got |-> <<>>,
           moved |-> FALSE, late |-> FALSE, told |-> NoTab]

TabsTypeOK ==
  /\ tabs.made \in 0..MaxTab /\ tabs.open \subseteq 1..tabs.made
  /\ shows \in [Tab -> [is : 0..MaxPage, complete : BOOLEAN]] /\ pages \in 0..MaxPage
  /\ active \in 0..MaxTab /\ attached \subseteq Tab
  /\ \A u \in Use :
       /\ use[u].tool \in Tool \cup {"none"} /\ use[u].tab \in 0..MaxTab
       /\ use[u].at \in {"idle", "listing", "listed", "making", "attach", "command", "poll",
                         "asking", "done", "failed"}
       /\ use[u].targets \subseteq Tab /\ use[u].got \in Seq(0..MaxPage)
  /\ meant \in 0..MaxTab /\ overruled \in BOOLEAN

TabsInit ==
  /\ \E n \in 1..MaxTab, first \in 1..MaxTab :
       first <= n /\ tabs = [made |-> n, open |-> first..n]
  /\ shows = [t \in Tab |-> [is |-> 0, complete |-> TRUE]] /\ pages \in 0..MaxPage
  /\ active = NoTab /\ attached = {}
  /\ \E made \in 0..MaxUse :
       use = [u \in Use |-> IF u <= made THEN [Unused EXCEPT !.at = "failed"] ELSE Unused]
  /\ meant = NoTab /\ overruled = FALSE

Goes(u, at) == use' = [use EXCEPT ![u].at = at]
Shut(t) == t \notin tabs.open

----------------------------------------------------------------------------
(* A call finds its tab.                                                   *)

(* The list of tabs is asked for, *)
Asks(u, tool) ==
  /\ use[u].at = "idle" /\ (u > 1 => use[u - 1].at # "idle")
  /\ use' = [use EXCEPT ![u] = [Unused EXCEPT !.tool = tool, !.at = "listing", !.told = meant]]
  /\ UNCHANGED <<tabs, shows, pages, active, attached, meant, overruled>>

(* made up, *)
Lists(u) ==
  /\ use[u].at = "listing"
  /\ use' = [use EXCEPT ![u].at = "listed", ![u].targets = tabs.open]
  /\ UNCHANGED <<tabs, shows, pages, active, attached, meant, overruled>>

(* Mutant of Chosen: the first in the list, whatever is active. *)
ChosenFirst(targets) == targets

(* The active tab if it is listed, and the first listed if it is not. *)
Chosen(targets) == IF active \in targets THEN {active} ELSE targets

(* and read: the tab for the call is chosen, or has to be made. *)
Picks(u) ==
  /\ use[u].at = "listed" /\ use[u].tool # "activate"
  /\ IF use[u].targets = {}
     THEN Goes(u, "making") /\ UNCHANGED active
     ELSE \E t \in Chosen(use[u].targets) :
            /\ active' = t
            /\ use' = [use EXCEPT ![u].at = "attach", ![u].tab = t,
                                  ![u].told = IF @ = meant /\ ~Shut(@) THEN @ ELSE NoTab]
  /\ overruled' = (overruled \/ (meant \in tabs.open /\ meant \notin use[u].targets))
  /\ UNCHANGED <<tabs, shows, pages, attached, meant>>

Makes(u) ==
  /\ use[u].at = "making" /\ tabs.made < MaxTab
  /\ LET t == tabs.made + 1 IN
     /\ tabs' = [made |-> t, open |-> tabs.open \cup {t}]
     /\ active' = t
     /\ use' = [use EXCEPT ![u].at = "attach", ![u].tab = t, ![u].told = NoTab]
  /\ overruled' = (overruled \/ meant \in tabs.open)
  /\ UNCHANGED <<shows, pages, attached, meant>>

(* activate_tab takes one of the list. *)
Activates(u, t) ==
  /\ use[u].at = "listed" /\ use[u].tool = "activate"
  /\ IF t \in use[u].targets
     THEN /\ active' = t /\ meant' = t /\ Goes(u, "done")
     ELSE /\ UNCHANGED <<active, meant>> /\ Goes(u, "failed")
  /\ UNCHANGED <<tabs, shows, pages, attached, overruled>>

(* A session that is kept is used; another is opened, in a tab that is there. *)
Attaches(u) ==
  /\ use[u].at = "attach"
  /\ use[u].tab \in attached \/ ~Shut(use[u].tab)
  /\ attached' = attached \cup {use[u].tab}
  /\ Goes(u, IF use[u].tool = "navigate" THEN "command" ELSE "asking")
  /\ UNCHANGED <<tabs, shows, pages, active, meant, overruled>>

(* Whatever it awaits times out, or is refused. *)
GivesUp(u) ==
  /\ use[u].at \notin {"idle", "done", "failed"}
  /\ Goes(u, "failed")
  /\ UNCHANGED <<tabs, shows, pages, active, attached, meant, overruled>>

----------------------------------------------------------------------------
(* It does its work.                                                       *)

(* The calls at work on the page of a tab. *)
WorkingOn(t) == {u \in Use : use[u].tab = t /\ use[u].at \in {"poll", "asking"}}

Moves(t) ==
  /\ pages < MaxPage
  /\ pages' = pages + 1
  /\ shows' = [shows EXCEPT ![t] = [is |-> pages', complete |-> FALSE]]

Navigates(u) ==
  /\ use[u].at = "command" /\ ~Shut(use[u].tab)
  /\ Moves(use[u].tab)
  /\ use' = [v \in Use |-> IF v = u THEN [use[u] EXCEPT !.at = "poll", !.own = pages']
                           ELSE [use[v] EXCEPT !.moved = @ \/ v \in WorkingOn(use[u].tab)]]
  /\ UNCHANGED <<tabs, active, attached, meant, overruled>>

(* Mutant of Polls: it does not wait. *)
PollsNot(u) ==
  /\ use[u].at = "poll" /\ ~Shut(use[u].tab)
  /\ Goes(u, "asking")
  /\ UNCHANGED <<tabs, shows, pages, active, attached, meant, overruled>>

(* It waits until the page is complete, or for so long. *)
Polls(u) ==
  /\ use[u].at = "poll" /\ ~Shut(use[u].tab)
  /\ \E late \in BOOLEAN :
       /\ shows[use[u].tab].complete \/ late
       /\ use' = [use EXCEPT ![u].at = "asking", ![u].late = late]
  /\ UNCHANGED <<tabs, shows, pages, active, attached, meant, overruled>>

Wants(tool) == IF tool = "read" THEN 3 ELSE 2

(* One answer of the page that is there. *)
Answers(u) ==
  /\ use[u].at = "asking" /\ ~Shut(use[u].tab)
  /\ LET got == Append(use[u].got, shows[use[u].tab].is) IN
     use' = [use EXCEPT ![u].got = got,
                        ![u].at = IF Len(got) = Wants(use[u].tool) THEN "done" ELSE @]
  /\ UNCHANGED <<tabs, shows, pages, active, attached, meant, overruled>>

----------------------------------------------------------------------------
(* The window.                                                             *)

Completes(t) ==
  /\ t \in tabs.open /\ ~shows[t].complete
  /\ shows' = [shows EXCEPT ![t].complete = TRUE]
  /\ UNCHANGED <<tabs, pages, active, attached, use, meant, overruled>>

(* A link is followed, or the page goes elsewhere by itself. *)
Follows(t) ==
  /\ t \in tabs.open
  /\ Moves(t)
  /\ use' = [v \in Use |-> [use[v] EXCEPT !.moved = @ \/ v \in WorkingOn(t)]]
  /\ UNCHANGED <<tabs, active, attached, meant, overruled>>

Opens ==
  /\ tabs.made < MaxTab
  /\ tabs' = [made |-> tabs.made + 1, open |-> tabs.open \cup {tabs.made + 1}]
  /\ UNCHANGED <<shows, pages, active, attached, use, meant, overruled>>

Closes(t) ==
  /\ t \in tabs.open
  /\ tabs' = [tabs EXCEPT !.open = @ \ {t}]
  /\ UNCHANGED <<shows, pages, active, attached, use, meant, overruled>>

TabsNext ==
  \/ \E u \in Use :
       \/ \E tool \in Tool : Asks(u, tool)
       \/ Lists(u) \/ Picks(u) \/ Makes(u) \/ Attaches(u) \/ GivesUp(u)
       \/ \E t \in Tab : Activates(u, t)
       \/ Navigates(u) \/ Polls(u) \/ Answers(u)
  \/ \E t \in Tab : Completes(t) \/ Follows(t) \/ Closes(t)
  \/ Opens

----------------------------------------------------------------------------
(* Properties.                                                             *)

Through(u) == use[u].at = "done" /\ use[u].tool # "activate"

(* What a call returns is of one page, and of a navigation the page it went *)
(* to, complete unless it says that it timed out: as long as nobody else    *)
(* moved the tab under it.                                                 *)
AnswersAgree ==
  \A u \in Use : Through(u) /\ ~use[u].moved =>
    /\ Cardinality(Range(use[u].got)) = 1
    /\ use[u].tool = "navigate" =>
         /\ use[u].got[1] = use[u].own
         /\ LET p == shows[use[u].tab] IN p.is = use[u].own => use[u].late \/ p.complete

(* A tab that was activated is the one that calls made afterwards work in, *)
(* while it is open and no other was activated.  The code departs from that *)
(* where a call has asked for the tabs before that one was there: it takes *)
(* another, or makes one, and that is then the active one for all.         *)
ActivationHolds ==
  ~overruled => \A u \in Use :
    use[u].at \in {"attach", "command", "poll", "asking", "done"} /\ use[u].tool # "activate"
      /\ use[u].told # NoTab => use[u].tab = use[u].told
=============================================================================
