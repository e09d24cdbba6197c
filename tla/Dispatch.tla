------------------------------ MODULE Dispatch ------------------------------
(***************************************************************************)
(* The two buses of one agent and the dispatch of tool calls over them.    *)
(*                                                                         *)
(* An emission is synchronous and works on a copy of the subscriptions;    *)
(* listeners subscribe and unsubscribe meanwhile, throw, and emit in turn, *)
(* so emissions nest.  The orchestrator listens to the replies and invokes *)
(* the handler of every call in one loop: a handler that is not async may  *)
(* throw out of that loop, and the emission swallows it.  What a call      *)
(* settles with is emitted later, from a promise job.                      *)
(*                                                                         *)
(* `due', `served' and `order' are history.                                *)
(***************************************************************************)
EXTENDS Integers, SequencesExt

CONSTANTS
  Listener,     \* subscriptions of the plugins
  Conductor,    \* the orchestrator's own, to the replies
  Call,         \* tool calls
  MaxReplies,   \* bound: replies
  MaxChanges    \* bound: what listeners do to the bus during emissions

ASSUME ConductorAssumption == Conductor \notin Listener
ASSUME DispatchBounds ==
  MaxReplies \in Nat /\ MaxChanges \in Nat /\ IsFiniteSet(Listener) /\ IsFiniteSet(Call)

Event == {"llm.return", "tool.result"}
Subscriber == Listener \cup {Conductor}

VARIABLES
  subs,       \* per event: the subscriptions, oldest first
  stack,      \* emissions and dispatch loops under way, the innermost last
  found,      \* per call: what its name finds on the action bus
  outcome,    \* per call: how far it has come
  order,      \* the calls of each reply
  conducting, \* the orchestrator's `running'
  replies, changes

dvars == <<subs, stack, found, outcome, order, conducting, replies, changes>>

Found == {"async", "unknown", "throws"}
Outcome == {"none", "asked", "out", "reported", "dropped"}

Top == stack[Len(stack)]
Pop == SubSeq(stack, 1, Len(stack) - 1)
Idle == stack = <<>>

Emission(ev, calls) ==
  [at |-> ev, calls |-> calls, copy |-> subs[ev], next |-> 1,
   due |-> ToSet(subs[ev]), served |-> {}]
Loop(calls) == [Emission("llm.return", calls) EXCEPT !.at = "loop"]

DTypeOK ==
  /\ \A ev \in Event : subs[ev] \in Seq(Subscriber) /\ IsInjective(subs[ev])
  /\ \A i \in DOMAIN stack :
       /\ stack[i].at \in Event \cup {"loop"}
       /\ stack[i].calls \in Seq(Call)
       /\ stack[i].due \subseteq Subscriber /\ stack[i].served \subseteq Subscriber
  /\ found \in [Call -> Found]
  /\ outcome \in [Call -> Outcome]
  /\ order \in Seq(Seq(Call))
  /\ conducting \in BOOLEAN
  /\ replies \in 0..MaxReplies /\ changes \in 0..MaxChanges

(* The orchestrator has started; plugins that were set up before listen. *)
DInit ==
  /\ \E L \in SUBSET Listener :
       subs = [ev \in Event |-> SetToSeq(L) \o (IF ev = "llm.return" THEN <<Conductor>> ELSE <<>>)]
  /\ stack = <<>>
  /\ found \in [Call -> Found]
  /\ outcome = [c \in Call |-> "none"]
  /\ order = <<>>
  /\ conducting = TRUE
  /\ replies = 0 /\ changes = 0

----------------------------------------------------------------------------
(* An emission.                                                            *)

(* Mutant of Targets: the array itself, from which an unsub cuts. *)
TargetsLive(f) == subs[f.at]

(* "Snapshot so (un)subscribes during emit don't corrupt iteration". *)
Targets(f) == f.copy

(* llm-core reports a reply: ok with calls, or none (a failure has none). *)
Return(calls) ==
  /\ Idle
  /\ replies < MaxReplies
  /\ replies' = replies + 1
  /\ order' = Append(order, calls)
  /\ outcome' = [c \in Call |-> IF c \in ToSet(calls) THEN "asked" ELSE outcome[c]]
  /\ stack' = <<Emission("llm.return", calls)>>
  /\ UNCHANGED <<subs, found, conducting, changes>>

(* A listener's turn.  It ends normally or throws, which is the same. *)
Serve ==
  /\ ~Idle
  /\ Top.at \in Event
  /\ Top.next <= Len(Targets(Top))
  /\ LET l == Targets(Top)[Top.next]
         f == [Top EXCEPT !.next = @ + 1, !.served = @ \cup {l}]
     IN stack' = IF l = Conductor /\ Top.calls # <<>>
                 THEN Append(Append(Pop, f), Loop(Top.calls))
                 ELSE Append(Pop, f)
  /\ UNCHANGED <<subs, found, outcome, order, conducting, replies, changes>>

(* Plugin code runs: the listener called last, or a handler of the loop. *)
InTurn == ~Idle /\ (Top.at = "loop" \/ Top.next > 1)

(* A listener, or a handler before its first await, emits in its turn. *)
EmitWithin(ev) ==
  /\ InTurn
  /\ changes < MaxChanges
  /\ changes' = changes + 1
  /\ stack' = Append(stack, Emission(ev, <<>>))
  /\ UNCHANGED <<subs, found, outcome, order, conducting, replies>>

(* on, from within a listener: a subscription of its own, at the end. *)
Subscribe(ev, l) ==
  /\ InTurn
  /\ changes < MaxChanges
  /\ l \notin ToSet(subs[ev])
  /\ changes' = changes + 1
  /\ subs' = [subs EXCEPT ![ev] = Append(@, l)]
  /\ UNCHANGED <<stack, found, outcome, order, conducting, replies>>

(* An Unsub, from within a listener: its own subscription and no other. *)
Unsubscribe(ev, l) ==
  /\ InTurn
  /\ changes < MaxChanges
  /\ l \in ToSet(subs[ev])
  /\ changes' = changes + 1
  /\ subs' = [subs EXCEPT ![ev] = RemoveFirst(@, l)]
  /\ stack' = [i \in DOMAIN stack |->
                 IF stack[i].at = ev THEN [stack[i] EXCEPT !.due = @ \ {l}] ELSE stack[i]]
  /\ UNCHANGED <<found, outcome, order, conducting, replies>>

EmissionEnds ==
  /\ ~Idle
  /\ Top.at \in Event
  /\ Top.next > Len(Targets(Top))
  /\ stack' = Pop
  /\ UNCHANGED <<subs, found, outcome, order, conducting, replies, changes>>

----------------------------------------------------------------------------
(* The dispatch of one reply's calls.                                      *)

(* Mutant of Throws: an unknown action throws instead of being rejected. *)
ThrowsUnknown(c) == found[c] \in {"throws", "unknown"}

(* invoke returns a promise, of a rejection for an unknown action; but it   *)
(* calls the handler unguarded.                                            *)
Throws(c) == found[c] = "throws"

(* onReturn's loop: the next call, or the end of the loop. *)
Invoke ==
  /\ ~Idle
  /\ Top.at = "loop"
  /\ LET calls == Top.calls IN
       IF Throws(Head(calls))
       THEN /\ outcome' = [c \in Call |-> IF c \in ToSet(calls) THEN "dropped" ELSE outcome[c]]
            /\ stack' = Pop
       ELSE /\ outcome' = [outcome EXCEPT ![Head(calls)] = "out"]
            /\ stack' = IF Len(calls) = 1 THEN Pop
                        ELSE Append(Pop, [Top EXCEPT !.calls = Tail(@)])
  /\ UNCHANGED <<subs, found, order, conducting, replies, changes>>

(* A call's promise settles, either way, and tool.result is emitted: also   *)
(* after the orchestrator has stopped.                                     *)
Settle(c) ==
  /\ Idle
  /\ outcome[c] = "out"
  /\ outcome' = [outcome EXCEPT ![c] = "reported"]
  /\ stack' = <<Emission("tool.result", <<>>)>>
  /\ UNCHANGED <<subs, found, order, conducting, replies, changes>>

(* stop: the subscription and the actions are taken back. *)
StopConducting ==
  /\ Idle
  /\ conducting
  /\ conducting' = FALSE
  /\ subs' = [subs EXCEPT !["llm.return"] = RemoveFirst(@, Conductor)]
  /\ UNCHANGED <<stack, found, outcome, order, replies, changes>>

Fresh == {c \in Call : outcome[c] = "none"}

DNext ==
  \/ \E calls \in SetToAllKPermutations(Fresh) \cup {<<>>} : Return(calls)
  \/ Serve \/ EmissionEnds \/ Invoke
  \/ \E ev \in Event : EmitWithin(ev)
  \/ \E ev \in Event, l \in Listener : Subscribe(ev, l) \/ Unsubscribe(ev, l)
  \/ \E c \in Call : Settle(c)
  \/ StopConducting

DFairness ==
  /\ WF_dvars(Serve) /\ WF_dvars(EmissionEnds) /\ WF_dvars(Invoke)
  /\ \A c \in Call : WF_dvars(Settle(c))

DSpec == DInit /\ [][DNext]_dvars /\ DFairness

----------------------------------------------------------------------------
(* Properties.                                                             *)

(* Whoever was subscribed when an emission began and has not unsubscribed  *)
(* has been called when it ends, whatever the listeners before it did.     *)
EveryListenerHears ==
  [][\A i \in DOMAIN stack :
       (i > Len(stack') /\ stack[i].at \in Event) => stack[i].due \subseteq stack[i].served]_dvars

(* One reply asks for t and, after it, for c. *)
Precedes(t, c) ==
  \E r \in DOMAIN order :
    \E i, j \in DOMAIN order[r] : i < j /\ order[r][i] = t /\ order[r][j] = c

(* Every call of a reply that the orchestrator hears ends in one           *)
(* tool.result, an unknown action's too; what a handler that throws where  *)
(* no promise catches it takes with it is itself and the calls after it in *)
(* the same reply, never those of another.                                 *)
EveryCallReports ==
  \A c \in Call :
    (outcome[c] = "asked" /\ conducting) ~>
      (outcome[c] = "reported"
         \/ \E t \in Call : found[t] = "throws" /\ (t = c \/ Precedes(t, c)))
=============================================================================
