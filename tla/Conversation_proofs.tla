------------------------ MODULE Conversation_proofs ------------------------
(***************************************************************************)
(* What a conversation keeps, for any number of send loops, tool calls,    *)
(* messages, triggers and reduction rounds.                                *)
(*                                                                         *)
(* A conversation takes steps of LLMCore, whose lock lets one loop run at a *)
(* time (LockInv); between its steps the ring and the transcript are held  *)
(* against the prompt that this loop has rendered.                         *)
(***************************************************************************)
EXTENDS MCFrames, LLMCore_proofs, SequenceTheorems, WellFoundedInduction

NobodyRuns == \A l \in Loop : ~Active(l)

(* The agent will compose once more before its loop ends. *)
Marked == \E k \in Key : triggered[k]

FramesInv ==
  /\ LockInv /\ ReportInv
  /\ rendered \in BOOLEAN /\ refused \in BOOLEAN
  /\ rendered => \E l \in Loop : pc[l] \in Composing
  /\ refused => ~composeUp /\ ~NobodyRuns
  /\ triggers = 0 => NobodyRuns

(* What a request that has returned carried has left the ring, which holds  *)
(* what the prompt has and what came too late for it; and an agent that is  *)
(* up ends no loop while the ring holds anything.                          *)
ToolsInv ==
  /\ RTypeOK
  /\ triggers = 0 => Held = {} /\ \A c \in Call : call[c] # "running"
  /\ Held \cup folded \cup read \cup burnt \cup shed \cup late \subseteq Settled
  /\ Held \cap (read \cup burnt) = {}
  /\ \A l \in Loop : HasPrompt(l) => folded \cap (read \cup burnt) = {}
  /\ \A l \in Loop : HasPrompt(l) \/ Refused(l) => Held \subseteq folded \cup late
  /\ UnreadForCause
  /\ composeUp /\ ~stopping =>
       /\ NobodyRuns => Held = {}
       /\ \A l \in Loop : pc[l] = "done" /\ ~Marked => Held = {}

Posted == {m \in Message : status[m] # "unsent"}

(* What is pending while a prompt goes out was there when it was rendered,  *)
(* and so was what its request has claimed, until it has returned.         *)
ReceiptsInv ==
  /\ WTypeOK
  /\ Posted \subseteq ToSet(transcript)
  /\ \A m \in pending : status[m] = "sent"
  /\ \A l \in Loop : HasPrompt(l) /\ pc[l] # "chat" => pending \subseteq shown \cup cut
  /\ \A l \in Loop : pc[l] = "tools" => \A c \in inFlightIds : c.req # frame[l].id
  /\ \A l \in Loop : pc[l] = "chat" \/ (pc[l] = "retry" /\ Refused(l)) =>
       \A c \in inFlightIds : c.req = frame[l].id => c.msg \in shown \cup cut
  /\ ReadMeansGiven

(* A frame that was refused its recompose leaves its pressure, but then no  *)
(* other begins.                                                           *)
PressureInv ==
  /\ triggers = 0 => pressureRound = 0
  /\ composeUp /\ ~stopping /\ (\A l \in Loop : pc[l] \in {"free", "compose", "done"})
       => pressureRound = 0
  /\ ~stopping => \A l \in Loop : pc[l] = "compose" => pressureRound = 0

(* What was posted is in the prompt of a loop that will not compose again. *)
MessagesInv ==
  composeUp /\ ~stopping /\ triggers > 0 =>
    /\ \A l \in Loop : HasPrompt(l) /\ ~Marked => Posted \subseteq shown \cup given \cup cut
    /\ \A l \in Loop : pc[l] = "done" /\ ~Marked => Posted \subseteq given \cup cut
    /\ NobodyRuns => Posted \subseteq given \cup cut

NInv == FramesInv /\ ToolsInv /\ ReceiptsInv /\ PressureInv /\ MessagesInv

----------------------------------------------------------------------------
(* The elements of a sequence.                                             *)

LEMMA SetOfAppend ==
  ASSUME NEW S, NEW s \in Seq(S), NEW e \in S
  PROVE Append(s, e) \in Seq(S) /\ ToSet(Append(s, e)) = ToSet(s) \cup {e}
<1>1. /\ Append(s, e) \in Seq(S)
      /\ DOMAIN s = 1..Len(s) /\ DOMAIN Append(s, e) = 1..(Len(s) + 1) /\ Len(s) \in Nat
      /\ \A i \in 1..Len(s) : Append(s, e)[i] = s[i]
      /\ Append(s, e)[Len(s) + 1] = e
  BY AppendProperties, LenProperties
<1>2. ToSet(Append(s, e)) \subseteq ToSet(s) \cup {e}
  <2> SUFFICES ASSUME NEW i \in 1..(Len(s) + 1) PROVE Append(s, e)[i] \in ToSet(s) \cup {e}
    BY <1>1 DEF ToSet
  <2> QED
    BY <1>1 DEF ToSet
<1>3. ToSet(s) \cup {e} \subseteq ToSet(Append(s, e))
  <2>1. ASSUME NEW i \in 1..Len(s) PROVE s[i] \in ToSet(Append(s, e))
    BY <1>1 DEF ToSet
  <2>2. e \in ToSet(Append(s, e))
    BY <1>1 DEF ToSet
  <2> QED
    BY <1>1, <2>1, <2>2 DEF ToSet
<1> QED
  BY <1>1, <1>2, <1>3

LEMMA SetOfTail ==
  ASSUME NEW S, NEW s \in Seq(S), s # <<>>
  PROVE /\ Tail(s) \in Seq(S) /\ Len(Tail(s)) = Len(s) - 1
        /\ ToSet(s) \subseteq ToSet(Tail(s)) \cup {Head(s)}
        /\ ToSet(Tail(s)) \subseteq ToSet(s) /\ Head(s) \in ToSet(s)
<1>1. /\ Tail(s) \in Seq(S) /\ Len(Tail(s)) = Len(s) - 1 /\ Len(s) \in Nat \ {0}
      /\ DOMAIN s = 1..Len(s) /\ DOMAIN Tail(s) = 1..(Len(s) - 1)
      /\ \A i \in 1..(Len(s) - 1) : Tail(s)[i] = s[i + 1]
      /\ Head(s) = s[1]
  BY HeadTailProperties, LenProperties, EmptySeq
<1>2. ASSUME NEW i \in 1..Len(s) PROVE s[i] \in ToSet(Tail(s)) \cup {Head(s)}
  <2>1. CASE i = 1
    BY <1>1, <2>1
  <2>2. CASE i # 1
    <3>1. i - 1 \in 1..(Len(s) - 1) /\ (i - 1) + 1 = i
      BY <1>1, <2>2
    <3>2. Tail(s)[i - 1] = s[i]
      BY <1>1, <3>1
    <3> QED
      BY <1>1, <3>1, <3>2 DEF ToSet
  <2> QED
    BY <2>1, <2>2
<1>3. ASSUME NEW i \in 1..(Len(s) - 1) PROVE Tail(s)[i] \in ToSet(s)
  <2>1. i + 1 \in 1..Len(s)
    BY <1>1
  <2> QED
    BY <1>1, <2>1 DEF ToSet
<1>4. Head(s) \in ToSet(s)
  BY <1>1 DEF ToSet
<1> QED
  BY <1>1, <1>2, <1>3, <1>4 DEF ToSet

(* What is left after the oldest are dropped. *)
LEMMA RestIndex ==
  ASSUME NEW n \in Nat, NEW m \in Nat
  PROVE  /\ n - (m + 1) + 1 = n - m
         /\ \A i \in 1..(n - m) : (m + 1) + i - 1 = m + i
         /\ (IF m + 1 <= n THEN n - m ELSE 0) \in 0..n
         /\ \A i \in 1..(IF m + 1 <= n THEN n - m ELSE 0) : i \in 1..(n - m) /\ m + i \in 1..n
OBVIOUS

LEMMA SetOfRest ==
  ASSUME NEW S, NEW s \in Seq(S), NEW m \in Nat
  PROVE LET kept == SubSeq(s, m + 1, Len(s)) IN
        kept \in Seq(S) /\ Len(kept) <= Len(s) /\ ToSet(kept) \subseteq ToSet(s)
<1> DEFINE kept == SubSeq(s, m + 1, Len(s))
           n == Len(s)
           l == IF m + 1 <= n THEN n - m ELSE 0
<1>1. n \in Nat /\ DOMAIN s = 1..n
  BY LenProperties
<1>2. /\ n - (m + 1) + 1 = n - m
      /\ \A i \in 1..(n - m) : (m + 1) + i - 1 = m + i
      /\ l \in 0..n
      /\ \A i \in 1..l : i \in 1..(n - m) /\ m + i \in 1..n
  <2> HIDE DEF n
  <2> QED
    BY <1>1, RestIndex
<1>3. /\ kept \in Seq(S)
      /\ Len(kept) = IF m + 1 <= n THEN n - (m + 1) + 1 ELSE 0
      /\ \A i \in 1..(n - (m + 1) + 1) : kept[i] = s[(m + 1) + i - 1]
  <2>1. m + 1 \in Int /\ n \in Int /\ \A i \in (m + 1)..n : s[i] \in S
    BY <1>1, ElementOfSeq
  <2> QED
    BY <2>1, SubSeqProperties
<1> HIDE DEF kept, n
<1>4. Len(kept) = l /\ \A i \in 1..(n - m) : kept[i] = s[m + i]
  BY <1>2, <1>3, Zenon
<1>5. DOMAIN kept = 1..l
  BY <1>3, <1>4, LenProperties
<1> HIDE DEF l
<1>6. \A i \in DOMAIN kept : kept[i] = s[m + i] /\ m + i \in DOMAIN s
  BY <1>1, <1>2, <1>4, <1>5, Zenon
<1>7. ToSet(kept) \subseteq ToSet(s)
  BY <1>6, Zenon DEF ToSet
<1>8. Len(kept) <= n
  BY <1>1, <1>2, <1>4
<1> QED
  BY <1>3, <1>7, <1>8 DEF kept, n

----------------------------------------------------------------------------
(* One loop runs at a time.                                                *)

LEMMA Alone ==
  ASSUME FramesInv
  PROVE \A l, m \in Loop : Active(l) /\ Active(m) => l = m
<1> SUFFICES ASSUME NEW l \in Loop, NEW m \in Loop, Active(l), Active(m) PROVE l = m
  OBVIOUS
<1>1. frame[l].key \in Key /\ frame[m].key \in Key
  BY DEF FramesInv, LockInv, TypeOK, Frame
<1> QED
  BY <1>1, OneAgentAssumption DEF FramesInv, LockInv, SingleFlight

(* The mark is the one of the loop's id: there is no other. *)
LEMMA TheMark ==
  ASSUME TypeOK, NEW l \in Loop
  PROVE /\ Marked <=> triggered[frame[l].key]
        /\ frame[l].key \in Key
<1>1. frame[l].key \in Key
  BY DEF TypeOK, Frame
<1> QED
  BY <1>1, OneAgentAssumption DEF Marked

----------------------------------------------------------------------------
(* What a step of the send loop is to those who hear of it.                *)

(* The request is announced. *)
Announces(l) ==
  /\ pc[l] = "tools" /\ pc'[l] = "chat"
  /\ frame' = frame
  /\ UNCHANGED <<seq, returned, triggered>>

(* The send is over and says so: the reply of the request that is out, the *)
(* error of one whose retry cannot be composed, or the refusal of one that *)
(* nobody could make.                                                      *)
Finishes(l) ==
  /\ ~stopping /\ (HasPrompt(l) \/ Refused(l)) /\ pc'[l] = "done"
  /\ \/ /\ pc[l] = "chat" \/ (pc[l] = "retry" /\ Refused(l))
        /\ frame'[l].id = frame[l].id /\ seq' = seq
     \/ frame'[l].id = seq + 1 /\ seq' = seq + 1
  /\ \E ok \in BOOLEAN : returned' = Append(returned, [id |-> frame'[l].id, ok |-> ok])
  /\ UNCHANGED triggered

(* One round more. *)
Shrinks(l) ==
  /\ HasPrompt(l) /\ pc'[l] \in {"recompose", "retry"} /\ (pc'[l] = "retry" => pc[l] = "chat")
  /\ frame'[l].id = frame[l].id /\ frame'[l].round = frame[l].round + 1
  /\ UNCHANGED <<seq, sent, returned, triggered>>

(* The prompt stands; a request gets an id that no other had. *)
Readies(l) ==
  /\ HasPrompt(l) /\ pc[l] # "chat"
  /\ \/ pc'[l] = "listing" /\ seq' = seq
     \/ pc'[l] = "tools" /\ frame'[l].id = seq + 1 /\ seq' = seq + 1
  /\ UNCHANGED <<returned, triggered>>

Again(l) ==
  /\ pc[l] = "done"
  /\ pc'[l] = IF ~stopping /\ composeUp THEN "compose" ELSE "done"
  /\ UNCHANGED <<seq, returned>>

Ends(l) ==
  /\ pc[l] = "done" /\ pc'[l] = "free" /\ ~Marked
  /\ UNCHANGED <<seq, returned, triggered>>

(* Its compose was refused, and nothing had been sent. *)
Abandons(l) ==
  /\ Refused(l) /\ pc'[l] = "done"
  /\ UNCHANGED <<seq, returned, triggered>>

Falls(l) ==
  /\ stopping /\ pc'[l] \in {"done", "free"}
  /\ UNCHANGED <<seq, returned>>

Turns(l) ==
  \/ Announces(l) \/ Finishes(l) \/ Shrinks(l) \/ Readies(l) \/ Again(l) \/ Ends(l) \/ Falls(l)
  \/ Abandons(l)

(* A dispatch that is not silenced has a prompt behind it. *)
LEMMA DispatchTurns ==
  ASSUME TypeOK, NEW l \in Loop, Dispatch(l), HasPrompt(l), pc[l] # "chat", UNCHANGED <<triggered, sent>>
  PROVE Turns(l)
<1>1. pc \in [Loop -> Await \cup {"free"}] /\ frame \in [Loop -> Frame] /\ frame[l] \in Frame
  BY DEF TypeOK
<1>2. CASE stopping
  BY <1>1, <1>2 DEF Dispatch, EndSend, Park, bus, Falls, Turns
<1>3. CASE ~stopping /\ config.canChat
  <2>1. pc'[l] = "tools" /\ seq' = seq + 1 /\ returned' = returned /\ frame'[l].id = seq + 1
    BY <1>1, <1>3 DEF Dispatch, Park, Frame
  <2> QED
    BY <2>1 DEF Readies, Turns
<1>4. CASE ~stopping /\ ~config.canChat
  <2>1. /\ pc'[l] = "done" /\ seq' = seq + 1 /\ frame'[l].id = seq + 1
        /\ returned' = Append(returned, [id |-> seq + 1, ok |-> FALSE])
    BY <1>1, <1>4 DEF Dispatch, Park, Frame
  <2>2. \E ok \in BOOLEAN : returned' = Append(returned, [id |-> frame'[l].id, ok |-> ok])
    BY <2>1
  <2> QED
    BY <1>4, <2>1, <2>2 DEF Finishes, Turns
<1> QED
  BY <1>2, <1>3, <1>4

LEMMA ShrinkTurns ==
  ASSUME TypeOK, NEW l \in Loop, NEW p \in {"recompose", "retry"}, NEW est, Shrink(l, p, est),
         HasPrompt(l), UNCHANGED triggered, p = "retry" => pc[l] = "chat"
  PROVE Shrinks(l)
<1>1. pc \in [Loop -> Await \cup {"free"}] /\ frame \in [Loop -> Frame] /\ frame[l] \in Frame
  BY DEF TypeOK
<1>2. pc'[l] = p /\ frame'[l].id = frame[l].id /\ frame'[l].round = frame[l].round + 1
  BY <1>1 DEF Shrink, Park, Frame
<1> QED
  BY <1>2 DEF Shrink, bus, Shrinks

LEMMA SettleTurns ==
  ASSUME TypeOK, NEW l \in Loop, NEW est \in Estimate, Settle(l, est), HasPrompt(l), pc[l] # "chat",
         UNCHANGED <<triggered, output>>
  PROVE Turns(l)
<1>1. CASE Dispatch(l)
  BY <1>1, DispatchTurns DEF Dispatch, EndSend, bus
<1>2. CASE stopping /\ Throw(l)
  BY <1>2 DEF TypeOK, Throw, Free, Park, bus, Falls, Turns
<1>3. CASE Shrink(l, "recompose", est)
  BY <1>3, ShrinkTurns DEF Turns
<1> QED
  BY <1>1, <1>2, <1>3 DEF Settle

LEMMA ReportTurns ==
  ASSUME TypeOK, NEW l \in Loop, NEW ok \in BOOLEAN, Report(l, ok), pc[l] = "chat", UNCHANGED triggered
  PROVE Turns(l)
<1>1. pc'[l] = "done" /\ frame' = frame /\ seq' = seq
  BY DEF TypeOK, Report, Park
<1>2. CASE stopping
  BY <1>1, <1>2 DEF Report, Falls, Turns
<1>3. CASE ~stopping
  BY <1>1, <1>3 DEF Report, HasPrompt, Finishes, Turns
<1> QED
  BY <1>2, <1>3

LEMMA SendStepTurns ==
  ASSUME TypeOK, NEW l \in Loop, SendStep(l)
  PROVE /\ Step(l) /\ Active(l) /\ Others(l) /\ UNCHANGED world /\ rendered' = FALSE
        /\ refused' = (pc'[l] \in Composing /\ ~composeUp)
        /\ Turns(l)
<1>1. Step(l) /\ rendered' = FALSE /\ refused' = (pc'[l] \in Composing /\ ~composeUp)
  BY DEF SendStep, Step
<1>2. Active(l) /\ UNCHANGED world /\ Others(l)
  BY <1>1, StepShape, StepAttempt
<1> SUFFICES Turns(l)
  BY <1>1, <1>2
<1>3. HasPrompt(l) \/ pc[l] = "done" \/ Refused(l)
  BY <1>2 DEF SendStep, Composing, HasPrompt, Composed, Listed, Recomposed, ToolsListed, ChatOk,
    ChatOverflow, ChatFailed, RetryComposed, LoopAgain, LoopEnd
<1>0. pc \in [Loop -> Await \cup {"free"}] /\ frame \in [Loop -> Frame] /\ frame[l] \in Frame
  BY DEF TypeOK
<1>4. CASE Composed(l) /\ ~Refused(l)
  <2>1. HasPrompt(l) /\ pc[l] # "chat" /\ UNCHANGED triggered
    BY <1>3, <1>4 DEF Composed, Unlocked
  <2>2. CASE Dispatch(l)
    BY <2>1, <2>2, DispatchTurns DEF Dispatch, EndSend, bus
  <2>3. CASE stopping /\ Throw(l)
    BY <1>0, <2>3 DEF Throw, Free, Park, bus, Falls, Turns
  <2>4. CASE Park(l, "listing") /\ UNCHANGED <<frame, seq, crashed, inFlight, bus>>
    BY <1>0, <2>1, <2>4 DEF Park, bus, Readies, Turns
  <2> QED
    BY <1>4, <2>2, <2>3, <2>4 DEF Composed
<1>5. CASE Listed(l) /\ ~Refused(l)
  <2>1. HasPrompt(l) /\ pc[l] # "chat" /\ UNCHANGED <<triggered, output>>
    BY <1>3, <1>5 DEF Listed, Unlocked
  <2>2. CASE Dispatch(l)
    BY <2>1, <2>2, DispatchTurns DEF Dispatch, EndSend, bus
  <2>3. CASE stopping /\ EndSend(l)
    BY <1>0, <2>3 DEF EndSend, Park, bus, Falls, Turns
  <2>4. CASE \E est \in Estimate : Settle(l, est)
    BY <2>1, <2>4, SettleTurns
  <2> QED
    BY <1>5, <2>2, <2>3, <2>4 DEF Listed
<1>6. CASE Recomposed(l) /\ ~Refused(l)
  <2>1. HasPrompt(l) /\ pc[l] # "chat" /\ UNCHANGED <<triggered, output>>
    BY <1>3, <1>6 DEF Recomposed, Unlocked
  <2> QED
    BY <1>6, <2>1, SettleTurns DEF Recomposed
<1>7. CASE ToolsListed(l)
  <2>1. CASE stopping
    BY <1>0, <1>7, <2>1 DEF ToolsListed, Throw, Free, Park, bus, Falls, Turns
  <2>2. CASE ~stopping
    BY <1>0, <1>7, <2>2 DEF ToolsListed, Park, Unlocked, Announces, Turns
  <2> QED
    BY <2>1, <2>2
<1>8. CASE ChatOk(l) \/ ChatFailed(l)
  <2>1. pc[l] = "chat" /\ UNCHANGED triggered /\ \E ok \in BOOLEAN : Report(l, ok)
    BY <1>8 DEF ChatOk, ChatFailed, Unlocked
  <2> QED
    BY <2>1, ReportTurns
<1>9. CASE ChatOverflow(l)
  <2>1. CASE stopping
    BY <1>0, <1>9, <2>1 DEF ChatOverflow, EndSend, Park, bus, Falls, Turns
  <2>2. CASE ~stopping
    <3>1. /\ Shrink(l, "retry", frame[l].last) /\ HasPrompt(l) /\ UNCHANGED triggered
          /\ pc[l] = "chat"
      BY <1>9, <2>2 DEF ChatOverflow, HasPrompt, Unlocked
    <3> QED
      BY <3>1, ShrinkTurns DEF Turns
  <2> QED
    BY <2>1, <2>2
<1>10. CASE RetryComposed(l) /\ ~Refused(l)
  <2>1. HasPrompt(l) /\ pc[l] # "chat" /\ UNCHANGED triggered /\ Dispatch(l)
    BY <1>3, <1>10 DEF RetryComposed, Unlocked
  <2> QED
    BY <2>1, DispatchTurns DEF Dispatch, EndSend, bus
<1>11. CASE LoopAgain(l)
  BY <1>0, <1>11 DEF LoopAgain, BeginSend, Park, bus, Again, Turns
<1>12. CASE LoopEnd(l)
  BY <1>0, <1>12, TheMark DEF LoopEnd, Free, Park, bus, Ends, Turns
<1>13. CASE Refused(l) /\ ComposeFailed(l)
  <2>1. CASE stopping
    BY <1>0, <1>13, <2>1 DEF ComposeFailed, Throw, Free, Park, bus, Falls, Turns
  <2>2. CASE ~stopping
    BY <1>0, <1>13, <2>2 DEF ComposeFailed, EndSend, Park, bus, Unlocked, Abandons, Turns
  <2> QED
    BY <2>1, <2>2
<1>14. CASE Refused(l) /\ RetryComposeFailed(l)
  <2>1. CASE stopping
    BY <1>0, <1>14, <2>1 DEF RetryComposeFailed, Throw, Free, Park, bus, Falls, Turns
  <2>2. CASE ~stopping
    BY <1>0, <1>14, <2>2 DEF RetryComposeFailed, Report, Park, Unlocked, Finishes, Turns
  <2> QED
    BY <2>1, <2>2
<1> QED
  BY <1>1, <1>2, <1>4, <1>5, <1>6, <1>7, <1>8, <1>9, <1>10, <1>11, <1>12, <1>13, <1>14 DEF SendStep

(* What a step neither announces nor takes a round for. *)
Stays(l) == sent' = sent /\ frame'[l].round \in 0..frame[l].round

LEMMA DispatchStays ==
  ASSUME TypeOK, NEW l \in Loop, Dispatch(l)
  PROVE Stays(l)
<1>1. frame \in [Loop -> Frame] /\ frame[l] \in Frame /\ frame[l].round \in Nat
  BY DEF TypeOK, Frame
<1>2. sent' = sent /\ frame'[l].round = frame[l].round
  BY <1>1 DEF Dispatch, EndSend, bus, Frame
<1> QED
  BY <1>1, <1>2 DEF Stays

LEMMA FreeStays ==
  ASSUME TypeOK, NEW l \in Loop, Free(l), sent' = sent
  PROVE Stays(l)
<1>1. frame \in [Loop -> Frame] /\ frame[l].round \in Nat /\ frame'[l].round = 0
  BY NoFrameType DEF TypeOK, Frame, Free
<1> QED
  BY <1>1 DEF Stays

LEMMA SettleStays ==
  ASSUME TypeOK, NEW l \in Loop, NEW est \in Estimate, Settle(l, est), HasPrompt(l), UNCHANGED triggered
  PROVE Shrinks(l) \/ Stays(l)
<1>1. CASE Dispatch(l)
  BY <1>1, DispatchStays
<1>2. CASE Throw(l)
  BY <1>2, FreeStays DEF Throw, bus
<1>3. CASE Shrink(l, "recompose", est)
  BY <1>3, ShrinkTurns
<1> QED
  BY <1>1, <1>2, <1>3 DEF Settle

LEMMA SendStepStays ==
  ASSUME TypeOK, NEW l \in Loop, SendStep(l)
  PROVE Announces(l) \/ Shrinks(l) \/ Stays(l)
<1>1. frame \in [Loop -> Frame] /\ frame[l] \in Frame /\ frame[l].round \in Nat
  BY DEF TypeOK, Frame
<1>2. frame' = frame /\ sent' = sent => Stays(l)
  BY <1>1 DEF Stays
<1>3. CASE Composed(l)
  BY <1>2, <1>3, DispatchStays, FreeStays DEF Composed, Throw, bus
<1>4. CASE Listed(l)
  BY <1>2, <1>4, DispatchStays, SettleStays DEF Listed, EndSend, bus, HasPrompt, Unlocked
<1>5. CASE Recomposed(l) /\ ~Refused(l)
  BY <1>5, SettleStays DEF Recomposed, SendStep, Composing, HasPrompt, Unlocked
<1>6. CASE ToolsListed(l)
  <2>1. CASE stopping
    BY <1>6, <2>1, FreeStays DEF ToolsListed, Throw, bus
  <2>2. CASE ~stopping
    BY <1>6, <2>2 DEF ToolsListed, TypeOK, Park, Unlocked, Announces
  <2> QED
    BY <2>1, <2>2
<1>7. CASE ChatOk(l) \/ ChatFailed(l)
  BY <1>2, <1>7 DEF ChatOk, ChatFailed, Report
<1>8. CASE ChatOverflow(l)
  <2>1. CASE EndSend(l)
    BY <1>2, <2>1 DEF EndSend, bus
  <2>2. CASE Shrink(l, "retry", frame[l].last)
    <3>1. HasPrompt(l) /\ UNCHANGED triggered /\ pc[l] = "chat"
      BY <1>8 DEF ChatOverflow, HasPrompt, Unlocked
    <3> QED
      BY <2>2, <3>1, ShrinkTurns
  <2> QED
    BY <1>8, <2>1, <2>2 DEF ChatOverflow
<1>9. CASE RetryComposed(l)
  BY <1>9, DispatchStays DEF RetryComposed
<1>10. CASE LoopAgain(l)
  <2>1. sent' = sent /\ frame'[l].round = 0
    BY <1>1, <1>10 DEF LoopAgain, BeginSend, NewFrame, bus
  <2> QED
    BY <1>1, <2>1 DEF Stays
<1>11. CASE LoopEnd(l)
  BY <1>11, FreeStays DEF LoopEnd, bus
<1>12. CASE ComposeFailed(l) \/ RetryComposeFailed(l)
  BY <1>2, <1>12, FreeStays DEF ComposeFailed, RetryComposeFailed, Throw, EndSend, Report, bus
<1> QED
  BY <1>3, <1>4, <1>5, <1>6, <1>7, <1>8, <1>9, <1>10, <1>11, <1>12 DEF SendStep

(* The steps as they are heard. *)
LEMMA Heard ==
  ASSUME FramesInv, NEW l \in Loop, Turn(l)
  PROVE /\ UNCHANGED world /\ Active(l)
        /\ \A m \in Loop \ {l} : pc[m] = "free" /\ pc'[m] = "free"
        /\ \/ Finishes(l) /\ ReturnHeard(l)
           \/ Shrinks(l) /\ PressureHeard(l)
           \/ Announces(l) /\ SentHeard(l)
           \/ /\ Announces(l) \/ Readies(l) \/ Again(l) \/ Ends(l) \/ Falls(l) \/ Abandons(l)
              /\ Unheard(l)
           \/ BlocksRendered(l)
<1>1. TypeOK /\ returned \in Seq([id : Nat, ok : BOOLEAN])
  BY DEF FramesInv, LockInv, TypeOK
<1>2. ASSUME SendStep(l)
      PROVE /\ UNCHANGED world /\ Active(l) /\ Others(l) /\ Turns(l)
            /\ Announces(l) \/ Shrinks(l) \/ Stays(l)
  BY <1>1, <1>2, SendStepTurns, SendStepStays
<1>3. CASE BlocksRendered(l)
  BY <1>3, Alone DEF BlocksRendered, Render, Composing, Active, vars, world
<1>4. CASE SendStep(l)
  <2>0. /\ UNCHANGED world /\ Active(l)
        /\ \A m \in Loop \ {l} : pc[m] = "free" /\ pc'[m] = "free"
    BY <1>2, <1>4, Alone DEF Others, Active
  <2>1. frame[l].round \in Nat /\ frame'[l].round = frame[l].round + 1 => frame'[l].round > frame[l].round
    OBVIOUS
  <2>2. frame[l].round \in Nat
    BY <1>1 DEF TypeOK, Frame
  <2>3. Finishes(l) => returned' # returned
    <3>1. \A e \in [id : Nat, ok : BOOLEAN] : Append(returned, e) # returned
      BY <1>1, AppendProperties, LenProperties
    <3>2. SUFFICES ASSUME Finishes(l) PROVE frame'[l].id \in Nat
      BY <3>1 DEF Finishes
    <3>3. frame[l].id \in Nat /\ seq \in Nat
      BY <1>1 DEF TypeOK, Frame
    <3> QED
      BY <3>2, <3>3 DEF Finishes
  <2>4. ReturnHeard(l) => Finishes(l)
    BY <1>2, <1>4 DEF ReturnHeard, Returns, Turns, Announces, Shrinks, Readies, Again, Ends, Falls, Abandons
  <2>5. frame'[l].round <= frame[l].round => ~Shrinks(l)
    BY <2>1, <2>2 DEF Shrinks
  <2>6. PressureHeard(l) => Shrinks(l)
    BY <1>2, <1>4, <2>2 DEF PressureHeard, Presses, Announces, Stays
  <2>7. SentHeard(l) => Announces(l)
    <3>1. Shrinks(l) => sent' = sent
      BY DEF Shrinks
    <3> QED
      BY <1>2, <1>4, <3>1 DEF SentHeard, Sends, Stays
  <2>8. Unheard(l) => Announces(l) \/ Readies(l) \/ Again(l) \/ Ends(l) \/ Falls(l) \/ Abandons(l)
    BY <1>2, <1>4, <2>3, <2>5 DEF Unheard, Passes, Turns
  <2> QED
    BY <1>3, <2>0, <2>4, <2>6, <2>7, <2>8 DEF Turn
<1> QED
  BY <1>3, <1>4 DEF Turn, ReturnHeard, Returns, PressureHeard, Presses, SentHeard, Sends, Unheard, Passes

----------------------------------------------------------------------------
(* What asking for a frame does: a loop that runs is marked, or one starts; *)
(* nothing when the agent is not up.                                       *)

Woken ==
  /\ UNCHANGED <<config, composeUp, stopping, seq, rendered, refused>>
  /\ triggers' = triggers \/ triggers' > 0
  /\ \A l \in Loop :
       \/ pc'[l] = pc[l] /\ frame'[l] = frame[l]
       \/ pc'[l] = "compose" /\ NobodyRuns
  /\ composeUp =>
       /\ triggers' > 0 /\ \E l \in Loop : pc'[l] # "free"
       /\ Marked' \/ (~rendered /\ \A l \in Loop : pc'[l] \in {"free", "compose"})
  /\ ~composeUp => UNCHANGED <<pc, triggers, triggered>>

LEMMA TickWakes ==
  ASSUME FramesInv, composeUp, OnTick
  PROVE Woken /\ [Next]_vars
<1>1. TypeOK /\ LockFollowsLoop /\ triggers \in Nat
  BY DEF FramesInv, LockInv, TypeOK
<1>2. rendered' = rendered /\ refused' = refused
  BY DEF OnTick
<1>3. ASSUME NEW k \in Key, TriggerBusy(k) PROVE Woken
  <2>1. /\ UNCHANGED <<config, composeUp, stopping, seq, pc, frame>>
        /\ triggers' > 0 /\ inFlight[k] /\ triggered'[k]
    BY <1>1, <1>3 DEF TriggerBusy, TypeOK
  <2>2. \E l \in Loop : pc[l] # "free"
    BY <1>1, <2>1 DEF LockFollowsLoop, Active
  <2>3. Marked'
    BY <2>1 DEF Marked
  <2>4. \A m \in Loop : pc'[m] = pc[m] /\ frame'[m] = frame[m]
    BY <2>1
  <2>5. \E m \in Loop : pc'[m] # "free"
    BY <2>1, <2>2
  <2> HIDE DEF Marked
  <2> QED
    BY <1>2, <2>1, <2>3, <2>4, <2>5 DEF Woken
<1>4. ASSUME NEW k \in Key, NEW l \in Loop, TriggerIdle(k, l) PROVE Woken
  <2>1. /\ UNCHANGED <<config, composeUp, stopping, seq>>
        /\ triggers' > 0 /\ ~inFlight[k]
        /\ pc' = [pc EXCEPT ![l] = "compose"]
        /\ \A m \in Loop \ {l} : frame'[m] = frame[m]
    BY <1>1, <1>4 DEF TriggerIdle, BeginSend, Park, TypeOK
  <2>2. NobodyRuns
    <3>1. \A m \in Loop : frame[m].key = k
      BY <1>1, OneAgentAssumption DEF TypeOK, Frame
    <3> QED
      BY <1>1, <2>1, <3>1 DEF LockFollowsLoop, NobodyRuns
  <2>3. /\ \A m \in Loop \ {l} : pc'[m] = pc[m] /\ pc[m] = "free"
        /\ pc'[l] = "compose" /\ ~rendered
    BY <1>1, <2>1, <2>2 DEF TypeOK, NobodyRuns, Active, FramesInv, Composing
  <2> QED
    BY <1>2, <2>1, <2>2, <2>3 DEF Woken
<1> QED
  BY <1>3, <1>4 DEF OnTick, Next, Environment

LEMMA FireWakes ==
  ASSUME FramesInv, FireNow
  PROVE Woken /\ [Next]_vars
<1>1. CASE composeUp
  BY <1>1, TickWakes DEF FireNow
<1>2. CASE ~composeUp
  <2>1. UNCHANGED <<vars, rendered, refused>>
    BY <1>2 DEF FireNow, fvars
  <2> QED
    BY <1>2, <2>1 DEF Woken, vars
<1> QED
  BY <1>1, <1>2

(* A prompt is not of a loop that has just started. *)
LEMMA WokenPrompt ==
  ASSUME FramesInv, Woken, NEW l \in Loop, HasPrompt(l)'
  PROVE HasPrompt(l) /\ pc'[l] = pc[l] /\ frame'[l] = frame[l]
<1>1. rendered' = rendered /\ (rendered => ~NobodyRuns)
  BY DEF Woken, FramesInv, Composing, NobodyRuns, Active
<1>2. pc'[l] = pc[l] /\ frame'[l] = frame[l]
  BY <1>1 DEF Woken, HasPrompt, Composing
<1> QED
  BY <1>1, <1>2 DEF HasPrompt

(* Nor is a refusal. *)
LEMMA WokenRefused ==
  ASSUME FramesInv, Woken, NEW l \in Loop, Refused(l)'
  PROVE Refused(l) /\ pc'[l] = pc[l] /\ frame'[l] = frame[l]
<1>1. refused' = refused /\ pc'[l] \in Composing
  BY DEF Woken, Refused
<1>2. ~NobodyRuns
  BY <1>1 DEF FramesInv, Refused
<1> QED
  BY <1>1, <1>2 DEF Woken, Refused

----------------------------------------------------------------------------
(* The frames themselves.                                                  *)

LEMMA FramesInvInit == FInit => FramesInv
<1>1. FInit => TypeOK /\ SingleFlight /\ LockFollowsLoop /\ NoForgottenTrigger
  BY LockInit DEF FInit, LockInv
<1>2. FInit => ReportInv
  BY ReportInit DEF FInit
<1>3. FInit => rendered = FALSE /\ refused = FALSE /\ NobodyRuns
  BY DEF FInit, Init, NobodyRuns, Active
<1> QED
  BY <1>1, <1>2, <1>3 DEF FramesInv, LockInv

(* An action of a conversation is one of the agent's, or is not its.       *)
LEMMA NextIsNext == FramesInv /\ NNext => [Next]_vars
<1> SUFFICES ASSUME FramesInv, NNext PROVE [Next]_vars
  OBVIOUS
<1>1. TypeOK
  BY DEF FramesInv, LockInv
<1>2. ASSUME NEW l \in Loop, Turn(l) PROVE [Next]_vars
  <2>1. SendStep(l) \/ UNCHANGED vars
    BY <1>2 DEF Turn, ReturnHeard, Returns, PressureHeard, Presses, SentHeard, Sends, Unheard,
      Passes, BlocksRendered, Render
  <2> QED
    BY <1>1, <2>1, SendStepTurns DEF Next
<1>3. ASSUME NEW c \in Call, ToolSettles(c) PROVE [Next]_vars
  BY <1>3, FireWakes DEF ToolSettles
<1>4. ASSUME NEW m \in Message, Post(m) PROVE [Next]_vars
  BY <1>4, FireWakes DEF Post
<1>5. CASE Tick
  BY <1>5, TickWakes DEF Tick
<1>6. CASE Start \/ Stop \/ TearDownAll
  BY <1>6 DEF Start, Stop, TearDownAll, OrchestratorStarts, OrchestratorStops, PluginsTornDown,
    Next, Environment
<1> QED
  BY <1>2, <1>3, <1>4, <1>5, <1>6 DEF NNext

LEMMA WokenFrames ==
  ASSUME FramesInv, Woken, LockInv', ReportInv'
  PROVE FramesInv'
<1>1. rendered' \in BOOLEAN /\ refused' \in BOOLEAN /\ rendered' = rendered
  BY DEF FramesInv, Woken
<1>2. rendered' => \E l \in Loop : pc'[l] \in Composing
  <2> SUFFICES ASSUME rendered PROVE \E l \in Loop : pc'[l] \in Composing
    BY <1>1
  <2> QED
    BY DEF FramesInv, Woken, Composing
<1>3. triggers' = 0 => NobodyRuns'
  <2> SUFFICES ASSUME triggers' = 0 PROVE NobodyRuns'
    OBVIOUS
  <2>1. triggers = 0 /\ ~composeUp
    BY DEF Woken
  <2> QED
    BY <2>1 DEF Woken, FramesInv, NobodyRuns, Active
<1>4. refused' => ~composeUp' /\ ~NobodyRuns'
  BY DEF FramesInv, Woken, NobodyRuns, Active
<1> QED
  BY <1>1, <1>2, <1>3, <1>4 DEF FramesInv

LEMMA FramesStep == FramesInv /\ [NNext]_nvars => FramesInv'
<1> SUFFICES ASSUME FramesInv, [NNext]_nvars PROVE FramesInv'
  OBVIOUS
<1>1. [Next]_vars
  BY NextIsNext DEF nvars, fvars
<1>2. LockInv' /\ TypeOK /\ TypeOK'
  BY <1>1, LockStep DEF FramesInv, LockInv
<1>3. ReportInv'
  BY <1>1, <1>2, ReportStep DEF FramesInv
<1>4. ASSUME NEW l \in Loop, Turn(l) PROVE FramesInv'
  <2>1. UNCHANGED world /\ Active(l)
    BY <1>4, Heard
  <2>2. triggers' # 0
    BY <2>1 DEF FramesInv, NobodyRuns, world
  <2>3. CASE SendStep(l)
    <3>1. /\ rendered' = FALSE /\ refused' \in BOOLEAN
          /\ refused' => ~composeUp' /\ ~NobodyRuns'
      BY <2>1, <2>3 DEF SendStep, world, NobodyRuns, Active, Composing
    <3> QED
      BY <1>2, <1>3, <2>2, <3>1 DEF FramesInv
  <2>4. CASE Render(l)
    <3>1. /\ rendered' = TRUE /\ pc'[l] \in Composing
          /\ refused' \in BOOLEAN /\ ~refused'
      BY <2>4 DEF Render, vars, FramesInv
    <3> QED
      BY <1>2, <1>3, <2>2, <3>1 DEF FramesInv
  <2> QED
    BY <1>4, <2>3, <2>4 DEF Turn, ReturnHeard, Returns, PressureHeard, Presses, SentHeard, Sends,
      Unheard, Passes, BlocksRendered
<1>5. ASSUME NEW c \in Call, ToolSettles(c) PROVE FramesInv'
  BY <1>2, <1>3, <1>5, FireWakes, WokenFrames DEF ToolSettles
<1>6. ASSUME NEW m \in Message, Post(m) PROVE FramesInv'
  BY <1>2, <1>3, <1>6, FireWakes, WokenFrames DEF Post
<1>7. CASE Tick
  BY <1>2, <1>3, <1>7, TickWakes, WokenFrames DEF Tick
<1>8. CASE Start \/ Stop \/ TearDownAll \/ UNCHANGED nvars
  <2>1. UNCHANGED <<pc, triggers, rendered, refused>> /\ (composeUp' => composeUp \/ triggers = 0)
    BY <1>8 DEF Start, Stop, TearDownAll, OrchestratorStarts, OrchestratorStops, PluginsTornDown,
      ComposeRegistered, ComposeUnregistered, Teardown, nvars, fvars, vars
  <2> QED
    BY <1>2, <1>3, <2>1 DEF FramesInv, NobodyRuns, Active
<1> QED
  BY <1>4, <1>5, <1>6, <1>7, <1>8 DEF NNext

----------------------------------------------------------------------------
(* The ring.                                                               *)

LEMMA ToolsInvInit == FInit /\ RInit => ToolsInv
<1> SUFFICES ASSUME FInit, RInit PROVE ToolsInv
  OBVIOUS
<1>1. results = <<>> /\ Held = {}
  BY DEF RInit, Held, ToSet
<1>2. /\ call = [c \in Call |-> "unmade"]
      /\ folded = {} /\ read = {} /\ burnt = {} /\ shed = {} /\ late = {}
      /\ \A l \in Loop : pc[l] = "free"
  BY DEF RInit, FInit, Init
<1>3. RTypeOK
  BY <1>1, <1>2, ResultsAssumption, EmptySeq DEF RTypeOK
<1> QED
  BY <1>1, <1>2, <1>3 DEF ToolsInv, Settled, UnreadForCause, HasPrompt, Composing

(* The reply clears the ring: what it held was in the prompt, or too late.  *)
LEMMA ReturnTools ==
  ASSUME FramesInv, ToolsInv, NEW l \in Loop, Finishes(l), ToolsHearReturn, UNCHANGED world,
         rendered' = FALSE, refused' = (pc'[l] \in Composing /\ ~composeUp),
         \A m \in Loop \ {l} : pc'[m] = "free"
  PROVE ToolsInv'
<1>1. results' = <<>> /\ Held' = {}
  BY DEF ToolsHearReturn, ClearResults, Held, ToSet
<1>2. /\ call' \in [Call -> {"unmade", "running", "settled"}]
      /\ \A c \in Call : call'[c] = "settled" <=> call[c] = "settled"
  <2>1. call \in [Call -> {"unmade", "running", "settled"}]
    BY DEF ToolsInv, RTypeOK
  <2>2. CASE UNCHANGED call
    BY <2>1, <2>2
  <2>3. ASSUME NEW n \in 0..Cardinality(Unmade),
               call' = [c \in Call |->
                          IF c \in Unmade /\ c <= MaxCalls - Cardinality(Unmade) + n
                          THEN "running" ELSE call[c]]
        PROVE /\ call' \in [Call -> {"unmade", "running", "settled"}]
              /\ \A c \in Call : call'[c] = "settled" <=> call[c] = "settled"
    BY <2>1, <2>3 DEF Unmade
  <2> QED
    BY <2>2, <2>3 DEF ToolsHearReturn, OnReturn
<1>3. Settled' = Settled
  BY <1>2 DEF Settled
<1>4. /\ read' \cup burnt' = read \cup burnt \cup folded
      /\ UNCHANGED <<folded, shed, late>>
  BY DEF ToolsHearReturn
<1>5. RTypeOK'
  <2>1. read' \subseteq Call /\ burnt' \subseteq Call
    BY <1>4 DEF ToolsInv, RTypeOK
  <2> QED
    BY <1>1, <1>2, <1>4, <2>1, ResultsAssumption, EmptySeq DEF ToolsInv, RTypeOK
<1>6. triggers' # 0
  BY DEF FramesInv, NobodyRuns, Active, Finishes, HasPrompt, Refused, Composing, world
<1>7. \A m \in Loop : ~HasPrompt(m)' /\ ~Refused(m)'
  BY DEF Finishes, HasPrompt, Refused, Composing
<1>8. UnreadForCause'
  <2>1. Held \subseteq folded \cup late
    BY DEF ToolsInv, Finishes
  <2> QED
    BY <1>3, <1>4, <2>1 DEF ToolsInv, UnreadForCause, world
<1>9. (Held \cup folded \cup read \cup burnt \cup shed \cup late \subseteq Settled)'
  BY <1>1, <1>3, <1>4 DEF ToolsInv
<1> QED
  BY <1>1, <1>5, <1>6, <1>7, <1>8, <1>9 DEF ToolsInv

(* What pressure drops from the ring it drops as shed. *)
LEMMA PressureTools ==
  ASSUME FramesInv, ToolsInv, NEW l \in Loop, Shrinks(l), ToolsHearPressure(PressureRound(l)),
         UNCHANGED world, rendered' = FALSE, refused' = (pc'[l] \in Composing /\ ~composeUp),
         \A m \in Loop \ {l} : pc'[m] = "free"
  PROVE ToolsInv'
<1>1. PressureRound(l) \in Nat /\ results \in Seq(Call)
  <2>1. frame[l].round \in Nat
    BY DEF FramesInv, LockInv, TypeOK, Frame
  <2> QED
    BY <2>1 DEF Shrinks, PressureRound, ToolsInv, RTypeOK
<1>2. results' \in Seq(Call) /\ Len(results') <= Len(results) /\ Held' \subseteq Held
  BY <1>1, SetOfRest DEF ToolsHearPressure, ShedOldest, Held
<1>3. /\ shed' = shed \cup (Held \ Held')
      /\ UNCHANGED <<call, folded, read, burnt, late>>
  BY DEF ToolsHearPressure, ShedOldest, Held
<1>4. Len(results) \in Nat /\ Len(results') \in Nat
  BY <1>1, <1>2, LenProperties
<1>5. RTypeOK'
  <2>1. Len(results') <= MaxResults
    BY <1>2, <1>4, ResultsAssumption DEF ToolsInv, RTypeOK
  <2>2. Held \subseteq Call
    BY DEF ToolsInv, Settled
  <2> QED
    BY <1>2, <1>3, <2>1, <2>2 DEF ToolsInv, RTypeOK
<1>6. triggers' # 0 /\ Settled' = Settled
  BY <1>3 DEF FramesInv, NobodyRuns, Active, Shrinks, HasPrompt, Composing, world, Settled
<1>7. \A m \in Loop : ~HasPrompt(m)' /\ pc'[m] # "done"
  BY DEF Shrinks, HasPrompt, Composing
<1>8. ~NobodyRuns'
  BY DEF NobodyRuns, Active, Shrinks
<1>9. UnreadForCause'
  BY <1>3, <1>6 DEF ToolsInv, UnreadForCause, world
<1>11. ASSUME NEW m \in Loop, Refused(m)' PROVE (Held \subseteq folded \cup late)'
  <2>1. m = l
    BY <1>11 DEF Refused, Composing
  <2>2. Held \subseteq folded \cup late
    BY DEF ToolsInv, Shrinks
  <2> QED
    BY <1>2, <1>3, <2>2
<1>10. /\ (Held \cup folded \cup read \cup burnt \cup shed \cup late \subseteq Settled)'
       /\ (Held \cap (read \cup burnt) = {})'
  BY <1>2, <1>3, <1>6 DEF ToolsInv
<1> QED
  BY <1>5, <1>6, <1>7, <1>8, <1>9, <1>10, <1>11 DEF ToolsInv

(* The prompt is given what the ring holds. *)
LEMMA RenderTools ==
  ASSUME FramesInv, ToolsInv, NEW l \in Loop, BlocksRendered(l)
  PROVE ToolsInv'
<1>1. /\ UNCHANGED vars /\ Active(l)
      /\ folded' = Held /\ late' = late \ Held
      /\ UNCHANGED <<call, results, read, burnt, shed>>
  BY DEF BlocksRendered, Render, RenderResults, Held, Composing, Active
<1>2. Held' = Held /\ Settled' = Settled /\ (NobodyRuns' <=> NobodyRuns) /\ (Marked' <=> Marked)
  BY <1>1 DEF Held, Settled, NobodyRuns, Marked, Active, vars
<1>8. \A m \in Loop : ~Refused(m)'
  BY DEF BlocksRendered, Render, Refused
<1>3. RTypeOK'
  <2>1. Held \subseteq Call
    BY DEF ToolsInv, Settled
  <2> QED
    BY <1>1, <2>1 DEF ToolsInv, RTypeOK
<1>4. UnreadForCause'
  BY <1>1, <1>2 DEF ToolsInv, UnreadForCause, vars
<1>5. /\ (Held \cup folded \cup read \cup burnt \cup shed \cup late \subseteq Settled)'
      /\ (Held \cap (read \cup burnt) = {})'
      /\ (folded \cap (read \cup burnt) = {} /\ Held \subseteq folded \cup late)'
  BY <1>1, <1>2 DEF ToolsInv
<1>6. (composeUp /\ ~stopping =>
         /\ NobodyRuns => Held = {}
         /\ \A m \in Loop : pc[m] = "done" /\ ~Marked => Held = {})'
  BY <1>1, <1>2 DEF ToolsInv, vars
<1>7. (triggers = 0 => Held = {} /\ \A c \in Call : call[c] # "running")'
  BY <1>1, <1>2 DEF ToolsInv, vars
<1> QED
  BY <1>3, <1>4, <1>5, <1>6, <1>7, <1>8 DEF ToolsInv

(* A turn that the ring does not hear: no prompt is made, and no loop ends  *)
(* that will not compose again, but one that had come to its end.          *)
LEMMA UnheardTools ==
  ASSUME FramesInv, ToolsInv, NEW l \in Loop, UNCHANGED rvars, UNCHANGED world, Active(l),
         rendered' = FALSE, refused' = (pc'[l] \in Composing /\ ~composeUp),
         \A m \in Loop \ {l} : pc[m] = "free" /\ pc'[m] = "free",
         Announces(l) \/ Readies(l) \/ Again(l) \/ Ends(l) \/ Falls(l) \/ Abandons(l)
  PROVE ToolsInv'
<1>1. UNCHANGED <<call, results, folded, read, burnt, shed, late, composeUp, stopping, triggers>>
  BY DEF rvars, world
<1>2. Held' = Held /\ Settled' = Settled
  BY <1>1 DEF Held, Settled
<1>3. RTypeOK' /\ UnreadForCause'
  BY <1>1, <1>2 DEF ToolsInv, RTypeOK, UnreadForCause
<1>4. ASSUME NEW m \in Loop, HasPrompt(m)' PROVE folded \cap (read \cup burnt) = {} /\ Held \subseteq folded \cup late
  <2>1. m = l
    BY <1>4 DEF HasPrompt, Composing
  <2>2. HasPrompt(l)
    BY <1>4, <2>1 DEF HasPrompt, Composing, Announces, Readies, Again, Ends, Falls, Abandons
  <2> QED
    BY <2>2 DEF ToolsInv
<1>5. ASSUME composeUp, ~stopping, NobodyRuns' PROVE Held = {}
  <2>1. pc'[l] = "free"
    BY <1>5 DEF NobodyRuns, Active
  <2>2. Ends(l)
    BY <1>5, <2>1 DEF Announces, Readies, Again, Falls, Abandons
  <2> QED
    BY <1>5, <2>2 DEF Ends, ToolsInv
<1>6. ASSUME composeUp, ~stopping, NEW m \in Loop, pc'[m] = "done" PROVE Held = {}
  <2>1. m = l
    BY <1>6
  <2>2. ~Refused(l)
    BY <1>6 DEF FramesInv, Refused
  <2> QED
    BY <1>6, <2>1, <2>2 DEF Announces, Readies, Again, Ends, Falls, Abandons
<1>7. ASSUME NEW m \in Loop PROVE ~Refused(m)'
  BY DEF Refused, Composing, Announces, Readies, Again, Ends, Falls, Abandons
<1> QED
  BY <1>1, <1>2, <1>3, <1>4, <1>5, <1>6, <1>7 DEF ToolsInv

(* A result goes on the ring, at worst for the oldest. *)
LEMMA Pushed ==
  ASSUME RTypeOK, NEW c \in Call, PushResult(c)
  PROVE /\ results' \in Seq(Call) /\ Len(results') <= MaxResults
        /\ Held' \subseteq Held \cup {c} /\ shed' \subseteq shed \cup Held \cup {c}
        /\ Held \cup {c} \subseteq Held' \cup shed' /\ shed \subseteq shed'
<1> DEFINE all == Append(results, c)
<1>1. /\ results \in Seq(Call) /\ Len(results) \in Nat /\ MaxResults \in Nat
      /\ Len(results) <= MaxResults
  BY ResultsAssumption, LenProperties DEF RTypeOK
<1>2. all \in Seq(Call) /\ Len(all) = Len(results) + 1 /\ ToSet(all) = Held \cup {c}
  BY <1>1, SetOfAppend, AppendProperties DEF Held
<1>3. /\ results' = IF Len(all) > MaxResults THEN Tail(all) ELSE all
      /\ shed' = IF Len(all) > MaxResults THEN shed \cup {Head(all)} ELSE shed
  BY DEF PushResult
<1> HIDE DEF all
<1>4. CASE Len(all) > MaxResults
  <2>1. results' = Tail(all) /\ shed' = shed \cup {Head(all)}
    BY <1>3, <1>4
  <2>2. all # <<>>
    BY <1>1, <1>2, EmptySeq
  <2>3. /\ Tail(all) \in Seq(Call) /\ Len(Tail(all)) = Len(all) - 1
        /\ ToSet(all) \subseteq ToSet(Tail(all)) \cup {Head(all)}
        /\ ToSet(Tail(all)) \subseteq ToSet(all) /\ Head(all) \in ToSet(all)
    BY <1>2, <2>2, SetOfTail
  <2>4. Len(results') <= MaxResults
    BY <1>1, <1>2, <2>1, <2>3
  <2>5. Held' = ToSet(Tail(all))
    BY <2>1 DEF Held
  <2> QED
    BY <1>2, <2>1, <2>3, <2>4, <2>5
<1>5. CASE ~(Len(all) > MaxResults)
  <2>1. results' = all /\ shed' = shed /\ Len(all) <= MaxResults
    BY <1>1, <1>2, <1>3, <1>5
  <2>2. Held' = ToSet(all)
    BY <2>1 DEF Held
  <2> QED
    BY <1>2, <2>1, <2>2
<1> QED
  BY <1>4, <1>5

LEMMA SettlesTools ==
  ASSUME FramesInv, ToolsInv, NEW c \in Call, ToolSettles(c)
  PROVE ToolsInv'
<1>1. Woken
  BY FireWakes DEF ToolSettles
<1>2. /\ call[c] = "running" /\ ~stopping
      /\ call' = [call EXCEPT ![c] = "settled"] /\ PushResult(c)
      /\ late' = IF \E l \in Loop : HasPrompt(l) \/ Refused(l) THEN late \cup {c} ELSE late
      /\ UNCHANGED <<folded, read, burnt>>
  BY DEF ToolSettles, FoldBack
<1>3. /\ results' \in Seq(Call) /\ Len(results') <= MaxResults
      /\ Held' \subseteq Held \cup {c} /\ shed' \subseteq shed \cup Held \cup {c}
      /\ Held \cup {c} \subseteq Held' \cup shed' /\ shed \subseteq shed'
  BY <1>2, Pushed DEF ToolsInv
<1>4. Settled' = Settled \cup {c} /\ c \notin Settled
  BY <1>2 DEF Settled, ToolsInv, RTypeOK
<1>5. RTypeOK'
  <2>1. call' \in [Call -> {"unmade", "running", "settled"}]
    BY <1>2 DEF ToolsInv, RTypeOK
  <2>2. Held \subseteq Call /\ shed \subseteq Call /\ late' \subseteq Call
    BY <1>2 DEF ToolsInv, RTypeOK, Settled
  <2> QED
    BY <1>2, <1>3, <2>1, <2>2 DEF ToolsInv, RTypeOK
<1>6. triggers' # 0
  <2>1. triggers # 0 /\ (triggers' = triggers \/ triggers' > 0)
    BY <1>1, <1>2 DEF ToolsInv, Woken
  <2> QED
    BY <2>1
<1>7. /\ (Held \cup folded \cup read \cup burnt \cup shed \cup late \subseteq Settled)'
      /\ (Held \cap (read \cup burnt) = {})'
      /\ UnreadForCause'
  <2>1. late \subseteq late' /\ late' \subseteq late \cup {c}
    BY <1>2
  <2> QED
    BY <1>1, <1>2, <1>3, <1>4, <2>1 DEF ToolsInv, UnreadForCause, Woken
<1>8. ASSUME NEW l \in Loop, HasPrompt(l)' PROVE (folded \cap (read \cup burnt) = {} /\ Held \subseteq folded \cup late)'
  <2>1. HasPrompt(l)
    BY <1>1, <1>8, WokenPrompt
  <2> QED
    BY <1>2, <1>3, <2>1 DEF ToolsInv
<1>9. composeUp' => ~NobodyRuns' /\ \A l \in Loop : pc'[l] = "done" => Marked'
  BY <1>1 DEF Woken, NobodyRuns, Active
<1>10. ASSUME NEW l \in Loop, Refused(l)' PROVE (Held \subseteq folded \cup late)'
  <2>1. Refused(l)
    BY <1>1, <1>10, WokenRefused
  <2> QED
    BY <1>2, <1>3, <2>1 DEF ToolsInv
<1> QED
  BY <1>5, <1>6, <1>7, <1>8, <1>9, <1>10 DEF ToolsInv

LEMMA WokenTools ==
  ASSUME FramesInv, ToolsInv, Woken, UNCHANGED rvars
  PROVE ToolsInv'
<1>1. UNCHANGED <<call, results, folded, read, burnt, shed, late, composeUp, stopping>>
  BY DEF rvars, Woken
<1>2. Held' = Held /\ Settled' = Settled
  BY <1>1 DEF Held, Settled
<1>3. triggers' = 0 => triggers = 0
  BY DEF Woken
<1>4. \A l \in Loop : (HasPrompt(l)' => HasPrompt(l)) /\ (Refused(l)' => Refused(l))
  BY WokenPrompt, WokenRefused
<1>5. composeUp' => ~NobodyRuns' /\ \A l \in Loop : pc'[l] = "done" => Marked'
  BY DEF Woken, NobodyRuns, Active
<1>6. RTypeOK' /\ UnreadForCause'
  BY <1>1, <1>2 DEF ToolsInv, RTypeOK, UnreadForCause
<1> QED
  BY <1>1, <1>2, <1>3, <1>4, <1>5, <1>6 DEF ToolsInv

LEMMA ToolsStep == FramesInv /\ ToolsInv /\ [NNext]_nvars => ToolsInv'
<1> SUFFICES ASSUME FramesInv, ToolsInv, [NNext]_nvars PROVE ToolsInv'
  OBVIOUS
<1>1. ASSUME NEW l \in Loop, Turn(l) PROVE ToolsInv'
  <2>1. /\ UNCHANGED world /\ Active(l)
        /\ \A m \in Loop \ {l} : pc[m] = "free" /\ pc'[m] = "free"
        /\ \/ Finishes(l) /\ ReturnHeard(l)
           \/ Shrinks(l) /\ PressureHeard(l)
           \/ Announces(l) /\ SentHeard(l)
           \/ /\ Announces(l) \/ Readies(l) \/ Again(l) \/ Ends(l) \/ Falls(l) \/ Abandons(l)
              /\ Unheard(l)
           \/ BlocksRendered(l)
    BY <1>1, Heard
  <2>2. CASE Finishes(l) /\ ReturnHeard(l)
    BY <2>1, <2>2, ReturnTools DEF ReturnHeard, Returns, SendStep
  <2>3. CASE Shrinks(l) /\ PressureHeard(l)
    BY <2>1, <2>3, PressureTools DEF PressureHeard, Presses, SendStep
  <2>4. CASE Announces(l) /\ SentHeard(l)
    BY <2>1, <2>4, UnheardTools DEF SentHeard, Sends, SendStep
  <2>5. CASE /\ Announces(l) \/ Readies(l) \/ Again(l) \/ Ends(l) \/ Falls(l) \/ Abandons(l)
             /\ Unheard(l)
    BY <2>1, <2>5, UnheardTools DEF Unheard, Passes, SendStep
  <2>6. CASE BlocksRendered(l)
    BY <2>6, RenderTools
  <2> QED
    BY <2>1, <2>2, <2>3, <2>4, <2>5, <2>6
<1>2. ASSUME NEW c \in Call, ToolSettles(c) PROVE ToolsInv'
  BY <1>2, SettlesTools
<1>3. ASSUME NEW m \in Message, Post(m), UNCHANGED rvars PROVE ToolsInv'
  BY <1>3, FireWakes, WokenTools DEF Post
<1>4. CASE Tick
  BY <1>4, TickWakes, WokenTools DEF Tick
<1>5. CASE Start
  <2>1. /\ triggers = 0 /\ triggers' = 0 /\ UNCHANGED <<stopping, pc, rendered, refused, triggered, rvars>>
    BY <1>5 DEF Start, OrchestratorStarts, ComposeRegistered, lock
  <2>2. UNCHANGED <<call, results, folded, read, burnt, shed, late>> /\ Held' = Held /\ Settled' = Settled
    BY <2>1 DEF rvars, Held, Settled
  <2>3. \A l \in Loop : (HasPrompt(l)' => HasPrompt(l)) /\ (Refused(l)' => Refused(l))
    BY <2>1 DEF HasPrompt, Refused
  <2> QED
    BY <2>1, <2>2, <2>3 DEF ToolsInv, RTypeOK, UnreadForCause
<1>6. CASE Stop \/ UNCHANGED nvars
  <2>1. /\ UNCHANGED <<stopping, pc, rendered, refused, triggers, triggered, rvars>>
        /\ composeUp' => composeUp
    BY <1>6 DEF Stop, OrchestratorStops, ComposeUnregistered, lock, nvars, fvars, vars
  <2>2. UNCHANGED <<call, results, folded, read, burnt, shed, late>> /\ Held' = Held /\ Settled' = Settled
    BY <2>1 DEF rvars, Held, Settled
  <2>3. /\ \A l \in Loop : (HasPrompt(l)' => HasPrompt(l)) /\ (Refused(l)' => Refused(l))
        /\ (NobodyRuns' <=> NobodyRuns) /\ (Marked' <=> Marked)
    BY <2>1 DEF HasPrompt, Refused, NobodyRuns, Active, Marked
  <2> QED
    BY <2>1, <2>2, <2>3 DEF ToolsInv, RTypeOK, UnreadForCause
<1>7. CASE TearDownAll
  <2>1. /\ stopping' /\ UNCHANGED <<pc, rendered, refused, triggers>>
        /\ results' = <<>> /\ UNCHANGED <<call, folded, read, burnt, shed, late>>
    BY <1>7 DEF TearDownAll, PluginsTornDown, Teardown, ToolsTornDown
  <2>2. Held' = {} /\ Settled' = Settled
    BY <2>1 DEF Held, ToSet, Settled
  <2>3. \A l \in Loop : (HasPrompt(l)' => HasPrompt(l)) /\ (Refused(l)' => Refused(l))
    BY <2>1 DEF HasPrompt, Refused
  <2>4. RTypeOK'
    BY <2>1, ResultsAssumption, EmptySeq DEF ToolsInv, RTypeOK
  <2> QED
    BY <2>1, <2>2, <2>3, <2>4 DEF ToolsInv, UnreadForCause
<1> QED
  BY <1>1, <1>2, <1>3, <1>4, <1>5, <1>6, <1>7 DEF NNext

----------------------------------------------------------------------------
(* The receipts.                                                           *)

LEMMA ReceiptsInvInit == FInit /\ WInit => ReceiptsInv
<1> SUFFICES ASSUME FInit, WInit PROVE ReceiptsInv
  OBVIOUS
<1>1. /\ transcript = <<>> /\ pending = {} /\ inFlightIds = {}
      /\ status = [m \in Message |-> "unsent"]
      /\ pressureRound = 0 /\ shown = {} /\ given = {} /\ cut = {}
      /\ \A l \in Loop : pc[l] = "free"
      /\ config.maxReduceRounds \in Nat
  BY ConfigAssumption DEF WInit, FInit, Init, ConfigType
<1>2. WTypeOK
  BY <1>1, EmptySeq DEF WTypeOK
<1> QED
  BY <1>1, <1>2 DEF ReceiptsInv, Posted, HasPrompt, Composing, ReadMeansGiven, Read

(* The return of the request that is out settles its own claims, and that  *)
(* of one that nobody could make none.                                     *)
LEMMA ReturnReceipts ==
  ASSUME FramesInv, ReceiptsInv, NEW l \in Loop, Finishes(l), ChatHearsReturn, UNCHANGED config,
         rendered' = FALSE, refused' = (pc'[l] \in Composing /\ ~composeUp),
         \A m \in Loop \ {l} : pc'[m] = "free"
  PROVE /\ ReceiptsInv'
        /\ Posted' = Posted /\ given' = given \cup shown /\ cut' = cut /\ pressureRound' = 0
<1> DEFINE done == {c \in inFlightIds : c.req = LastReturn.id}
<1>1. LastReturn.id = frame'[l].id
  <2>1. frame'[l].id \in Nat
    <3>1. frame[l].id \in Nat /\ seq \in Nat
      BY DEF FramesInv, LockInv, TypeOK, Frame
    <3> QED
      BY <3>1 DEF Finishes
  <2>2. PICK ok \in BOOLEAN : returned' = Append(returned, [id |-> frame'[l].id, ok |-> ok])
    BY DEF Finishes
  <2>3. returned \in Seq([id : Nat, ok : BOOLEAN]) /\ [id |-> frame'[l].id, ok |-> ok] \in [id : Nat, ok : BOOLEAN]
    BY <2>1 DEF FramesInv, LockInv, TypeOK
  <2>4. LastReturn = [id |-> frame'[l].id, ok |-> ok]
    BY <2>2, <2>3, AppendProperties DEF LastReturn
  <2> QED
    BY <2>4
<1>2. /\ status' = [m \in Message |-> IF \E c \in done : c.msg = m THEN "read" ELSE status[m]]
      /\ inFlightIds' = inFlightIds \ done
      /\ given' = given \cup shown /\ pressureRound' = 0
      /\ UNCHANGED <<pending, shown, cut>>
  BY DEF ChatHearsReturn, Receipts
<1>3. /\ status \in [Message -> {"unsent", "sent", "read"}]
      /\ inFlightIds \subseteq [req : 1..seq, msg : Message]
      /\ \A c, d \in inFlightIds : c.msg = d.msg => c = d
      /\ \A c \in inFlightIds : status[c.msg] = "sent" /\ c.msg \notin pending
      /\ transcript \in Seq(Message \cup {AgentSend})
  BY DEF ReceiptsInv, WTypeOK
<1>4. transcript' \in Seq(Message \cup {AgentSend}) /\ ToSet(transcript) \subseteq ToSet(transcript')
  <2>1. CASE transcript' = transcript
    BY <1>3, <2>1
  <2>2. CASE transcript' = Append(transcript, AgentSend)
    BY <1>3, <2>2, SetOfAppend
  <2> QED
    BY <2>1, <2>2 DEF ChatHearsReturn, AgentMaySpeak
<1>5. \A c \in done : c.msg \in shown \cup cut
  <2>1. CASE /\ pc[l] = "chat" \/ (pc[l] = "retry" /\ Refused(l))
             /\ frame'[l].id = frame[l].id
    BY <1>1, <2>1 DEF ReceiptsInv
  <2>2. CASE frame'[l].id = seq + 1
    <3>1. seq \in Nat
      BY DEF FramesInv, LockInv, TypeOK
    <3>2. done = {}
      BY <1>1, <1>3, <2>2, <3>1
    <3> QED
      BY <3>2
  <2> QED
    BY <2>1, <2>2 DEF Finishes
<1> HIDE DEF done
<1>6. done \subseteq inFlightIds
  BY DEF done
<1>7. inFlightIds' \subseteq [req : 1..seq', msg : Message]
  <2>1. seq \in Nat /\ seq' \in {seq, seq + 1}
    BY DEF FramesInv, LockInv, TypeOK, Finishes
  <2>2. 1..seq \subseteq 1..seq'
    BY <2>1
  <2> QED
    BY <1>2, <1>3, <2>2
<1>8. status' \in [Message -> {"unsent", "sent", "read"}]
  BY <1>2, <1>3
<1>9. ASSUME NEW c \in inFlightIds' PROVE status'[c.msg] = "sent" /\ c.msg \notin pending'
  BY <1>2, <1>3, <1>6, <1>9
<1>10. pressureRound' \in 0..config'.maxReduceRounds
  <2>1. config.maxReduceRounds \in Nat
    BY ConfigAssumption DEF FramesInv, LockInv, TypeOK, ConfigType
  <2> QED
    BY <1>2, <2>1
<1>11. WTypeOK'
  BY <1>2, <1>3, <1>4, <1>7, <1>8, <1>9, <1>10 DEF ReceiptsInv, WTypeOK
<1>12. Posted' = Posted
  BY <1>2, <1>3, <1>6 DEF Posted
<1>13. \A m \in pending' : status'[m] = "sent"
  BY <1>2, <1>3, <1>6 DEF ReceiptsInv, WTypeOK
<1>14. ReadMeansGiven'
  BY <1>2, <1>5 DEF ReceiptsInv, ReadMeansGiven, Read
<1>15. \A m \in Loop : ~HasPrompt(m)' /\ ~Refused(m)' /\ pc'[m] \notin {"tools", "chat"}
  BY DEF Finishes, HasPrompt, Refused, Composing
<1> QED
  BY <1>2, <1>4, <1>11, <1>12, <1>13, <1>14, <1>15 DEF ReceiptsInv

LEMMA PressureReceipts ==
  ASSUME FramesInv, FramesInv', ReceiptsInv, NEW l \in Loop, Shrinks(l),
         ChatHearsPressure(PressureRound(l)), UNCHANGED config,
         rendered' = FALSE, refused' = (pc'[l] \in Composing /\ ~composeUp),
         \A m \in Loop \ {l} : pc'[m] = "free"
  PROVE ReceiptsInv'
<1>1. /\ pressureRound' = frame'[l].round /\ seq' = seq
      /\ UNCHANGED <<transcript, pending, inFlightIds, status, shown, given, cut>>
  BY DEF ChatHearsPressure, PressureRound, Shrinks
<1>2. pressureRound' \in 0..config'.maxReduceRounds
  <2>1. frame'[l].round \in Nat /\ frame'[l].round <= config'.maxReduceRounds
    BY DEF FramesInv, LockInv, TypeOK, Frame
  <2>2. config'.maxReduceRounds \in Nat
    BY ConfigAssumption DEF FramesInv, LockInv, TypeOK, ConfigType
  <2> QED
    BY <1>1, <2>1, <2>2
<1>3. WTypeOK'
  BY <1>1, <1>2 DEF ReceiptsInv, WTypeOK
<1>4. \A m \in Loop : ~HasPrompt(m)' /\ pc'[m] \notin {"tools", "chat"}
  BY DEF Shrinks, HasPrompt, Composing
<1>5. Posted' = Posted /\ ReadMeansGiven'
  BY <1>1 DEF Posted, ReceiptsInv, ReadMeansGiven, Read
<1>6. ASSUME NEW m \in Loop, pc'[m] = "retry", NEW c \in inFlightIds, c.req = frame'[m].id
      PROVE c.msg \in shown \cup cut
  <2>1. m = l
    BY <1>6
  <2>2. pc[l] = "chat" /\ frame'[l].id = frame[l].id
    BY <1>6, <2>1 DEF Shrinks
  <2> QED
    BY <1>6, <2>1, <2>2 DEF ReceiptsInv
<1> QED
  BY <1>1, <1>3, <1>4, <1>5, <1>6 DEF ReceiptsInv

(* What a request claims, its prompt has: nothing runs between the two.     *)
LEMMA SentReceipts ==
  ASSUME FramesInv, ReceiptsInv, NEW l \in Loop, Announces(l), ChatHearsSent(SentId(l)),
         UNCHANGED config, \A m \in Loop \ {l} : pc'[m] = "free"
  PROVE ReceiptsInv'
<1> DEFINE claimed == [req : {frame[l].id}, msg : pending]
<1>1. /\ inFlightIds' = inFlightIds \cup claimed /\ pending' = {}
      /\ UNCHANGED <<transcript, status, pressureRound, shown, given, cut, seq, config>>
  BY DEF ChatHearsSent, Claim, SentId, Announces
<1>2. frame[l].id \in 1..seq
  <2>1. frame[l].id \in Nat /\ seq \in Nat /\ frame[l].id <= seq /\ frame[l].id # 0
    BY DEF FramesInv, LockInv, TypeOK, Frame, ReportInv, IdsInOrder, Announces, Out
  <2> QED
    BY <2>1
<1>3. pending \subseteq Message /\ \A m \in pending : status[m] = "sent"
  BY DEF ReceiptsInv, WTypeOK
<1>4. claimed \subseteq [req : 1..seq, msg : Message]
  BY <1>2, <1>3
<1>5. WTypeOK'
  <2>1. inFlightIds' \subseteq [req : 1..seq, msg : Message]
    BY <1>1, <1>4 DEF ReceiptsInv, WTypeOK
  <2>2. ASSUME NEW c \in inFlightIds', NEW d \in inFlightIds', c.msg = d.msg PROVE c = d
    <3>1. \A c1 \in inFlightIds : c1.msg \notin pending
      BY DEF ReceiptsInv, WTypeOK
    <3>2. \A c1 \in claimed : c1.msg \in pending /\ c1 = [req |-> frame[l].id, msg |-> c1.msg]
      OBVIOUS
    <3>3. \A c1, d1 \in inFlightIds : c1.msg = d1.msg => c1 = d1
      BY DEF ReceiptsInv, WTypeOK
    <3> HIDE DEF claimed
    <3>4. CASE c \in inFlightIds /\ d \in inFlightIds
      BY <2>2, <3>3, <3>4
    <3>5. CASE c \in claimed /\ d \in claimed
      BY <2>2, <3>2, <3>5
    <3> QED
      BY <1>1, <2>2, <3>1, <3>2, <3>4, <3>5
  <2>3. \A c \in inFlightIds' : status'[c.msg] = "sent" /\ c.msg \notin pending'
    BY <1>1, <1>3 DEF ReceiptsInv, WTypeOK
  <2> QED
    BY <1>1, <2>1, <2>2, <2>3 DEF ReceiptsInv, WTypeOK
<1>6. ASSUME NEW c \in inFlightIds', c.req = frame[l].id PROVE c.msg \in shown \cup cut
  <2>1. c \notin inFlightIds
    BY <1>6 DEF ReceiptsInv, Announces
  <2>2. pending \subseteq shown \cup cut
    BY DEF ReceiptsInv, Announces, HasPrompt
  <2> QED
    BY <1>1, <2>1, <2>2
<1> HIDE DEF claimed
<1>7. \A m \in Loop : pc'[m] = "chat" => m = l
  OBVIOUS
<1>8. \A m \in Loop : pc'[m] \notin {"tools", "retry"}
  BY DEF Announces
<1>9. Posted' = Posted /\ ReadMeansGiven'
  BY <1>1 DEF Posted, ReceiptsInv, ReadMeansGiven, Read
<1>10. frame'[l].id = frame[l].id
  BY DEF Announces
<1> QED
  BY <1>1, <1>5, <1>6, <1>7, <1>8, <1>9, <1>10 DEF ReceiptsInv

LEMMA UnheardReceipts ==
  ASSUME FramesInv, ReceiptsInv, NEW l \in Loop, UNCHANGED wvars, UNCHANGED config,
         rendered' = FALSE, refused' = (pc'[l] \in Composing /\ ~composeUp),
         \A m \in Loop \ {l} : pc'[m] = "free",
         Announces(l) \/ Readies(l) \/ Again(l) \/ Ends(l) \/ Falls(l) \/ Abandons(l)
  PROVE ReceiptsInv'
<1>1. /\ UNCHANGED <<transcript, pending, inFlightIds, status, pressureRound, shown, given, cut>>
      /\ seq \in Nat /\ seq' \in {seq, seq + 1}
  BY DEF wvars, FramesInv, LockInv, TypeOK, Announces, Readies, Again, Ends, Falls, Abandons
<1>2. inFlightIds \subseteq [req : 1..seq, msg : Message]
  BY DEF ReceiptsInv, WTypeOK
<1>3. WTypeOK'
  <2>1. 1..seq \subseteq 1..seq'
    BY <1>1
  <2>2. inFlightIds' \subseteq [req : 1..seq', msg : Message]
    BY <1>1, <1>2, <2>1
  <2> QED
    BY <1>1, <2>2 DEF ReceiptsInv, WTypeOK
<1>4. ASSUME NEW m \in Loop, HasPrompt(m)', pc'[m] # "chat" PROVE pending \subseteq shown \cup cut
  <2>1. m = l
    BY <1>4 DEF HasPrompt, Composing
  <2>2. HasPrompt(l) /\ pc[l] # "chat"
    BY <1>4, <2>1 DEF HasPrompt, Composing, Announces, Readies, Again, Ends, Falls, Abandons
  <2> QED
    BY <2>2 DEF ReceiptsInv
<1>5. ASSUME NEW m \in Loop, pc'[m] = "tools", NEW c \in inFlightIds PROVE c.req # frame'[m].id
  <2>1. m = l
    BY <1>5
  <2>2. frame'[l].id = seq + 1
    BY <1>5, <2>1 DEF Announces, Readies, Again, Ends, Falls, Abandons
  <2> QED
    BY <1>1, <1>2, <2>1, <2>2
<1>6. ASSUME NEW m \in Loop, pc'[m] = "chat", NEW c \in inFlightIds, c.req = frame'[m].id
      PROVE c.msg \in shown \cup cut
  <2>1. m = l
    BY <1>6
  <2>2. Announces(l)
    BY <1>6, <2>1 DEF Readies, Again, Ends, Falls, Abandons
  <2> QED
    BY <1>6, <2>1, <2>2 DEF Announces, ReceiptsInv
<1>7. Posted' = Posted /\ ReadMeansGiven'
  BY <1>1 DEF Posted, ReceiptsInv, ReadMeansGiven, Read
<1>8. \A m \in Loop : pc'[m] # "retry"
  BY DEF Announces, Readies, Again, Ends, Falls, Abandons
<1> QED
  BY <1>1, <1>3, <1>4, <1>5, <1>6, <1>7, <1>8 DEF ReceiptsInv

(* The window takes every message or cuts it off. *)
LEMMA RenderReceipts ==
  ASSUME FramesInv, ReceiptsInv, NEW l \in Loop, BlocksRendered(l)
  PROVE /\ ReceiptsInv'
        /\ UNCHANGED vars /\ Posted' = Posted /\ given' = given
        /\ pressureRound' = pressureRound /\ Posted \subseteq shown' \cup cut'
<1>1. /\ UNCHANGED vars /\ pc[l] \in Composing
      /\ shown' = ToSet(WindowTranscript) \cap Message
      /\ cut' = cut \cup ((ToSet(transcript) \cap Message) \ ToSet(WindowTranscript))
      /\ UNCHANGED <<transcript, pending, inFlightIds, status, pressureRound, given>>
  BY DEF BlocksRendered, Render, RenderConversation
<1>2. UNCHANGED <<pc, frame, seq, config>>
  BY <1>1 DEF vars
<1>3. \A m \in Loop : pc[m] \notin {"tools", "chat"}
  <2>1. \A m \in Loop : Active(m) => m = l
    BY <1>1, Alone DEF Active, Composing
  <2> QED
    BY <1>1, <2>1 DEF Active, Composing
<1>4. Posted' = Posted /\ Posted \subseteq ToSet(transcript) \cap Message
  BY <1>1 DEF Posted, ReceiptsInv
<1>5. Posted \subseteq shown' \cup cut'
  BY <1>1, <1>4
<1>6. pending \subseteq Posted
  BY DEF ReceiptsInv, WTypeOK, Posted
<1>7. WTypeOK'
  BY <1>1, <1>2 DEF ReceiptsInv, WTypeOK
<1>8. ReadMeansGiven'
  BY <1>1 DEF ReceiptsInv, ReadMeansGiven, Read
<1>9. \A m \in Loop : ~Refused(m)'
  BY DEF BlocksRendered, Render, Refused
<1> QED
  BY <1>1, <1>2, <1>3, <1>4, <1>5, <1>6, <1>7, <1>8, <1>9 DEF ReceiptsInv

LEMMA WokenReceipts ==
  ASSUME FramesInv, ReceiptsInv, Woken, UNCHANGED wvars
  PROVE ReceiptsInv'
<1>1. UNCHANGED <<transcript, pending, inFlightIds, status, pressureRound, shown, given, cut, seq, config>>
  BY DEF wvars, Woken
<1>2. \A m \in Loop : HasPrompt(m)' => HasPrompt(m) /\ pc'[m] = pc[m] /\ frame'[m] = frame[m]
  BY WokenPrompt
<1>3. \A m \in Loop : pc'[m] \in {"tools", "chat"} => pc'[m] = pc[m] /\ frame'[m] = frame[m]
  BY DEF Woken
<1>4. Posted' = Posted /\ ReadMeansGiven' /\ WTypeOK'
  BY <1>1 DEF Posted, ReceiptsInv, ReadMeansGiven, Read, WTypeOK
<1>5. \A m \in Loop : Refused(m)' => Refused(m) /\ pc'[m] = pc[m] /\ frame'[m] = frame[m]
  BY WokenRefused
<1> QED
  BY <1>1, <1>2, <1>3, <1>4, <1>5 DEF ReceiptsInv

(* A message is pending when no prompt is on its way to a request. *)
LEMMA PostReceipts ==
  ASSUME FramesInv, ReceiptsInv, NEW m \in Message, Post(m)
  PROVE ReceiptsInv' /\ pressureRound' = pressureRound
<1>1. Woken
  BY FireWakes DEF Post
<1>2. /\ ServerRuns /\ status[m] = "unsent"
      /\ pending' = pending \cup {m}
      /\ transcript' = Append(transcript, m)
      /\ status' = [status EXCEPT ![m] = "sent"]
      /\ UNCHANGED <<inFlightIds, pressureRound, shown, given, cut, seq, config>>
  BY <1>1 DEF Post, Accept, Unposted, Woken
<1>3. /\ status \in [Message -> {"unsent", "sent", "read"}]
      /\ transcript \in Seq(Message \cup {AgentSend})
      /\ pending \subseteq Message
  BY DEF ReceiptsInv, WTypeOK
<1>4. transcript' \in Seq(Message \cup {AgentSend}) /\ ToSet(transcript') = ToSet(transcript) \cup {m}
  BY <1>2, <1>3, SetOfAppend
<1>5. \A c \in inFlightIds : c.msg \in Message /\ c.msg # m
  BY <1>2 DEF ReceiptsInv, WTypeOK
<1>6. WTypeOK'
  <2>1. \A c \in inFlightIds : status'[c.msg] = "sent" /\ c.msg \notin pending'
    BY <1>2, <1>3, <1>5 DEF ReceiptsInv, WTypeOK
  <2>2. status' \in [Message -> {"unsent", "sent", "read"}]
    BY <1>2, <1>3
  <2> QED
    BY <1>2, <1>3, <1>4, <2>1, <2>2 DEF ReceiptsInv, WTypeOK
<1>7. Posted' = Posted \cup {m} /\ Read' = Read
  BY <1>2, <1>3 DEF Posted, Read
<1>8. \A n \in pending' : status'[n] = "sent"
  BY <1>2, <1>3 DEF ReceiptsInv
<1>9. \A l \in Loop : HasPrompt(l)' => pc'[l] = "chat"
  BY <1>1, <1>2, WokenPrompt DEF ServerRuns
<1>10. \A l \in Loop : pc'[l] = "chat" => pc[l] = "chat" /\ frame'[l] = frame[l]
  BY <1>1 DEF Woken
<1>11. \A l \in Loop : pc'[l] # "tools"
  BY <1>9 DEF HasPrompt
<1>12. ReadMeansGiven'
  BY <1>2, <1>7 DEF ReceiptsInv, ReadMeansGiven
<1>13. \A l \in Loop : ~Refused(l)'
  BY <1>1, <1>2, WokenRefused DEF ServerRuns
<1> QED
  BY <1>2, <1>4, <1>6, <1>7, <1>8, <1>9, <1>10, <1>11, <1>12, <1>13 DEF ReceiptsInv

(* What the steps that concern no plugin leave: Start, Stop, TearDownAll,   *)
(* and a stutter.                                                          *)
LEMMA QuietReceipts ==
  ASSUME ReceiptsInv, UNCHANGED <<pc, frame, rendered, refused, seq, config, wvars>>
  PROVE ReceiptsInv' /\ Posted' = Posted
<1>1. UNCHANGED <<transcript, pending, inFlightIds, status, pressureRound, shown, given, cut>>
  BY DEF wvars
<1>2. Posted' = Posted /\ ReadMeansGiven' /\ WTypeOK'
  BY <1>1 DEF Posted, ReceiptsInv, ReadMeansGiven, Read, WTypeOK
<1>3. \A m \in Loop : (HasPrompt(m)' => HasPrompt(m)) /\ (Refused(m)' => Refused(m))
  BY DEF HasPrompt, Refused
<1> QED
  BY <1>1, <1>2, <1>3 DEF ReceiptsInv

LEMMA ReceiptsStep == FramesInv /\ ReceiptsInv /\ [NNext]_nvars => ReceiptsInv'
<1> SUFFICES ASSUME FramesInv, ReceiptsInv, [NNext]_nvars PROVE ReceiptsInv'
  OBVIOUS
<1>0. FramesInv'
  BY FramesStep
<1>1. ASSUME NEW l \in Loop, Turn(l) PROVE ReceiptsInv'
  <2>1. /\ UNCHANGED world
        /\ \A m \in Loop \ {l} : pc[m] = "free" /\ pc'[m] = "free"
        /\ \/ Finishes(l) /\ ReturnHeard(l)
           \/ Shrinks(l) /\ PressureHeard(l)
           \/ Announces(l) /\ SentHeard(l)
           \/ /\ Announces(l) \/ Readies(l) \/ Again(l) \/ Ends(l) \/ Falls(l) \/ Abandons(l)
              /\ Unheard(l)
           \/ BlocksRendered(l)
    BY <1>1, Heard
  <2>2. config' = config
    BY <2>1 DEF world
  <2>3. CASE Finishes(l) /\ ReturnHeard(l)
    BY <2>1, <2>2, <2>3, ReturnReceipts DEF ReturnHeard, Returns, SendStep
  <2>4. CASE Shrinks(l) /\ PressureHeard(l)
    BY <1>0, <2>1, <2>2, <2>4, PressureReceipts DEF PressureHeard, Presses, SendStep
  <2>5. CASE Announces(l) /\ SentHeard(l)
    BY <2>1, <2>2, <2>5, SentReceipts DEF SentHeard
  <2>6. CASE /\ Announces(l) \/ Readies(l) \/ Again(l) \/ Ends(l) \/ Falls(l) \/ Abandons(l)
             /\ Unheard(l)
    BY <2>1, <2>2, <2>6, UnheardReceipts DEF Unheard, Passes, SendStep
  <2>7. CASE BlocksRendered(l)
    BY <2>7, RenderReceipts
  <2> QED
    BY <2>1, <2>3, <2>4, <2>5, <2>6, <2>7
<1>2. ASSUME NEW c \in Call, ToolSettles(c), UNCHANGED wvars PROVE ReceiptsInv'
  BY <1>2, FireWakes, WokenReceipts DEF ToolSettles
<1>3. ASSUME NEW m \in Message, Post(m) PROVE ReceiptsInv'
  BY <1>3, PostReceipts
<1>4. CASE Tick
  BY <1>4, TickWakes, WokenReceipts DEF Tick
<1>5. CASE Start \/ Stop \/ TearDownAll \/ UNCHANGED nvars
  <2>1. UNCHANGED <<pc, frame, rendered, refused, seq, config, wvars>>
    BY <1>5 DEF Start, Stop, TearDownAll, OrchestratorStarts, OrchestratorStops, PluginsTornDown,
      ComposeRegistered, ComposeUnregistered, Teardown, nvars, fvars, vars
  <2> QED
    BY <2>1, QuietReceipts
<1> QED
  BY <1>1, <1>2, <1>3, <1>4, <1>5 DEF NNext

----------------------------------------------------------------------------
(* The pressure, and the messages.                                         *)

LEMMA TurnPressure ==
  ASSUME FramesInv, ReceiptsInv, PressureInv, NEW l \in Loop, Turn(l)
  PROVE PressureInv'
<1>1. /\ UNCHANGED world
      /\ \A m \in Loop \ {l} : pc[m] = "free" /\ pc'[m] = "free"
      /\ \/ Finishes(l) /\ ReturnHeard(l)
         \/ Shrinks(l) /\ PressureHeard(l)
         \/ Announces(l) /\ SentHeard(l)
         \/ /\ Announces(l) \/ Readies(l) \/ Again(l) \/ Ends(l) \/ Falls(l) \/ Abandons(l)
            /\ Unheard(l)
         \/ BlocksRendered(l)
  BY Heard
<1>2. UNCHANGED <<stopping, composeUp, triggers>> /\ triggers # 0
  <2>1. Active(l)
    BY Heard
  <2> QED
    BY <1>1, <2>1 DEF world, FramesInv, NobodyRuns
<1>3. CASE ReturnHeard(l)
  BY <1>3 DEF ReturnHeard, ChatHearsReturn, PressureInv
<1>4. CASE Shrinks(l) \/ Announces(l) \/ Readies(l)
  BY <1>1, <1>2, <1>4 DEF Shrinks, Announces, Readies, PressureInv
<1>5. CASE (Again(l) \/ Ends(l) \/ Falls(l) \/ Abandons(l)) /\ Unheard(l)
  <2>1. pressureRound' = pressureRound
    BY <1>5 DEF Unheard, wvars
  <2>2. CASE pc[l] = "done" /\ composeUp /\ ~stopping
    <3>1. pressureRound = 0
      BY <1>1, <2>2 DEF PressureInv
    <3> QED
      BY <2>1, <3>1 DEF PressureInv
  <2>3. CASE ~(pc[l] = "done" /\ composeUp /\ ~stopping)
    <3>1. stopping \/ (~composeUp /\ pc'[l] \in {"done", "free"})
      BY <1>5, <2>3 DEF Again, Ends, Falls, Abandons, FramesInv, Refused
    <3> QED
      BY <1>1, <1>2, <3>1 DEF PressureInv
  <2> QED
    BY <2>2, <2>3
<1>6. CASE BlocksRendered(l)
  <2>1. UNCHANGED <<pc, pressureRound>>
    BY <1>6, RenderReceipts DEF vars
  <2> QED
    BY <1>2, <2>1 DEF PressureInv
<1> QED
  BY <1>1, <1>3, <1>4, <1>5, <1>6

LEMMA WokenPressure ==
  ASSUME PressureInv, Woken, pressureRound' = pressureRound
  PROVE PressureInv'
<1>1. triggers' = 0 => pressureRound = 0
  BY DEF Woken, PressureInv
<1>2. ASSUME composeUp', ~stopping', \A l \in Loop : pc'[l] \in {"free", "compose", "done"}
      PROVE  pressureRound = 0
  <2>1. \A l \in Loop : pc[l] \in {"free", "compose", "done"}
    BY <1>2 DEF Woken, NobodyRuns, Active
  <2> QED
    BY <1>2, <2>1 DEF PressureInv, Woken
<1>3. ASSUME ~stopping', NEW l \in Loop, pc'[l] = "compose" PROVE pressureRound = 0
  <2>1. CASE pc[l] = "compose"
    BY <1>3, <2>1 DEF PressureInv, Woken
  <2>2. CASE pc[l] # "compose"
    <3>1. NobodyRuns /\ composeUp
      BY <1>3, <2>2 DEF Woken
    <3> QED
      BY <1>3, <3>1 DEF PressureInv, Woken, NobodyRuns, Active
  <2> QED
    BY <2>1, <2>2
<1> QED
  BY <1>1, <1>2, <1>3 DEF PressureInv

LEMMA PressureStep == FramesInv /\ ReceiptsInv /\ PressureInv /\ [NNext]_nvars => PressureInv'
<1> SUFFICES ASSUME FramesInv, ReceiptsInv, PressureInv, [NNext]_nvars PROVE PressureInv'
  OBVIOUS
<1>1. ASSUME NEW l \in Loop, Turn(l) PROVE PressureInv'
  BY <1>1, TurnPressure
<1>2. ASSUME NEW c \in Call, ToolSettles(c), UNCHANGED wvars PROVE PressureInv'
  BY <1>2, FireWakes, WokenPressure DEF ToolSettles, wvars
<1>3. ASSUME NEW m \in Message, Post(m) PROVE PressureInv'
  BY <1>3, FireWakes, WokenPressure DEF Post, Accept
<1>4. CASE Tick
  BY <1>4, TickWakes, WokenPressure DEF Tick, wvars
<1>5. CASE Start \/ Stop \/ TearDownAll \/ UNCHANGED nvars
  <2>1. /\ UNCHANGED <<pc, pressureRound>> /\ (stopping => stopping')
        /\ triggers' = triggers /\ (composeUp' => composeUp \/ triggers = 0)
    BY <1>5 DEF Start, Stop, TearDownAll, OrchestratorStarts, OrchestratorStops, PluginsTornDown,
      ComposeRegistered, ComposeUnregistered, Teardown, lock, nvars, fvars, vars, wvars
  <2> QED
    BY <2>1 DEF PressureInv
<1> QED
  BY <1>1, <1>2, <1>3, <1>4, <1>5 DEF NNext

LEMMA TurnMessages ==
  ASSUME FramesInv, ReceiptsInv, MessagesInv, NEW l \in Loop, Turn(l)
  PROVE MessagesInv'
<1> SUFFICES ASSUME composeUp', ~stopping', triggers' > 0
             PROVE  /\ \A m \in Loop : HasPrompt(m)' /\ ~Marked' => Posted' \subseteq shown' \cup given' \cup cut'
                    /\ \A m \in Loop : pc'[m] = "done" /\ ~Marked' => Posted' \subseteq given' \cup cut'
                    /\ NobodyRuns' => Posted' \subseteq given' \cup cut'
  BY DEF MessagesInv
<1>1. /\ UNCHANGED world
      /\ \A m \in Loop \ {l} : pc[m] = "free" /\ pc'[m] = "free"
      /\ \/ Finishes(l) /\ ReturnHeard(l)
         \/ Shrinks(l) /\ PressureHeard(l)
         \/ Announces(l) /\ SentHeard(l)
         \/ /\ Announces(l) \/ Readies(l) \/ Again(l) \/ Ends(l) \/ Falls(l) \/ Abandons(l)
            /\ Unheard(l)
         \/ BlocksRendered(l)
  BY Heard
<1>2. composeUp /\ ~stopping /\ triggers > 0
  BY <1>1 DEF world
<1>3. \A m \in Loop \ {l} : ~HasPrompt(m)'
  BY <1>1 DEF HasPrompt, Composing
<1>4. CASE Finishes(l) /\ ReturnHeard(l)
  <2>1. /\ rendered' = FALSE /\ config' = config
        /\ refused' = (pc'[l] \in Composing /\ ~composeUp)
    BY <1>1, <1>4 DEF ReturnHeard, Returns, SendStep, world
  <2>2. Posted' = Posted /\ given' = given \cup shown /\ cut' = cut
    BY <1>1, <1>4, <2>1, ReturnReceipts DEF ReturnHeard
  <2>3. pc'[l] = "done" /\ HasPrompt(l) /\ (Marked' <=> Marked)
    BY <1>2, <1>4 DEF Finishes, Marked, FramesInv, Refused
  <2>4. ~HasPrompt(l)' /\ ~NobodyRuns'
    BY <2>3 DEF HasPrompt, Composing, NobodyRuns, Active
  <2> QED
    BY <1>1, <1>2, <1>3, <2>2, <2>3, <2>4 DEF MessagesInv
<1>5. CASE Shrinks(l) /\ PressureHeard(l)
  <2>1. rendered' = FALSE /\ pc'[l] \in {"recompose", "retry"}
    BY <1>5 DEF PressureHeard, Presses, SendStep, Shrinks
  <2>2. ~HasPrompt(l)' /\ ~NobodyRuns'
    BY <2>1 DEF HasPrompt, Composing, NobodyRuns, Active
  <2> QED
    BY <1>1, <1>3, <2>1, <2>2
<1>6. CASE (Announces(l) \/ Readies(l)) /\ (SentHeard(l) \/ Unheard(l))
  <2>1. Posted' = Posted /\ UNCHANGED <<shown, given, cut>>
    BY <1>6 DEF SentHeard, Unheard, ChatHearsSent, wvars, Posted
  <2>2. HasPrompt(l) /\ (Marked' <=> Marked) /\ pc'[l] \in {"listing", "tools", "chat"}
    BY <1>6 DEF Announces, Readies, HasPrompt, Marked
  <2>3. ~NobodyRuns'
    BY <2>2 DEF NobodyRuns, Active
  <2> QED
    BY <1>1, <1>2, <1>3, <2>1, <2>2, <2>3 DEF MessagesInv
<1>7. CASE (Again(l) \/ Ends(l) \/ Falls(l) \/ Abandons(l)) /\ Unheard(l)
  <2>1. Posted' = Posted /\ UNCHANGED <<shown, given, cut>> /\ rendered' = FALSE
    BY <1>7 DEF Unheard, wvars, Posted, Passes, SendStep
  <2>2. CASE Again(l)
    <3>1. pc'[l] = "compose"
      BY <1>2, <2>2 DEF Again
    <3>2. ~HasPrompt(l)' /\ ~NobodyRuns'
      BY <2>1, <3>1 DEF HasPrompt, NobodyRuns, Active
    <3> QED
      BY <1>1, <1>3, <3>1, <3>2
  <2>3. CASE Ends(l)
    <3>1. pc'[l] = "free" /\ pc[l] = "done" /\ ~Marked
      BY <2>3 DEF Ends
    <3>2. Posted' \subseteq given' \cup cut'
      BY <1>2, <2>1, <3>1 DEF MessagesInv
    <3>3. ~HasPrompt(l)'
      BY <3>1 DEF HasPrompt, Composing
    <3> QED
      BY <1>3, <3>2, <3>3
  <2>4. ~Falls(l) /\ ~Abandons(l)
    BY <1>2 DEF Falls, Abandons, FramesInv, Refused
  <2> QED
    BY <1>7, <2>2, <2>3, <2>4
<1>8. CASE BlocksRendered(l)
  <2>1. /\ UNCHANGED vars /\ pc[l] \in Composing
        /\ Posted' = Posted /\ Posted \subseteq shown' \cup cut'
    BY <1>8, RenderReceipts DEF BlocksRendered, Render
  <2>2. pc'[l] # "done" /\ ~NobodyRuns'
    BY <2>1 DEF vars, Composing, NobodyRuns, Active
  <2> QED
    BY <1>1, <2>1, <2>2
<1> QED
  BY <1>1, <1>4, <1>5, <1>6, <1>7, <1>8

(* Who asked for a frame will be in a prompt that is yet to be made. *)
LEMMA WokenMessages ==
  ASSUME FramesInv, Woken
  PROVE MessagesInv'
<1> SUFFICES ASSUME composeUp', ~Marked'
             PROVE  (\A m \in Loop : ~HasPrompt(m) /\ pc[m] # "done")' /\ ~NobodyRuns'
  BY DEF MessagesInv, Woken, NobodyRuns, Active
<1>1. ~rendered' /\ \A l \in Loop : pc'[l] \in {"free", "compose"}
  BY DEF Woken
<1>2. ~NobodyRuns'
  BY DEF Woken, NobodyRuns, Active
<1> QED
  BY <1>1, <1>2 DEF HasPrompt, Composing

LEMMA MessagesStep == FramesInv /\ ReceiptsInv /\ MessagesInv /\ [NNext]_nvars => MessagesInv'
<1> SUFFICES ASSUME FramesInv, ReceiptsInv, MessagesInv, [NNext]_nvars PROVE MessagesInv'
  OBVIOUS
<1>1. ASSUME NEW l \in Loop, Turn(l) PROVE MessagesInv'
  BY <1>1, TurnMessages
<1>2. ASSUME NEW c \in Call, ToolSettles(c) PROVE MessagesInv'
  BY <1>2, FireWakes, WokenMessages DEF ToolSettles
<1>3. ASSUME NEW m \in Message, Post(m) PROVE MessagesInv'
  BY <1>3, FireWakes, WokenMessages DEF Post
<1>4. CASE Tick
  BY <1>4, TickWakes, WokenMessages DEF Tick
<1>5. CASE Start
  <2>1. ~(triggers' > 0)
    BY <1>5 DEF Start, OrchestratorStarts, ComposeRegistered
  <2> QED
    BY <2>1 DEF MessagesInv
<1>6. CASE Stop \/ TearDownAll
  BY <1>6 DEF Stop, TearDownAll, OrchestratorStops, PluginsTornDown, ComposeUnregistered,
    Teardown, MessagesInv
<1>7. CASE UNCHANGED nvars
  <2>1. UNCHANGED <<pc, rendered, composeUp, stopping, triggers, triggered, status, shown, given, cut>>
    BY <1>7 DEF nvars, fvars, vars, wvars
  <2>2. /\ Posted' = Posted /\ (Marked' <=> Marked) /\ (NobodyRuns' <=> NobodyRuns)
        /\ \A m \in Loop : HasPrompt(m)' <=> HasPrompt(m)
    BY <2>1 DEF Posted, Marked, NobodyRuns, Active, HasPrompt
  <2> QED
    BY <2>1, <2>2 DEF MessagesInv
<1> QED
  BY <1>1, <1>2, <1>3, <1>4, <1>5, <1>6, <1>7 DEF NNext

----------------------------------------------------------------------------
(* The theorems on the frames.                                             *)

LEMMA ConversationStarts == NInit => NInv
<1>1. NInit => FramesInv
  BY FramesInvInit DEF NInit
<1>2. NInit => PressureInv /\ MessagesInv
  BY DEF NInit, FInit, Init, WInit, PressureInv, MessagesInv
<1> QED
  BY <1>1, <1>2, ToolsInvInit, ReceiptsInvInit DEF NInv, NInit

LEMMA ConversationKeeps == NInv /\ [NNext]_nvars => NInv'
BY FramesStep, ToolsStep, ReceiptsStep, PressureStep, MessagesStep DEF NInv

(* What a conversation keeps. *)
THEOREM ConversationInvariant == NSpec => []NInv
BY ConversationStarts, ConversationKeeps, PTL DEF NSpec

(* Type correctness of the frames, the ring and the receipts: the ring      *)
(* never exceeds its capacity, the pressure never the rounds of a frame,   *)
(* and a message is claimed by at most one request, and then not pending.  *)
THEOREM ConversationTypes == NSpec => []NTypeOK
<1>1. NInv => NTypeOK
  BY DEF NInv, FramesInv, LockInv, ToolsInv, ReceiptsInv, NTypeOK
<1> QED
  BY <1>1, ConversationInvariant, PTL

(* The frames of a conversation are frames of llm-core: whatever its lock   *)
(* and its reports promise of every plugin, they promise here.             *)
THEOREM ConversationIsLLMCore == NSpec => Init /\ [][Next]_vars
<1>1. NInit => Init
  BY DEF NInit, FInit
<1>2. NInv /\ [NNext]_nvars => [Next]_vars
  <2>1. UNCHANGED nvars => UNCHANGED vars
    BY DEF nvars, fvars
  <2> QED
    BY <2>1, NextIsNext DEF NInv
<1> QED
  BY <1>1, <1>2, ConversationInvariant, PTL DEF NSpec

(* A result goes out with one request that returns at most, and the model   *)
(* never reads one only if that request failed, if it was shed, or if it   *)
(* settled too late for the prompt that was out.                           *)
THEOREM ResultsAreGivenOnce == NSpec => []ResultsGoOnce
<1>1. NInv => ResultsGoOnce
  BY DEF NInv, ToolsInv, ResultsGoOnce, OneShot, HasPrompt
<1> QED
  BY <1>1, ConversationInvariant, PTL

(* A message is read only if the request that returned had it in its        *)
(* prompt, or the window of a prompt had cut it off.                       *)
THEOREM ReadReceiptsAreTrue == NSpec => []ReadMeansGiven
<1>1. NInv => ReadMeansGiven
  BY DEF NInv, ReceiptsInv
<1> QED
  BY <1>1, ConversationInvariant, PTL

(* However a frame ended, a refused recompose included, no frame starts     *)
(* under pressure, and an agent that is up does not rest under it.         *)
THEOREM PressureEndsWithTheFrame == NSpec => []PressureIsPerFrame
<1>1. NInv => PressureIsPerFrame
  BY DEF NInv, PressureInv, PressureIsPerFrame
<1> QED
  BY <1>1, ConversationInvariant, PTL

(* An agent that is idle holds no result and owes no message: what asked    *)
(* for a frame of its own got it, whatever was under way when it asked.    *)
THEOREM NothingWaitsForATick == NSpec => []NothingStranded
<1>1. NInv => NothingStranded
  <2>1. NInv /\ (\A l \in Loop : pc[l] = "free") => NobodyRuns
    BY DEF NobodyRuns, Active
  <2>2. NInv => NoResultStranded
    BY <2>1 DEF NInv, ToolsInv, NoResultStranded
  <2>3. NInv => NoMessageStranded
    BY <2>1 DEF NInv, MessagesInv, NoMessageStranded, Posted
  <2> QED
    BY <2>2, <2>3 DEF NothingStranded
<1> QED
  BY <1>1, ConversationInvariant, PTL

----------------------------------------------------------------------------
(* The chat page (ChatPage).                                               *)

(* A number stands for one thing said, in one transcript and by one request; *)
(* transcripts are in the order of the numbers.                            *)
Numbering ==
  /\ \A a \in Chatter : \A i \in DOMAIN chat[a] : chat[a][i].n \in 1..said
  /\ \A a, b \in Chatter : \A i \in DOMAIN chat[a], j \in DOMAIN chat[b] :
       chat[a][i].n = chat[b][j].n => a = b /\ i = j
  /\ \A a \in Chatter : \A i, j \in DOMAIN chat[a] : i < j => chat[a][i].n < chat[a][j].n
  /\ \A p \in posts : IF p.at = "sent" THEN p.n = 0 ELSE p.n \in Numbers(chat[p.of])
  /\ \A p, q \in posts : p.n = q.n => p = q \/ p.n = 0

(* What was said under a number has been read. *)
Receipted(n) == \E a \in Chatter : \E j \in Mine(chat[a], n) : chat[a][j].read

(* What the agent shown has said under a number has been read. *)
ReadHere(n) == \E j \in Mine(chat[current], n) : chat[current][j].read

Says(e, n) == e.type = "read" /\ e.n = n

(* What an event may be. *)
Honest(e) ==
  \/ e.type = "open" /\ e.rows = <<>>
  \/ e.type = "read" /\ e.rows = <<>> /\ e.n \in 1..said /\ Receipted(e.n)
  \/ e.type = "output" /\ e.n \in 0..said /\ e.rows = <<[by |-> "agent", n |-> e.n, read |-> FALSE]>>
  \/ e.type = "history" /\ \A i \in DOMAIN e.rows : e.rows[i].n \in 1..said

(* What a row may be: mine has a number, is of the agent shown unless it is  *)
(* known not to be, and a double tick is true.                             *)
Fitting(row) ==
  /\ row.n <= said
  /\ row.by = "me" =>
       /\ row.n \in 1..said
       /\ row.read => Receipted(row.n)
       /\ row.n \in crossed \/ (current # Nobody /\ row.n \in Numbers(chat[current]))

PageOK ==
  /\ stream.of = current
  /\ stream.state \notin {"open", "ended"} => wire = <<>>
  /\ \A k \in DOMAIN wire : Honest(wire[k])
  /\ \A c \in Coming : Fitting(RowAt(c))
  /\ stream.state = "opening" /\ ~broken =>
       (\A i \in DOMAIN log : log[i].by = "me") /\ news = {} /\ ~greeted

(* A message of the agent shown is there at most once; not before its answer *)
(* is; and once that is, unless it was unheard.                            *)
MineOnce ==
  Unbroken => \A n \in (1..said) \ crossed :
    /\ \A c, d \in Coming : IsMine(RowAt(c), n) /\ IsMine(RowAt(d), n) => c = d
    /\ \A p \in posts : p.n = n => \A c \in Coming : ~IsMine(RowAt(c), n)
    /\ n \in Numbers(chat[current]) \ unheard /\ (\A p \in posts : p.n # n) =>
         \E c \in Coming : IsMine(RowAt(c), n)

(* What was read is ticked where it is shown, or will be: its receipt comes   *)
(* after its row.                                                          *)
TicksCome ==
  Unbroken => \A n \in (1..said) \ (crossed \cup overtaken) : ReadHere(n) =>
    /\ \A c \in Coming : IsMine(RowAt(c), n) /\ ~RowAt(c).read =>
         \E k \in DOMAIN wire : c[1] < k /\ Says(wire[k], n)
    /\ \A p \in posts : p.n = n => \E k \in DOMAIN wire : Says(wire[k], n)

(* Until the greeting was shown no output was. *)
GreetedFirst ==
  Unbroken =>
    /\ \E c \in Coming : RowAt(c).n = 0
    /\ \A c, d \in Coming : RowAt(c).n = 0 /\ RowAt(d).n = 0 => c = d
    /\ 0 \notin news
    /\ \A c \in Coming : RowAt(c).n = 0 /\ c[1] # 0 =>
         ~greeted /\ \A k \in DOMAIN wire : k < c[1] => wire[k].type # "output"

RepliesOnce ==
  Unbroken =>
    /\ \A c \in Coming : IsReply(RowAt(c)) =>
         \E i \in DOMAIN chat[current] : IsReply(chat[current][i]) /\ chat[current][i].n = RowAt(c).n
    /\ \A i \in DOMAIN chat[current] : IsReply(chat[current][i]) =>
         \E c \in Coming : IsReply(RowAt(c)) /\ RowAt(c).n = chat[current][i].n
    /\ \A c, d \in Coming :
         IsReply(RowAt(c)) /\ IsReply(RowAt(d)) /\ Above(c, d) => RowAt(c).n < RowAt(d).n

PGInv ==
  HTypeOK /\ Numbering /\ PageOK /\ MineOnce /\ TicksCome /\ GreetedFirst /\ RepliesOnce

(* Places, one by one.                                                     *)
LEMMA PlaceIs ==
  ASSUME HTypeOK
  PROVE  /\ DOMAIN wire = 1..Len(wire) /\ Len(wire) \in Nat
         /\ DOMAIN log = 1..Len(log) /\ Len(log) \in Nat
         /\ \A c \in Coming : /\ c = <<c[1], c[2]>> /\ c[1] \in 0..Len(wire)
                              /\ c[2] \in DOMAIN RowsOf(c[1]) /\ RowAt(c) = RowsOf(c[1])[c[2]]
         /\ \A k \in 0..Len(wire) : \A i \in DOMAIN RowsOf(k) :
              <<k, i>> \in Coming /\ RowAt(<<k, i>>) = RowsOf(k)[i]
         /\ \A k \in 0..Len(wire) : RowsOf(k) \in Seq(Row)
<1>1. /\ DOMAIN wire = 1..Len(wire) /\ Len(wire) \in Nat
      /\ DOMAIN log = 1..Len(log) /\ Len(log) \in Nat
  BY LenProperties DEF HTypeOK
<1>2. ASSUME NEW k \in 0..Len(wire) PROVE RowsOf(k) \in Seq(Row)
  <2>1. CASE k = 0
    BY <2>1 DEF RowsOf, HTypeOK
  <2>2. CASE k # 0
    <3>1. k \in 1..Len(wire)
      BY <1>1, <2>2
    <3>2. wire[k] \in Event
      BY <3>1, ElementOfSeq DEF HTypeOK
    <3> QED
      BY <2>2, <3>2 DEF RowsOf, Event
  <2> QED
    BY <2>1, <2>2
<1> QED
  BY <1>1, <1>2 DEF Coming, RowAt

(* When an event is written to the wire, its rows come last.               *)
LEMMA EventWritten ==
  ASSUME HTypeOK, NEW m, m = Len(wire), NEW e \in Event, log' = log, wire' = Append(wire, e)
  PROVE  /\ \A c \in Coming : c \in Coming' /\ RowAt(c)' = RowAt(c) /\ c[1] < m + 1
         /\ \A c \in Coming' : \/ c \in Coming
                               \/ /\ c = <<m + 1, c[2]>> /\ c[2] \in DOMAIN e.rows
                                  /\ RowAt(c)' = e.rows[c[2]]
         /\ \A i \in DOMAIN e.rows : /\ <<m + 1, i>> \in Coming'
                                     /\ RowAt(<<m + 1, i>>)' = e.rows[i]
         /\ m \in Nat /\ DOMAIN wire = 1..m /\ DOMAIN wire' = 1..(m + 1)
         /\ \A k \in DOMAIN wire : wire'[k] = wire[k]
         /\ wire'[m + 1] = e
<1>1. /\ m \in Nat /\ DOMAIN wire = 1..m /\ DOMAIN wire' = 1..(m + 1) /\ Len(wire') = m + 1
      /\ \A k \in 1..m : wire'[k] = wire[k]
      /\ wire'[m + 1] = e
  BY AppendProperties, LenProperties DEF HTypeOK
<1>2. /\ \A k \in 0..m : RowsOf(k)' = RowsOf(k)
      /\ RowsOf(m + 1)' = e.rows
  BY <1>1 DEF RowsOf
<1>3. 0..(m + 1) = (0..m) \cup {m + 1}
  BY <1>1
<1>4. /\ Coming' = UNION {{<<k, i>> : i \in DOMAIN RowsOf(k)'} : k \in 0..(m + 1)}
      /\ Coming = UNION {{<<k, i>> : i \in DOMAIN RowsOf(k)} : k \in 0..m}
  BY <1>1 DEF Coming
<1>5. /\ \A c \in Coming : c[1] \in 0..m /\ c[2] \in DOMAIN RowsOf(c[1]) /\ c = <<c[1], c[2]>>
      /\ \A c \in Coming' : c[1] \in 0..(m + 1) /\ c[2] \in DOMAIN RowsOf(c[1])' /\ c = <<c[1], c[2]>>
      /\ \A k \in 0..(m + 1) : \A i \in DOMAIN RowsOf(k)' : <<k, i>> \in Coming'
      /\ \A k \in 0..m : \A i \in DOMAIN RowsOf(k) : <<k, i>> \in Coming
  BY <1>4
<1>6. \A c : RowAt(c)' = RowsOf(c[1])'[c[2]] /\ RowAt(c) = RowsOf(c[1])[c[2]]
  BY DEF RowAt
<1>7. \A c \in Coming : c \in Coming' /\ RowAt(c)' = RowAt(c) /\ c[1] < m + 1
  <2> TAKE c \in Coming
  <2>1. c[1] \in 0..m /\ c[1] \in 0..(m + 1) /\ c[1] < m + 1
    BY <1>1, <1>3, <1>5
  <2>2. c \in Coming'
    BY <2>1, <1>2, <1>5
  <2> QED
    BY <2>1, <2>2, <1>2, <1>6
<1>8. \A c \in Coming' : \/ c \in Coming
                         \/ /\ c = <<m + 1, c[2]>> /\ c[2] \in DOMAIN e.rows
                            /\ RowAt(c)' = e.rows[c[2]]
  <2> TAKE c \in Coming'
  <2>1. CASE c[1] \in 0..m
    BY <2>1, <1>2, <1>5
  <2>2. CASE c[1] = m + 1
    BY <2>2, <1>2, <1>5, <1>6
  <2> QED
    BY <2>1, <2>2, <1>3, <1>5
<1>9. \A i \in DOMAIN e.rows : <<m + 1, i>> \in Coming' /\ RowAt(<<m + 1, i>>)' = e.rows[i]
  BY <1>2, <1>3, <1>5, <1>6
<1> QED
  BY <1>1, <1>7, <1>8, <1>9

(* When a row is added to the log, it is there beside the others.          *)
LEMMA RowAdded ==
  ASSUME HTypeOK, NEW n, n = Len(log), NEW row \in Row, log' = Append(log, row), wire' = wire
  PROVE  /\ \A c \in Coming : c \in Coming' /\ RowAt(c)' = RowAt(c) /\ c # <<0, n + 1>>
         /\ \A c \in Coming' : c \in Coming \/ c = <<0, n + 1>>
         /\ <<0, n + 1>> \in Coming' /\ RowAt(<<0, n + 1>>)' = row
<1> SUFFICES ASSUME NEW m, m = Len(wire)
             PROVE  /\ \A c \in Coming : c \in Coming' /\ RowAt(c)' = RowAt(c) /\ c # <<0, n + 1>>
                    /\ \A c \in Coming' : c \in Coming \/ c = <<0, n + 1>>
                    /\ <<0, n + 1>> \in Coming' /\ RowAt(<<0, n + 1>>)' = row
  OBVIOUS
<1>1. /\ n \in Nat /\ DOMAIN log = 1..n /\ DOMAIN log' = 1..(n + 1) /\ m \in Nat
      /\ \A k \in 1..n : log'[k] = log[k]
      /\ log'[n + 1] = row
  BY AppendProperties, LenProperties DEF HTypeOK
<1>2. /\ \A k \in 1..m : RowsOf(k)' = RowsOf(k)
      /\ RowsOf(0) = log /\ RowsOf(0)' = log'
  BY <1>1 DEF RowsOf
<1>3. 0..m = (1..m) \cup {0} /\ 0 \notin 1..m
  BY <1>1
<1>4. /\ Coming' = UNION {{<<k, i>> : i \in DOMAIN RowsOf(k)'} : k \in 0..m}
      /\ Coming = UNION {{<<k, i>> : i \in DOMAIN RowsOf(k)} : k \in 0..m}
  BY DEF Coming
<1>5. /\ \A c \in Coming : c[1] \in 0..m /\ c[2] \in DOMAIN RowsOf(c[1]) /\ c = <<c[1], c[2]>>
      /\ \A c \in Coming' : c[1] \in 0..m /\ c[2] \in DOMAIN RowsOf(c[1])' /\ c = <<c[1], c[2]>>
      /\ \A k \in 0..m : \A i \in DOMAIN RowsOf(k)' : <<k, i>> \in Coming'
      /\ \A k \in 0..m : \A i \in DOMAIN RowsOf(k) : <<k, i>> \in Coming
  BY <1>4
<1>6. \A c : RowAt(c)' = RowsOf(c[1])'[c[2]] /\ RowAt(c) = RowsOf(c[1])[c[2]]
  BY DEF RowAt
<1>7. \A c \in Coming : c \in Coming' /\ RowAt(c)' = RowAt(c) /\ c # <<0, n + 1>>
  <2> TAKE c \in Coming
  <2>1. CASE c[1] \in 1..m
    BY <2>1, <1>2, <1>3, <1>5, <1>6
  <2>2. CASE c[1] = 0
    <3>1. c[2] \in 1..n /\ c[2] \in 1..(n + 1) /\ c[2] # n + 1
      BY <2>2, <1>1, <1>2, <1>5
    <3>2. c \in Coming' /\ RowAt(c)' = RowAt(c)
      <4>1. c[2] \in DOMAIN RowsOf(0)' /\ c = <<0, c[2]>>
        BY <2>2, <3>1, <1>1, <1>2, <1>5
      <4>2. c \in Coming'
        BY <4>1, <1>3, <1>5
      <4>3. RowAt(c)' = log'[c[2]] /\ RowAt(c) = log[c[2]]
        BY <2>2, <1>2, <1>6
      <4> QED
        BY <3>1, <4>2, <4>3, <1>1
    <3> QED
      BY <3>1, <3>2
  <2> QED
    BY <2>1, <2>2, <1>3, <1>5
<1>8. \A c \in Coming' : c \in Coming \/ c = <<0, n + 1>>
  <2> TAKE c \in Coming'
  <2>1. CASE c[1] \in 1..m
    BY <2>1, <1>2, <1>3, <1>5
  <2>2. CASE c[1] = 0
    <3>1. c[2] \in 1..n \/ c[2] = n + 1
      BY <2>2, <1>1, <1>2, <1>5
    <3> QED
      BY <2>2, <3>1, <1>1, <1>2, <1>3, <1>5
  <2> QED
    BY <2>1, <2>2, <1>3, <1>5
<1>9. <<0, n + 1>> \in Coming' /\ RowAt(<<0, n + 1>>)' = row
  <2>1. n + 1 \in 1..(n + 1)
    BY <1>1
  <2> QED
    BY <2>1, <1>1, <1>2, <1>3, <1>5, <1>6
<1> QED
  BY <1>7, <1>8, <1>9

(* Where the page takes an event from the wire, the rows of the event come   *)
(* after those of the log, and the others move up by one.                   *)
Moved(c, n) ==
  IF c[1] = 0 THEN c ELSE IF c[1] = 1 THEN <<0, n + c[2]>> ELSE <<c[1] - 1, c[2]>>

LEMMA RowsMove ==
  ASSUME HTypeOK, wire # <<>>, NEW n, n = Len(log), NEW m, m = Len(wire),
         NEW lg \in Seq(Row), Len(lg) = n, wire' = Tail(wire), log' = lg \o Head(wire).rows
  PROVE  /\ \A c \in Coming : /\ Moved(c, n) \in Coming'
                              /\ c[1] = 0 => RowAt(Moved(c, n))' = lg[c[2]]
                              /\ c[1] # 0 => RowAt(Moved(c, n))' = RowAt(c)
         /\ \A d \in Coming' : \E c \in Coming : d = Moved(c, n)
<1> DEFINE r == wire[1].rows
<1>1. /\ m \in Nat \ {0} /\ DOMAIN wire = 1..m /\ DOMAIN wire' = 1..(m - 1) /\ Len(wire') = m - 1
      /\ \A k \in 1..(m - 1) : wire'[k] = wire[k + 1]
      /\ Head(wire) = wire[1] /\ wire[1] \in Event
  BY HeadTailProperties, LenProperties, EmptySeq, ElementOfSeq DEF HTypeOK
<1>2. r \in Seq(Row) /\ log \in Seq(Row) /\ lg \in Seq(Row)
  BY <1>1 DEF Event, HTypeOK
<1> SUFFICES ASSUME NEW h, h = Len(r)
             PROVE  /\ \A c \in Coming : /\ Moved(c, n) \in Coming'
                                         /\ c[1] = 0 => RowAt(Moved(c, n))' = lg[c[2]]
                                         /\ c[1] # 0 => RowAt(Moved(c, n))' = RowAt(c)
                    /\ \A d \in Coming' : \E c \in Coming : d = Moved(c, n)
  OBVIOUS
<1>3. /\ n \in Nat /\ h \in Nat /\ DOMAIN log = 1..n /\ DOMAIN r = 1..h /\ DOMAIN log' = 1..(n + h)
      /\ \A i \in 1..n : log'[i] = lg[i]
      /\ \A i \in 1..h : log'[n + i] = r[i]
  <2>1. log' = lg \o r
    BY <1>1
  <2> HIDE DEF r
  <2> QED
    <3>1. /\ log' \in Seq(Row) /\ Len(log') = n + h /\ n \in Nat /\ h \in Nat
          /\ \A i \in 1..(n + h) : log'[i] = IF i <= n THEN lg[i] ELSE r[i - n]
      <4>1. n \in Nat /\ h \in Nat
        BY <1>2, LenProperties
      <4>2. /\ lg \o r \in Seq(Row) /\ Len(lg \o r) = n + h
            /\ \A i \in 1..(n + h) : (lg \o r)[i] = IF i <= n THEN lg[i] ELSE r[i - n]
        <5>1. /\ lg \o r \in Seq(Row) /\ Len(lg \o r) = Len(lg) + Len(r)
              /\ \A i \in 1..(Len(lg) + Len(r)) :
                   (lg \o r)[i] = IF i <= Len(lg) THEN lg[i] ELSE r[i - Len(lg)]
          BY <1>2, ConcatProperties
        <5> QED
          BY <5>1
      <4> QED
        BY <4>1, <4>2, <2>1
    <3>2. DOMAIN log = 1..n /\ DOMAIN r = 1..h /\ DOMAIN log' = 1..(n + h)
      BY <1>2, <3>1, LenProperties
    <3>3. ASSUME NEW i \in 1..n PROVE log'[i] = lg[i]
      BY <3>1
    <3>4. ASSUME NEW i \in 1..h PROVE log'[n + i] = r[i]
      <4>1. n + i \in 1..(n + h) /\ ~(n + i <= n) /\ (n + i) - n = i
        BY <3>1
      <4> QED
        BY <3>1, <4>1
    <3> QED
      BY <3>1, <3>2, <3>3, <3>4
<1>4. /\ RowsOf(0) = log /\ RowsOf(0)' = log' /\ RowsOf(1) = r
      /\ \A k \in 1..(m - 1) : RowsOf(k)' = RowsOf(k + 1)
  BY <1>1 DEF RowsOf
<1>5. /\ Coming' = UNION {{<<k, i>> : i \in DOMAIN RowsOf(k)'} : k \in 0..(m - 1)}
      /\ Coming = UNION {{<<k, i>> : i \in DOMAIN RowsOf(k)} : k \in 0..m}
  BY <1>1 DEF Coming
<1>6. /\ \A c \in Coming : c[1] \in 0..m /\ c[2] \in DOMAIN RowsOf(c[1]) /\ c = <<c[1], c[2]>>
      /\ \A c \in Coming' : c[1] \in 0..(m - 1) /\ c[2] \in DOMAIN RowsOf(c[1])' /\ c = <<c[1], c[2]>>
      /\ \A k \in 0..(m - 1) : \A i \in DOMAIN RowsOf(k)' : <<k, i>> \in Coming'
      /\ \A k \in 0..m : \A i \in DOMAIN RowsOf(k) : <<k, i>> \in Coming
  BY <1>5
<1>7. /\ \A c : RowAt(c) = RowsOf(c[1])[c[2]]
      /\ \A k, i : RowAt(<<k, i>>)' = RowsOf(k)'[i]
  BY DEF RowAt
<1> HIDE DEF r
<1>8. ASSUME NEW c \in Coming
      PROVE  /\ Moved(c, n) \in Coming'
             /\ c[1] = 0 => RowAt(Moved(c, n))' = lg[c[2]]
             /\ c[1] # 0 => RowAt(Moved(c, n))' = RowAt(c)
  <2>1. CASE c[1] = 0
    <3>1. c[2] \in 1..n /\ c[2] \in 1..(n + h) /\ 0 \in 0..(m - 1) /\ Moved(c, n) = <<0, c[2]>>
      BY <2>1, <1>1, <1>3, <1>4, <1>6 DEF Moved
    <3>2. <<0, c[2]>> \in Coming'
      BY <3>1, <1>3, <1>4, <1>6
    <3>3. RowAt(<<0, c[2]>>)' = log'[c[2]]
      BY <2>1, <1>4, <1>7
    <3> QED
      BY <2>1, <3>1, <3>2, <3>3, <1>3
  <2>2. CASE c[1] = 1
    <3>1. c[2] \in 1..h /\ n + c[2] \in 1..(n + h) /\ 0 \in 0..(m - 1) /\ Moved(c, n) = <<0, n + c[2]>>
      BY <2>2, <1>1, <1>3, <1>4, <1>6 DEF Moved
    <3>2. <<0, n + c[2]>> \in Coming'
      BY <3>1, <1>3, <1>4, <1>6
    <3>3. RowAt(<<0, n + c[2]>>)' = log'[n + c[2]] /\ RowAt(c) = r[c[2]]
      BY <2>2, <1>4, <1>7
    <3> QED
      <4>1. c[1] # 0
        BY <2>2
      <4>2. log'[n + c[2]] = r[c[2]]
        BY <3>1, <1>3
      <4> QED
        BY <3>1, <3>2, <3>3, <4>1, <4>2
  <2>3. CASE c[1] \notin {0, 1}
    <3>1. /\ c[1] - 1 \in 1..(m - 1) /\ c[1] - 1 \in 0..(m - 1) /\ (c[1] - 1) + 1 = c[1]
          /\ Moved(c, n) = <<c[1] - 1, c[2]>>
      BY <2>3, <1>1, <1>6 DEF Moved
    <3>2. RowsOf(c[1] - 1)' = RowsOf(c[1])
      BY <3>1, <1>4
    <3>3. <<c[1] - 1, c[2]>> \in Coming'
      BY <3>1, <3>2, <1>6
    <3>4. RowAt(<<c[1] - 1, c[2]>>)' = RowAt(c)
      BY <3>2, <1>7
    <3> QED
      BY <3>1, <3>3, <3>4
  <2> QED
    BY <2>1, <2>2, <2>3
<1>9. ASSUME NEW d \in Coming' PROVE \E c \in Coming : d = Moved(c, n)
  <2>1. CASE d[1] = 0 /\ d[2] \in 1..n
    <3>1. <<0, d[2]>> \in Coming
      BY <2>1, <1>1, <1>3, <1>4, <1>6
    <3> QED
      BY <2>1, <3>1, <1>6 DEF Moved
  <2>2. CASE d[1] = 0 /\ d[2] \notin 1..n
    <3>1. d[2] - n \in 1..h /\ n + (d[2] - n) = d[2] /\ 1 \in 0..m
      BY <2>2, <1>1, <1>3, <1>4, <1>6
    <3>2. <<1, d[2] - n>> \in Coming
      BY <3>1, <1>3, <1>4, <1>6
    <3> QED
      BY <2>2, <3>1, <3>2, <1>6 DEF Moved
  <2>3. CASE d[1] # 0
    <3>1. d[1] \in 1..(m - 1) /\ d[1] + 1 \in 0..m /\ d[1] + 1 # 0 /\ d[1] + 1 # 1 /\ (d[1] + 1) - 1 = d[1]
      BY <2>3, <1>1, <1>6
    <3>2. <<d[1] + 1, d[2]>> \in Coming
      BY <3>1, <1>4, <1>6
    <3> QED
      BY <3>1, <3>2, <1>6 DEF Moved
  <2> QED
    BY <2>1, <2>2, <2>3
<1> QED
  BY <1>8, <1>9

(* They keep their order.                                                  *)
LEMMA MovedKeepsOrder ==
  ASSUME HTypeOK, NEW n, n = Len(log), NEW c \in Coming, NEW d \in Coming
  PROVE  /\ Moved(c, n) = Moved(d, n) => c = d
         /\ Above(Moved(c, n), Moved(d, n)) => Above(c, d)
         /\ Moved(c, n)[1] = (IF c[1] = 0 THEN 0 ELSE c[1] - 1)
<1> SUFFICES ASSUME NEW m, m = Len(wire)
             PROVE /\ Moved(c, n) = Moved(d, n) => c = d
                   /\ Above(Moved(c, n), Moved(d, n)) => Above(c, d)
                   /\ Moved(c, n)[1] = (IF c[1] = 0 THEN 0 ELSE c[1] - 1)
  OBVIOUS
<1>1. /\ DOMAIN log = 1..n /\ n \in Nat /\ m \in Nat
      /\ c = <<c[1], c[2]>> /\ c[1] \in 0..m /\ c[2] \in DOMAIN RowsOf(c[1])
      /\ d = <<d[1], d[2]>> /\ d[1] \in 0..m /\ d[2] \in DOMAIN RowsOf(d[1])
      /\ RowsOf(c[1]) \in Seq(Row) /\ RowsOf(d[1]) \in Seq(Row)
  BY PlaceIs
<1>2. /\ c[2] \in Nat \ {0} /\ d[2] \in Nat \ {0}
      /\ c[1] = 0 => c[2] \in 1..n
      /\ d[1] = 0 => d[2] \in 1..n
  <2>1. RowsOf(0) = log
    BY DEF RowsOf
  <2> QED
    BY <1>1, <2>1, LenProperties
<1>3. ASSUME NEW c1 \in Nat, NEW c2 \in Nat \ {0}, NEW d1 \in Nat, NEW d2 \in Nat \ {0},
             c1 = 0 => c2 \in 1..n, d1 = 0 => d2 \in 1..n
      PROVE  /\ Moved(<<c1, c2>>, n) = Moved(<<d1, d2>>, n) => c1 = d1 /\ c2 = d2
             /\ Above(Moved(<<c1, c2>>, n), Moved(<<d1, d2>>, n)) => Above(<<c1, c2>>, <<d1, d2>>)
             /\ Moved(<<c1, c2>>, n)[1] = (IF c1 = 0 THEN 0 ELSE c1 - 1)
  <2>1. /\ Moved(<<c1, c2>>, n)[1] = (IF c1 = 0 THEN 0 ELSE c1 - 1)
        /\ Moved(<<c1, c2>>, n)[2] = (IF c1 = 1 THEN n + c2 ELSE c2)
    BY DEF Moved
  <2>2. /\ Moved(<<d1, d2>>, n)[1] = (IF d1 = 0 THEN 0 ELSE d1 - 1)
        /\ Moved(<<d1, d2>>, n)[2] = (IF d1 = 1 THEN n + d2 ELSE d2)
    BY DEF Moved
  <2> DEFINE x1 == Moved(<<c1, c2>>, n)[1]
             x2 == Moved(<<c1, c2>>, n)[2]
             y1 == Moved(<<d1, d2>>, n)[1]
             y2 == Moved(<<d1, d2>>, n)[2]
  <2>3. /\ Above(Moved(<<c1, c2>>, n), Moved(<<d1, d2>>, n)) <=> x1 < y1 \/ (x1 = y1 /\ x2 < y2)
        /\ Above(<<c1, c2>>, <<d1, d2>>) <=> c1 < d1 \/ (c1 = d1 /\ c2 < d2)
    BY DEF Above
  <2> HIDE DEF x1, x2, y1, y2
  <2>4. /\ x1 = (IF c1 = 0 THEN 0 ELSE c1 - 1) /\ x2 = (IF c1 = 1 THEN n + c2 ELSE c2)
        /\ y1 = (IF d1 = 0 THEN 0 ELSE d1 - 1) /\ y2 = (IF d1 = 1 THEN n + d2 ELSE d2)
    BY <2>1, <2>2 DEF x1, x2, y1, y2
  <2>5. x1 < y1 \/ (x1 = y1 /\ x2 < y2) => c1 < d1 \/ (c1 = d1 /\ c2 < d2)
    <3>1. n \in Nat
      BY <1>1
    <3>2. CASE c1 = 0
      <4>1. CASE d1 = 0
        BY <3>1, <3>2, <4>1, <2>4
      <4>2. CASE d1 # 0
        BY <3>2, <4>2
      <4> QED
        BY <4>1, <4>2
    <3>3. CASE c1 = 1
      <4>1. CASE d1 = 0
        BY <3>1, <3>3, <4>1, <2>4, <1>3
      <4>2. CASE d1 = 1
        BY <3>1, <3>3, <4>2, <2>4, <1>3
      <4>3. CASE d1 \notin {0, 1}
        BY <3>3, <4>3
      <4> QED
        BY <4>1, <4>2, <4>3
    <3>4. CASE c1 \notin {0, 1}
      <4>1. x1 = c1 - 1 /\ x2 = c2 /\ x1 \in Nat \ {0}
        BY <3>4, <2>4
      <4>2. CASE d1 \in {0, 1}
        BY <4>1, <4>2, <2>4
      <4>3. CASE d1 \notin {0, 1}
        BY <4>1, <4>3, <2>4
      <4> QED
        BY <4>2, <4>3
    <3> QED
      BY <3>2, <3>3, <3>4
  <2>6. x1 = y1 /\ x2 = y2 => c1 = d1 /\ c2 = d2
    <3>1. n \in Nat
      BY <1>1
    <3>2. CASE c1 = 0
      <4>1. CASE d1 = 0
        BY <3>1, <3>2, <4>1, <2>4
      <4>2. CASE d1 # 0
        BY <3>1, <3>2, <4>2, <2>4, <1>3
      <4> QED
        BY <4>1, <4>2
    <3>3. CASE c1 = 1
      <4>1. CASE d1 = 0
        BY <3>1, <3>3, <4>1, <2>4, <1>3
      <4>2. CASE d1 = 1
        BY <3>1, <3>3, <4>2, <2>4, <1>3
      <4>3. CASE d1 \notin {0, 1}
        BY <3>1, <3>3, <4>3, <2>4, <1>3
      <4> QED
        BY <4>1, <4>2, <4>3
    <3>4. CASE c1 \notin {0, 1}
      <4>1. x1 = c1 - 1 /\ x2 = c2 /\ x1 \in Nat \ {0}
        BY <3>4, <2>4
      <4>2. CASE d1 \in {0, 1}
        BY <4>1, <4>2, <2>4
      <4>3. CASE d1 \notin {0, 1}
        BY <4>1, <4>3, <2>4
      <4> QED
        BY <4>2, <4>3
    <3> QED
      BY <3>2, <3>3, <3>4
  <2> QED
    BY <2>1, <2>3, <2>5, <2>6 DEF x1, x2, y1, y2
<1>4. c[1] \in Nat /\ d[1] \in Nat
  BY <1>1
<1> QED
  BY <1>1, <1>2, <1>3, <1>4

(* What fits stays fitting while more is said, read and crossed.           *)
LEMMA StaysFitting ==
  ASSUME HTypeOK, said' \in Nat, said <= said', crossed \subseteq crossed', current' = current,
         current # Nobody => Numbers(chat[current]) \subseteq Numbers(chat'[current]),
         \A n \in 1..said : Receipted(n) => Receipted(n)'
  PROVE  /\ \A row \in Row : Fitting(row) => Fitting(row)'
         /\ \A e \in Event : Honest(e) => Honest(e)'
<1>1. said \in Nat
  BY ChatPageAssumption DEF HTypeOK
<1>2. ASSUME NEW row \in Row, Fitting(row) PROVE Fitting(row)'
  <2>1. row.n \in Nat
    BY ChatPageAssumption DEF Row
  <2>2. row.n <= said'
    BY <1>1, <1>2, <2>1 DEF Fitting
  <2>3. row.by = "me" =>
          /\ row.n \in 1..said'
          /\ row.read => Receipted(row.n)'
          /\ row.n \in crossed' \/ (current' # Nobody /\ row.n \in Numbers(chat'[current']))
    BY <1>1, <1>2, <2>1, <2>2 DEF Fitting
  <2>4. chat[current]' = chat'[current'] /\ (row.n \in crossed)' = (row.n \in crossed')
    OBVIOUS
  <2> QED
    BY <2>2, <2>3 DEF Fitting
<1>3. ASSUME NEW e \in Event, Honest(e) PROVE Honest(e)'
  <2>1. e.n \in 1..said => e.n \in 1..said'
    BY <1>1
  <2>2. e.n \in 0..said => e.n \in 0..said'
    BY <1>1
  <2>3. \A i \in DOMAIN e.rows : e.rows[i].n \in 1..said => e.rows[i].n \in 1..said'
    BY <1>1
  <2>4. CASE e.type = "history"
    <3>1. \A i \in DOMAIN e.rows : e.rows[i].n \in 1..said
      BY <1>3, <2>4 DEF Honest
    <3> QED
      BY <2>3, <2>4, <3>1 DEF Honest
  <2>5. CASE e.type # "history"
    BY <1>3, <2>1, <2>2, <2>5 DEF Honest
  <2> QED
    BY <2>4, <2>5
<1> QED
  BY <1>2, <1>3

LEMMA SamePlaces ==
  ASSUME UNCHANGED <<log, wire>>
  PROVE  Coming' = Coming /\ \A c : RowAt(c)' = RowAt(c)
BY DEF Coming, RowAt, RowsOf

LEMMA RowsAreRows ==
  ASSUME HTypeOK
  PROVE  /\ \A c \in Coming : RowAt(c) \in Row
         /\ \A k \in DOMAIN wire : wire[k] \in Event
<1>1. ASSUME NEW c \in Coming PROVE RowAt(c) \in Row
  BY PlaceIs, ElementOfSeq, LenProperties
<1>2. ASSUME NEW k \in DOMAIN wire PROVE wire[k] \in Event
  BY PlaceIs, ElementOfSeq DEF HTypeOK
<1> QED
  BY <1>1, <1>2

(* Steps that say nothing and show nothing: posts come and go, and a stream  *)
(* may be refused or end.                                                  *)
LEMMA QuietStep ==
  ASSUME PGInv, HTypeOK',
         UNCHANGED <<log, wire, chat, said, current, crossed, overtaken, news, greeted, broken>>,
         unheard \subseteq unheard',
         \A p \in posts' : p \in posts \/ (p.n = 0 /\ p.at = "sent"),
         \A p \in posts \ posts' : p.n = 0 \/ p.n \in unheard',
         \/ stream' = stream
         \/ stream.state = "opening" /\ stream' = [stream EXCEPT !.state = "dead"]
         \/ stream.state = "open" /\ stream' = [stream EXCEPT !.state = "ended"]
  PROVE  PGInv'
<1>1. Coming' = Coming /\ \A c : RowAt(c)' = RowAt(c)
  BY SamePlaces
<1>2. /\ \A n : Receipted(n)' = Receipted(n) /\ ReadHere(n)' = ReadHere(n)
      /\ \A row : Fitting(row)' = Fitting(row)
      /\ \A e : Honest(e)' = Honest(e)
  BY DEF Receipted, ReadHere, Fitting, Honest
<1>3. /\ stream'.of = stream.of /\ stream'.state \in {"opening", "open", "ended", "dead", "none"}
      /\ stream'.state = "open" => stream.state = "open"
      /\ stream'.state = "opening" => stream.state = "opening"
      /\ stream'.state \notin {"open", "ended"} => stream.state \notin {"open", "ended"}
  BY DEF PGInv, HTypeOK
<1>4. Unbroken' => Unbroken
  BY <1>3 DEF Unbroken
<1>5. Numbering'
  <2>1. Numbering
    BY DEF PGInv
  <2>2. \A p \in posts' : IF p.at = "sent" THEN p.n = 0 ELSE p.n \in Numbers(chat'[p.of])
    BY <2>1 DEF Numbering
  <2>3. \A p, q \in posts' : p.n = q.n => p = q \/ p.n = 0
    BY <2>1 DEF Numbering
  <2> QED
    BY <2>1, <2>2, <2>3 DEF Numbering
<1>6. PageOK'
  BY <1>1, <1>2, <1>3 DEF PGInv, PageOK
<1>7. MineOnce'
  <2> SUFFICES ASSUME Unbroken', NEW n \in (1..said) \ crossed
               PROVE  /\ \A c, d \in Coming : IsMine(RowAt(c), n) /\ IsMine(RowAt(d), n) => c = d
                      /\ \A p \in posts' : p.n = n => \A c \in Coming : ~IsMine(RowAt(c), n)
                      /\ n \in Numbers(chat[current]) \ unheard' /\ (\A p \in posts' : p.n # n) =>
                           \E c \in Coming : IsMine(RowAt(c), n)
    BY <1>1 DEF MineOnce
  <2>1. /\ \A c, d \in Coming : IsMine(RowAt(c), n) /\ IsMine(RowAt(d), n) => c = d
        /\ \A p \in posts : p.n = n => \A c \in Coming : ~IsMine(RowAt(c), n)
        /\ n \in Numbers(chat[current]) \ unheard /\ (\A p \in posts : p.n # n) =>
             \E c \in Coming : IsMine(RowAt(c), n)
    BY <1>4 DEF PGInv, MineOnce
  <2>2. n # 0
    OBVIOUS
  <2>3. n \notin unheard' /\ (\A p \in posts' : p.n # n) => n \notin unheard /\ \A p \in posts : p.n # n
    BY <2>2
  <2> QED
    BY <2>1, <2>2, <2>3
<1>8. TicksCome'
  <2> SUFFICES ASSUME Unbroken', NEW n \in (1..said) \ (crossed \cup overtaken), ReadHere(n)
               PROVE  /\ \A c \in Coming : IsMine(RowAt(c), n) /\ ~RowAt(c).read =>
                           \E k \in DOMAIN wire : c[1] < k /\ Says(wire[k], n)
                      /\ \A p \in posts' : p.n = n => \E k \in DOMAIN wire : Says(wire[k], n)
    BY <1>1, <1>2 DEF TicksCome
  <2>1. n # 0
    OBVIOUS
  <2> QED
    BY <1>4, <2>1 DEF PGInv, TicksCome
<1>9. GreetedFirst'
  BY <1>1, <1>4 DEF PGInv, GreetedFirst
<1>10. RepliesOnce'
  BY <1>1, <1>4 DEF PGInv, RepliesOnce
<1> QED
  BY <1>5, <1>6, <1>7, <1>8, <1>9, <1>10 DEF PGInv

(* Steps that open another stream or close the one there was: nothing is on  *)
(* the wire.                                                               *)
LEMMA AnewStep ==
  ASSUME PGInv, HTypeOK', UNCHANGED <<chat, said, posts, crossed>>,
         wire' = <<>>, stream'.of = current', stream'.state # "open",
         \/ log' = <<>> /\ (stream'.state = "opening" => news' = {} /\ ~greeted')
         \/ log' = log /\ current' = current /\ broken' = TRUE
  PROVE  PGInv'
<1>1. ~Unbroken'
  BY DEF Unbroken
<1>2. Numbering'
  BY DEF PGInv, Numbering
<1>3. \A c \in Coming' : Fitting(RowAt(c))'
  <2>1. CASE log' = <<>>
    <3>1. Coming' = {}
      <4>1. 0..Len(wire)' = {0}
        OBVIOUS
      <4>2. RowsOf(0)' = <<>> /\ DOMAIN RowsOf(0)' = {}
        BY <2>1 DEF RowsOf
      <4> QED
        BY <4>1, <4>2 DEF Coming
    <3> QED
      BY <3>1
  <2>2. CASE log' = log /\ current' = current
    <3>1. 0..Len(wire)' = {0}
      OBVIOUS
    <3>2. Coming' \subseteq Coming /\ \A c \in Coming' : RowAt(c)' = RowAt(c)
      <4>1. 0 \in 0..Len(wire)
        BY PlaceIs DEF PGInv
      <4>2. RowsOf(0) = log /\ RowsOf(0)' = log
        BY <2>2 DEF RowsOf
      <4>3. Coming' = {<<0, i>> : i \in DOMAIN log}
        BY <3>1, <4>2 DEF Coming
      <4>4. \A i \in DOMAIN log : <<0, i>> \in Coming /\ RowAt(<<0, i>>) = log[i]
        BY <4>1, <4>2, PlaceIs DEF PGInv
      <4>5. \A i \in DOMAIN log : RowAt(<<0, i>>)' = log[i]
        BY <4>2 DEF RowAt
      <4> QED
        BY <4>3, <4>4, <4>5
    <3>3. \A n : Receipted(n)' = Receipted(n)
      BY DEF Receipted
    <3>4. \A c \in Coming' : Fitting(RowAt(c))
      BY <3>2 DEF PGInv, PageOK
    <3> QED
      BY <2>2, <3>2, <3>3, <3>4 DEF Fitting
  <2> QED
    BY <2>1, <2>2
<1>4. PageOK'
  BY <1>3, <1>1 DEF PageOK
<1>5. MineOnce' /\ TicksCome' /\ GreetedFirst' /\ RepliesOnce'
  BY <1>1 DEF MineOnce, TicksCome, GreetedFirst, RepliesOnce
<1> QED
  BY <1>2, <1>4, <1>5 DEF PGInv

(* A transcript gets a row with the next number.                           *)
Adds(a, row) ==
  row.n = said + 1 /\ said' = said + 1 /\ chat' = [chat EXCEPT ![a] = Append(@, row)]

LEMMA TranscriptGrows ==
  ASSUME HTypeOK, Numbering, NEW a \in Chatter, NEW row \in Row, Adds(a, row)
  PROVE  /\ \A b \in Chatter : \A i \in DOMAIN chat'[b] : chat'[b][i].n \in 1..said'
         /\ \A b, c \in Chatter : \A i \in DOMAIN chat'[b], j \in DOMAIN chat'[c] :
              chat'[b][i].n = chat'[c][j].n => b = c /\ i = j
         /\ \A b \in Chatter : \A i, j \in DOMAIN chat'[b] : i < j => chat'[b][i].n < chat'[b][j].n
         /\ \A b \in Chatter : \A i \in DOMAIN chat[b] : i \in DOMAIN chat'[b] /\ chat'[b][i] = chat[b][i]
         /\ \A b \in Chatter : \A i \in DOMAIN chat'[b] :
              i \in DOMAIN chat[b] \/ (b = a /\ chat'[b][i] = row)
         /\ \E i \in DOMAIN chat'[a] : chat'[a][i] = row
<1>0. row.n = said + 1 /\ said' = said + 1 /\ chat' = [chat EXCEPT ![a] = Append(@, row)]
  BY DEF Adds
<1>1. said \in Nat
  BY ChatPageAssumption DEF HTypeOK
<1>2. /\ chat[a] \in Seq(Row) /\ Len(chat[a]) \in Nat /\ DOMAIN chat[a] = 1..Len(chat[a])
      /\ chat'[a] = Append(chat[a], row)
      /\ \A b \in Chatter : b # a => chat'[b] = chat[b]
  BY <1>0, LenProperties DEF HTypeOK
<1> SUFFICES ASSUME NEW l \in Nat, l = Len(chat[a])
             PROVE  /\ \A b \in Chatter : \A i \in DOMAIN chat'[b] : chat'[b][i].n \in 1..said'
                    /\ \A b, c \in Chatter : \A i \in DOMAIN chat'[b], j \in DOMAIN chat'[c] :
                         chat'[b][i].n = chat'[c][j].n => b = c /\ i = j
                    /\ \A b \in Chatter : \A i, j \in DOMAIN chat'[b] : i < j => chat'[b][i].n < chat'[b][j].n
                    /\ \A b \in Chatter : \A i \in DOMAIN chat[b] : i \in DOMAIN chat'[b] /\ chat'[b][i] = chat[b][i]
                    /\ \A b \in Chatter : \A i \in DOMAIN chat'[b] :
                         i \in DOMAIN chat[b] \/ (b = a /\ chat'[b][i] = row)
                    /\ \E i \in DOMAIN chat'[a] : chat'[a][i] = row
  BY <1>0, <1>2
<1>3. /\ DOMAIN chat[a] = 1..l /\ DOMAIN chat'[a] = 1..(l + 1)
      /\ \A i \in 1..l : chat'[a][i] = chat[a][i]
      /\ chat'[a][l + 1] = row
  BY <1>0, <1>2, AppendProperties, LenProperties
<1>4. \A b \in Chatter : \A i \in DOMAIN chat[b] : i \in DOMAIN chat'[b] /\ chat'[b][i] = chat[b][i]
  BY <1>0, <1>2, <1>3
<1>5. \A b \in Chatter : \A i \in DOMAIN chat'[b] :
        \/ i \in DOMAIN chat[b] /\ chat'[b][i] = chat[b][i]
        \/ b = a /\ i = l + 1 /\ chat'[b][i] = row
  BY <1>0, <1>2, <1>3
<1>6. /\ \A b \in Chatter : \A i \in DOMAIN chat[b] : chat[b][i].n \in 1..said
      /\ \A b, c \in Chatter : \A i \in DOMAIN chat[b], j \in DOMAIN chat[c] :
           chat[b][i].n = chat[c][j].n => b = c /\ i = j
      /\ \A b \in Chatter : \A i, j \in DOMAIN chat[b] : i < j => chat[b][i].n < chat[b][j].n
  BY <1>0 DEF Numbering
<1>7. \A b \in Chatter : \A i \in DOMAIN chat'[b] : chat'[b][i].n \in 1..said'
  <2> TAKE b \in Chatter
  <2> TAKE i \in DOMAIN chat'[b]
  <2>1. \A k \in 1..said : k \in 1..said'
    BY <1>0, <1>1
  <2>2. said + 1 \in 1..said'
    BY <1>0, <1>1
  <2> QED
    BY <1>0, <1>5, <1>6, <2>1, <2>2
<1>8. \A b, c \in Chatter : \A i \in DOMAIN chat'[b], j \in DOMAIN chat'[c] :
        chat'[b][i].n = chat'[c][j].n => b = c /\ i = j
  <2>1. said + 1 \notin 1..said
    BY <1>0, <1>1
  <2> TAKE b, c \in Chatter
  <2> TAKE i \in DOMAIN chat'[b], j \in DOMAIN chat'[c]
  <2>2. CASE i \in DOMAIN chat[b] /\ chat'[b][i] = chat[b][i]
    BY <1>0, <2>1, <2>2, <1>5, <1>6
  <2>3. CASE b = a /\ i = l + 1 /\ chat'[b][i] = row
    BY <1>0, <2>1, <2>3, <1>5, <1>6
  <2> QED
    BY <1>0, <2>2, <2>3, <1>5
<1>9. \A b \in Chatter : \A i, j \in DOMAIN chat'[b] : i < j => chat'[b][i].n < chat'[b][j].n
  <2> SUFFICES ASSUME NEW b \in Chatter, NEW i \in DOMAIN chat'[b], NEW j \in DOMAIN chat'[b], i < j
               PROVE  chat'[b][i].n < chat'[b][j].n
    OBVIOUS
  <2>1. CASE b # a
    BY <1>0, <2>1, <1>2, <1>6
  <2>2. CASE b = a
    <3>1. i \in 1..l
      BY <1>0, <2>2, <1>3
    <3>2. chat'[b][i] = chat[a][i] /\ chat[a][i].n \in 1..said
      BY <1>0, <2>2, <3>1, <1>3, <1>6
    <3>3. CASE j \in 1..l
      BY <1>0, <2>2, <3>1, <3>2, <3>3, <1>3, <1>6
    <3>4. CASE j = l + 1
      <4>1. chat'[b][j].n = said + 1
        BY <1>0, <2>2, <3>4, <1>3
      <4> QED
        BY <1>0, <3>2, <4>1, <1>1
    <3> QED
      BY <1>0, <2>2, <3>3, <3>4, <1>3
  <2> QED
    BY <1>0, <2>1, <2>2
<1>10. \E i \in DOMAIN chat'[a] : chat'[a][i] = row
  BY <1>0, <1>3
<1> QED
  BY <1>0, <1>4, <1>5, <1>7, <1>8, <1>9, <1>10

(* What that means for the numbers.                                        *)
LEMMA NumbersGrow ==
  ASSUME HTypeOK, Numbering, NEW a \in Chatter, NEW row \in Row, Adds(a, row), row.read = FALSE
  PROVE  /\ \A b \in Chatter : Numbers(chat[b]) \subseteq Numbers(chat'[b])
         /\ \A b \in Chatter : \A n \in Numbers(chat'[b]) :
              n \in Numbers(chat[b]) \/ (n = said + 1 /\ b = a /\ row.by = "me")
         /\ row.by = "me" => said + 1 \in Numbers(chat'[a])
         /\ \A b \in Chatter : \A n \in 1..said : Mine(chat'[b], n) = Mine(chat[b], n)
         /\ \A b \in Chatter : \A n \in 1..said' : \A j \in Mine(chat'[b], n) :
              chat'[b][j].read => j \in Mine(chat[b], n) /\ chat[b][j].read /\ n \in 1..said
         /\ \A n \in 1..said : Receipted(n) => Receipted(n)'
<1>0. row.n = said + 1 /\ said' = said + 1 /\ chat' = [chat EXCEPT ![a] = Append(@, row)]
  BY DEF Adds
<1>1. said \in Nat
  BY ChatPageAssumption DEF HTypeOK
<1>2. /\ \A b \in Chatter : \A i \in DOMAIN chat[b] : i \in DOMAIN chat'[b] /\ chat'[b][i] = chat[b][i]
      /\ \A b \in Chatter : \A i \in DOMAIN chat'[b] :
           i \in DOMAIN chat[b] \/ (b = a /\ chat'[b][i] = row)
      /\ \E i \in DOMAIN chat'[a] : chat'[a][i] = row
  BY TranscriptGrows
<1>3. /\ \A b \in Chatter : Numbers(chat[b]) \subseteq Numbers(chat'[b])
      /\ \A b \in Chatter : \A n \in Numbers(chat'[b]) :
           n \in Numbers(chat[b]) \/ (n = said + 1 /\ b = a /\ row.by = "me")
      /\ row.by = "me" => said + 1 \in Numbers(chat'[a])
  BY <1>0, <1>2 DEF Numbers
<1>4. \A b \in Chatter : \A n \in 1..said : Mine(chat'[b], n) = Mine(chat[b], n)
  <2>1. said + 1 \notin 1..said
    BY <1>0, <1>1
  <2> QED
    BY <1>0, <1>2, <2>1 DEF Mine, IsMine
<1>5. \A b \in Chatter : \A n \in 1..said' : \A j \in Mine(chat'[b], n) :
        chat'[b][j].read => j \in Mine(chat[b], n) /\ chat[b][j].read /\ n \in 1..said
  <2> SUFFICES ASSUME NEW b \in Chatter, NEW n \in 1..said', NEW j \in Mine(chat'[b], n), chat'[b][j].read
               PROVE  j \in Mine(chat[b], n) /\ chat[b][j].read /\ n \in 1..said
    OBVIOUS
  <2>1. j \in DOMAIN chat[b] /\ chat'[b][j] = chat[b][j] /\ chat'[b][j].by = "me" /\ chat'[b][j].n = n
    BY <1>0, <1>2 DEF Mine, IsMine
  <2>2. n \in 1..said
    BY <1>0, <2>1 DEF Numbering
  <2> QED
    BY <1>0, <2>1, <2>2 DEF Mine, IsMine
<1>6. \A n \in 1..said : Receipted(n) => Receipted(n)'
  <2> SUFFICES ASSUME NEW n \in 1..said, NEW b \in Chatter, NEW j \in Mine(chat[b], n), chat[b][j].read
               PROVE  \E c \in Chatter : \E i \in Mine(chat'[c], n) : chat'[c][i].read
    BY <1>0 DEF Receipted
  <2>1. j \in Mine(chat'[b], n) /\ chat'[b][j].read
    BY <1>0, <1>2, <1>4 DEF Mine
  <2> QED
    BY <1>0, <2>1
<1> QED
  BY <1>0, <1>3, <1>4, <1>5, <1>6

(* A row of a transcript is marked.                                        *)
Ticks(a, x) ==
  chat[a][x].by = "me" /\ chat' = [chat EXCEPT ![a][x].read = TRUE] /\ said' = said

LEMMA TranscriptMarked ==
  ASSUME HTypeOK, Numbering, NEW a \in Chatter, NEW x \in DOMAIN chat[a], Ticks(a, x),
         NEW r, r = chat[a][x].n
  PROVE  /\ \A b \in Chatter : /\ DOMAIN chat'[b] = DOMAIN chat[b]
                               /\ \A i \in DOMAIN chat[b] : /\ chat'[b][i].n = chat[b][i].n
                                                            /\ chat'[b][i].by = chat[b][i].by
                               /\ Numbers(chat'[b]) = Numbers(chat[b])
                               /\ \A n : Mine(chat'[b], n) = Mine(chat[b], n)
                               /\ \A i \in DOMAIN chat[b] :
                                    chat'[b][i].read <=> chat[b][i].read \/ (b = a /\ i = x)
         /\ \A n : Receipted(n) => Receipted(n)'
         /\ Receipted(r)'
<1>1. /\ \A b \in Chatter : chat[b] \in Seq(Row)
      /\ \A b \in Chatter : b # a => chat'[b] = chat[b]
      /\ chat'[a] = [chat[a] EXCEPT ![x].read = TRUE]
      /\ chat[a][x].by = "me" /\ said' = said
  BY DEF HTypeOK, Ticks
<1>2. ASSUME NEW b \in Chatter
      PROVE  /\ DOMAIN chat'[b] = DOMAIN chat[b]
             /\ \A i \in DOMAIN chat[b] : /\ chat'[b][i].n = chat[b][i].n
                                          /\ chat'[b][i].by = chat[b][i].by
             /\ \A i \in DOMAIN chat[b] : chat'[b][i].read <=> chat[b][i].read \/ (b = a /\ i = x)
  <2>1. CASE b # a
    BY <2>1, <1>1
  <2>2. CASE b = a
    <3>1. \A i \in DOMAIN chat[a] : chat[a][i] \in Row
      BY <1>1, ElementOfSeq, LenProperties
    <3>2. /\ DOMAIN chat'[a] = DOMAIN chat[a]
          /\ \A i \in DOMAIN chat[a] : i # x => chat'[a][i] = chat[a][i]
          /\ chat'[a][x] = [chat[a][x] EXCEPT !.read = TRUE]
      BY <1>1
    <3>3. chat'[a][x].n = chat[a][x].n /\ chat'[a][x].by = chat[a][x].by /\ chat'[a][x].read = TRUE
      BY <3>1, <3>2 DEF Row
    <3> QED
      BY <2>2, <3>2, <3>3
  <2> QED
    BY <2>1, <2>2
<1>3. ASSUME NEW b \in Chatter
      PROVE  Numbers(chat'[b]) = Numbers(chat[b]) /\ \A n : Mine(chat'[b], n) = Mine(chat[b], n)
  BY <1>2 DEF Numbers, Mine, IsMine
<1>4. \A n : Receipted(n) => Receipted(n)'
  <2> SUFFICES ASSUME NEW n, NEW b \in Chatter, NEW j \in Mine(chat[b], n), chat[b][j].read
               PROVE  \E c \in Chatter : \E i \in Mine(chat'[c], n) : chat'[c][i].read
    BY DEF Receipted
  <2>1. j \in Mine(chat'[b], n) /\ j \in DOMAIN chat[b]
    BY <1>3 DEF Mine
  <2> QED
    BY <2>1, <1>2
<1>5. Receipted(r)'
  <2>1. x \in Mine(chat'[a], r) /\ chat'[a][x].read
    BY <1>1, <1>2 DEF Mine, IsMine
  <2> QED
    BY <2>1 DEF Receipted
<1> QED
  BY <1>2, <1>3, <1>4, <1>5

(* What an agent's page is about.                                          *)
LEMMA CurrentIs ==
  ASSUME PGInv
  PROVE  /\ Unbroken => current \in Chatter /\ stream.of = current /\ stream = [of |-> current, state |-> "open"]
         /\ current # Nobody => current \in Chatter
         /\ said \in Nat
<1>1. stream \in [of : Chatter \cup {Nobody}, state : {"none", "opening", "open", "ended", "dead"}]
  BY DEF PGInv, HTypeOK
<1>2. stream.of = current /\ (current = Nobody <=> stream = NoStream) /\ current \in Chatter \cup {Nobody}
  BY DEF PGInv, HTypeOK, PageOK
<1>3. said \in Nat
  BY ChatPageAssumption DEF PGInv, HTypeOK
<1>4. Unbroken => stream.state = "open"
  BY DEF Unbroken
<1> QED
  BY <1>1, <1>2, <1>3, <1>4 DEF NoStream

(* A message is taken: the transcript has it, and its answer is on its way. *)
LEMMA TakeStep == ASSUME PGInv, NEW p \in posts, TakeMessage(p) PROVE PGInv'
<1> DEFINE row == [by |-> "me", n |-> said + 1, read |-> FALSE]
           q == [p EXCEPT !.at = "answered", !.n = said + 1]
<1>1. HTypeOK /\ Numbering /\ said \in Nat /\ said < MaxSaid
  BY CurrentIs DEF PGInv, TakeMessage
<1>2. /\ p \in [of : Chatter, at : {"sent", "answered"}, n : 0..MaxSaid, k : 0..MaxSaid]
      /\ p.at = "sent" /\ p.of \in Chatter
      /\ said + 1 \in 0..MaxSaid /\ row \in Row /\ row.n = said + 1 /\ row.read = FALSE /\ row.by = "me"
  BY <1>1, ChatPageAssumption DEF HTypeOK, TakeMessage, Row
<1>3. /\ q \in [of : Chatter, at : {"sent", "answered"}, n : 0..MaxSaid, k : 0..MaxSaid]
      /\ q.at = "answered" /\ q.of = p.of /\ q.n = said + 1
      /\ posts' = (posts \ {p}) \cup {q}
  BY <1>2 DEF TakeMessage
<1>4. /\ Adds(p.of, row) /\ said' = said + 1
      /\ UNCHANGED <<listed, trusted, stream, wire, current, known, log, greeted, connected, locked, opens, reboots,
                     broken, crossed, unheard, overtaken, news>>
  BY <1>2 DEF TakeMessage, Adds, pageside, notes4
<1> HIDE DEF row, q
<1>5. /\ \A b \in Chatter : Numbers(chat[b]) \subseteq Numbers(chat'[b])
      /\ \A b \in Chatter : \A n \in Numbers(chat'[b]) :
           n \in Numbers(chat[b]) \/ (n = said + 1 /\ b = p.of /\ row.by = "me")
      /\ row.by = "me" => said + 1 \in Numbers(chat'[p.of])
      /\ \A b \in Chatter : \A n \in 1..said : Mine(chat'[b], n) = Mine(chat[b], n)
      /\ \A b \in Chatter : \A n \in 1..said' : \A j \in Mine(chat'[b], n) :
           chat'[b][j].read => j \in Mine(chat[b], n) /\ chat[b][j].read /\ n \in 1..said
      /\ \A n \in 1..said : Receipted(n) => Receipted(n)'
  BY <1>1, <1>2, <1>4, NumbersGrow
<1>6. HTypeOK'
  <2>1. chat' \in [Chatter -> Seq(Row)]
    BY <1>1, <1>2, <1>4, AppendProperties DEF HTypeOK, Adds
  <2>2. posts' \subseteq [of : Chatter, at : {"sent", "answered"}, n : 0..MaxSaid, k : 0..MaxSaid]
    BY <1>1, <1>3 DEF HTypeOK
  <2>3. said' \in 0..MaxSaid
    BY <1>2, <1>4
  <2> QED
    BY <1>1, <1>4, <2>1, <2>2, <2>3 DEF HTypeOK
<1>7. Coming' = Coming /\ \A c : RowAt(c)' = RowAt(c)
  BY <1>4, SamePlaces
<1>8. Numbering'
  <2>1. \A r \in posts : r.n # 0 => r.n \in 1..said
    <3> SUFFICES ASSUME NEW r \in posts, r.n # 0 PROVE r.n \in 1..said
      OBVIOUS
    <3>1. r.n \in Numbers(chat[r.of]) /\ r.of \in Chatter
      BY <1>1 DEF Numbering, HTypeOK
    <3> QED
      BY <1>1, <3>1 DEF Numbering, Numbers
  <2>2. \A r \in posts' : IF r.at = "sent" THEN r.n = 0 ELSE r.n \in Numbers(chat'[r.of])
    <3> TAKE r \in posts'
    <3>1. CASE r \in posts
      <4>1. r.of \in Chatter
        BY <1>1, <3>1 DEF HTypeOK
      <4> QED
        BY <1>1, <1>5, <3>1, <4>1 DEF Numbering
    <3>2. CASE r = q
      BY <1>2, <1>3, <1>5, <3>2
    <3> QED
      BY <1>3, <3>1, <3>2
  <2>3. \A r, s \in posts' : r.n = s.n => r = s \/ r.n = 0
    <3>1. said + 1 \notin 1..said /\ said + 1 # 0
      BY <1>1
    <3> QED
      BY <1>1, <1>3, <2>1, <3>1 DEF Numbering
  <2>4. /\ \A b \in Chatter : \A i \in DOMAIN chat'[b] : chat'[b][i].n \in 1..said'
        /\ \A b, c \in Chatter : \A i \in DOMAIN chat'[b], j \in DOMAIN chat'[c] :
             chat'[b][i].n = chat'[c][j].n => b = c /\ i = j
        /\ \A b \in Chatter : \A i, j \in DOMAIN chat'[b] : i < j => chat'[b][i].n < chat'[b][j].n
    BY <1>1, <1>2, <1>4, TranscriptGrows
  <2> QED
    BY <2>2, <2>3, <2>4 DEF Numbering
<1>9. /\ \A row_ \in Row : Fitting(row_) => Fitting(row_)'
      /\ \A e \in Event : Honest(e) => Honest(e)'
  <2>1. said' \in Nat /\ said <= said'
    BY <1>1, <1>4
  <2>2. current # Nobody => Numbers(chat[current]) \subseteq Numbers(chat'[current])
    BY <1>5, CurrentIs
  <2> QED
    BY <1>1, <1>4, <1>5, <2>1, <2>2, StaysFitting
<1>10. PageOK'
  <2>1. \A k \in DOMAIN wire : Honest(wire[k])'
    BY <1>1, <1>4, <1>9, RowsAreRows DEF PGInv, PageOK
  <2>2. \A c \in Coming' : Fitting(RowAt(c))'
    BY <1>1, <1>7, <1>9, RowsAreRows DEF PGInv, PageOK
  <2> QED
    BY <1>4, <2>1, <2>2 DEF PGInv, PageOK
<1>11. ASSUME Unbroken PROVE current \in Chatter
  BY <1>11, CurrentIs
<1>12. \A c \in Coming : ~IsMine(RowAt(c), said + 1)
  <2> SUFFICES ASSUME NEW c \in Coming PROVE RowAt(c).n # said + 1
    BY DEF IsMine
  <2>1. RowAt(c) \in Row /\ RowAt(c).n <= said
    BY <1>1, RowsAreRows DEF PGInv, PageOK, Fitting
  <2> QED
    BY <1>1, <2>1 DEF Row
<1>13. MineOnce'
  <2> SUFFICES ASSUME Unbroken, NEW n \in (1..(said + 1)) \ crossed
               PROVE  /\ \A c, d \in Coming : IsMine(RowAt(c), n) /\ IsMine(RowAt(d), n) => c = d
                      /\ \A r \in posts' : r.n = n => \A c \in Coming : ~IsMine(RowAt(c), n)
                      /\ n \in Numbers(chat'[current]) \ unheard /\ (\A r \in posts' : r.n # n) =>
                           \E c \in Coming : IsMine(RowAt(c), n)
    BY <1>4, <1>7 DEF MineOnce, Unbroken
  <2>1. CASE n = said + 1
    BY <2>1, <1>3, <1>12
  <2>2. CASE n # said + 1
    <3>1. n \in (1..said) \ crossed /\ n # 0
      BY <2>2, <1>1
    <3>2. /\ \A c, d \in Coming : IsMine(RowAt(c), n) /\ IsMine(RowAt(d), n) => c = d
          /\ \A r \in posts : r.n = n => \A c \in Coming : ~IsMine(RowAt(c), n)
          /\ n \in Numbers(chat[current]) \ unheard /\ (\A r \in posts : r.n # n) =>
               \E c \in Coming : IsMine(RowAt(c), n)
      BY <3>1 DEF PGInv, MineOnce
    <3>3. p.n # n
      BY <1>1, <1>2, <3>1 DEF Numbering
    <3> QED
      BY <1>3, <1>5, <1>11, <2>2, <3>2, <3>3
  <2> QED
    BY <2>1, <2>2
<1>14. TicksCome'
  <2> SUFFICES ASSUME Unbroken, NEW n \in (1..(said + 1)) \ (crossed \cup overtaken), ReadHere(n)'
               PROVE  /\ \A c \in Coming : IsMine(RowAt(c), n) /\ ~RowAt(c).read =>
                           \E k \in DOMAIN wire : c[1] < k /\ Says(wire[k], n)
                      /\ \A r \in posts' : r.n = n => \E k \in DOMAIN wire : Says(wire[k], n)
    BY <1>4, <1>7 DEF TicksCome, Unbroken
  <2>1. ReadHere(n) /\ n \in 1..said
    BY <1>4, <1>5, <1>11 DEF ReadHere
  <2>2. n # said + 1
    BY <1>1, <2>1
  <2> QED
    BY <1>3, <2>1, <2>2 DEF PGInv, TicksCome
<1>15. GreetedFirst'
  BY <1>4, <1>7 DEF PGInv, GreetedFirst, Unbroken
<1>16. RepliesOnce'
  <2> SUFFICES ASSUME Unbroken
               PROVE  /\ \A c \in Coming : IsReply(RowAt(c)) =>
                           \E i \in DOMAIN chat'[current] : IsReply(chat'[current][i]) /\ chat'[current][i].n = RowAt(c).n
                      /\ \A i \in DOMAIN chat'[current] : IsReply(chat'[current][i]) =>
                           \E c \in Coming : IsReply(RowAt(c)) /\ RowAt(c).n = chat'[current][i].n
                      /\ \A c, d \in Coming :
                           IsReply(RowAt(c)) /\ IsReply(RowAt(d)) /\ Above(c, d) => RowAt(c).n < RowAt(d).n
    BY <1>4, <1>7 DEF RepliesOnce, Unbroken
  <2>1. /\ \A i \in DOMAIN chat[current] : i \in DOMAIN chat'[current] /\ chat'[current][i] = chat[current][i]
        /\ \A i \in DOMAIN chat'[current] :
             i \in DOMAIN chat[current] \/ chat'[current][i] = row
    BY <1>1, <1>2, <1>4, <1>11, TranscriptGrows
  <2>2. ~IsReply(row)
    BY <1>2 DEF IsReply
  <2> QED
    BY <2>1, <2>2 DEF PGInv, RepliesOnce
<1> QED
  BY <1>6, <1>8, <1>10, <1>13, <1>14, <1>15, <1>16 DEF PGInv

(* The hub's and the page's steps that show nothing.                       *)
LEMMA RefuseStep == ASSUME PGInv, RefuseStream PROVE PGInv'
<1>1. stream.state = "opening" /\ stream' = [stream EXCEPT !.state = "dead"] /\ connected' = FALSE
  BY DEF RefuseStream
<1>2. UNCHANGED <<listed, trusted, said, chat, wire, posts, current, known, log, greeted, locked, opens, reboots,
                  broken, crossed, unheard, overtaken, news>>
  BY DEF RefuseStream, hubside, notes4
<1>3. HTypeOK'
  <2>1. /\ stream \in [of : Chatter \cup {Nobody}, state : {"none", "opening", "open", "ended", "dead"}]
        /\ (current = Nobody) = (stream = NoStream)
    BY DEF PGInv, HTypeOK
  <2>2. /\ stream' \in [of : Chatter \cup {Nobody}, state : {"none", "opening", "open", "ended", "dead"}]
        /\ stream'.state = "dead" /\ stream.state # "none" /\ stream'.state # "none"
    BY <1>1, <2>1
  <2>3. stream # NoStream /\ stream' # NoStream
    BY <2>2 DEF NoStream
  <2> QED
    BY <1>1, <1>2, <2>1, <2>2, <2>3 DEF PGInv, HTypeOK
<1> QED
  BY <1>1, <1>2, <1>3, QuietStep

LEMMA RosterStep ==
  ASSUME PGInv, (\E a \in Chatter : Leaves(a) \/ Joins(a)) \/ Reboots \/ Trusts
  PROVE  PGInv'
<1>1. /\ stream' = stream \/ (stream.state = "open" /\ stream' = [stream EXCEPT !.state = "ended"])
      /\ listed' \subseteq Chatter
      /\ trusted' \in BOOLEAN
      /\ reboots' \in 0..MaxReboots
      /\ UNCHANGED <<said, chat, wire, posts, current, known, log, greeted, connected, locked, opens,
                     broken, crossed, unheard, overtaken, news>>
  <2>1. HTypeOK
    BY DEF PGInv
  <2>2. reboots < MaxReboots => reboots + 1 \in 0..MaxReboots
    BY <2>1, ChatPageAssumption DEF HTypeOK
  <2>3. CASE \E a \in Chatter : Leaves(a)
    <3>1. PICK a \in Chatter : Leaves(a)
      BY <2>3
    <3>2. /\ reboots < MaxReboots /\ reboots' = reboots + 1 /\ listed' = listed \ {a} /\ trusted' = trusted
          /\ stream' = stream \/ (stream.state = "open" /\ stream' = [stream EXCEPT !.state = "ended"])
      BY <3>1 DEF Leaves
    <3>3. UNCHANGED <<said, chat, wire, posts, current, known, log, greeted, connected, locked, opens,
                      broken, crossed, unheard, overtaken, news>>
      BY <3>1 DEF Leaves, pageside, notes4
    <3>4. listed' \subseteq Chatter /\ trusted' \in BOOLEAN
      BY <2>1, <3>2 DEF HTypeOK
    <3> QED
      BY <2>2, <3>2, <3>3, <3>4
  <2>4. CASE \E a \in Chatter : Joins(a)
    BY <2>1, <2>4 DEF HTypeOK, Joins, pageside, notes4
  <2>5. CASE Reboots
    BY <2>1, <2>2, <2>5 DEF HTypeOK, Reboots, pageside, notes4
  <2>6. CASE Trusts
    BY <2>1, <2>6 DEF HTypeOK, Trusts, pageside, notes4
  <2> QED
    BY <2>3, <2>4, <2>5, <2>6
<1>2. HTypeOK'
  <2>1. HTypeOK
    BY DEF PGInv
  <2>2. /\ stream' \in [of : Chatter \cup {Nobody}, state : {"none", "opening", "open", "ended", "dead"}]
        /\ (stream' = NoStream) = (stream = NoStream)
    BY <1>1, <2>1 DEF HTypeOK, NoStream
  <2> QED
    BY <1>1, <2>1, <2>2 DEF HTypeOK
<1> QED
  BY <1>1, <1>2, QuietStep

LEMMA ComposerStep == ASSUME PGInv, SubmitComposer PROVE PGInv'
<1>1. PICK k \in 0..MaxSaid : posts' = posts \cup {[of |-> current, at |-> "sent", n |-> 0, k |-> k]}
  BY DEF SubmitComposer
<1>2. UNCHANGED <<listed, trusted, said, chat, stream, wire, current, known, log, greeted, connected, locked, opens,
                  reboots, broken, crossed, unheard, overtaken, news>>
  BY DEF SubmitComposer, hubside, pageside, notes4
<1>3. current \in Chatter
  BY CurrentIs DEF SubmitComposer
<1>4. HTypeOK'
  <2>1. [of |-> current, at |-> "sent", n |-> 0, k |-> k]
          \in [of : Chatter, at : {"sent", "answered"}, n : 0..MaxSaid, k : 0..MaxSaid]
    BY <1>3, ChatPageAssumption
  <2>2. posts' \subseteq [of : Chatter, at : {"sent", "answered"}, n : 0..MaxSaid, k : 0..MaxSaid]
    BY <1>1, <2>1 DEF PGInv, HTypeOK
  <2> QED
    BY <1>2, <2>2 DEF PGInv, HTypeOK, NoStream
<1> QED
  BY <1>1, <1>2, <1>4, QuietStep

LEMMA FailStep == ASSUME PGInv, NEW p \in posts, SubmitFails(p) PROVE PGInv'
<1>1. posts' = posts \ {p} /\ unheard' = unheard \cup ({p.n} \ {0})
  BY DEF SubmitFails
<1>2. UNCHANGED <<listed, trusted, said, chat, stream, wire, current, known, log, greeted, connected, locked, opens,
                  reboots, broken, crossed, overtaken, news>>
  BY DEF SubmitFails, hubside, pageside
<1>3. HTypeOK'
  <2>1. p.n \in 0..MaxSaid
    BY DEF PGInv, HTypeOK
  <2> QED
    BY <1>1, <1>2, <2>1 DEF PGInv, HTypeOK, NoStream
<1> QED
  BY <1>1, <1>2, <1>3, QuietStep

(* The page's steps that open another stream, or close the one there was.  *)
LEMMA SelectTypes ==
  ASSUME HTypeOK, NEW a \in Chatter, Select(a)
  PROVE  /\ current' \in Chatter /\ log' \in Seq(Row) /\ wire' \in Seq(Event)
         /\ stream' \in [of : Chatter \cup {Nobody}, state : {"none", "opening", "open", "ended", "dead"}]
         /\ {greeted', connected', broken'} \subseteq BOOLEAN /\ news' = {}
         /\ opens' \in 0..MaxStreams
         /\ stream'.of = current' /\ stream'.state = "opening" /\ log' = <<>> /\ wire' = <<>> /\ greeted' = FALSE
         /\ current' # Nobody /\ stream' # NoStream
<1>1. opens < MaxStreams => opens + 1 \in 0..MaxStreams
  BY ChatPageAssumption DEF HTypeOK
<1>2. stream' = [of |-> a, state |-> "opening"] /\ current' = a /\ a # Nobody
  BY ChatPageAssumption DEF Select
<1>3. /\ stream' \in [of : Chatter \cup {Nobody}, state : {"none", "opening", "open", "ended", "dead"}]
      /\ stream'.of = current' /\ stream'.state = "opening"
  BY <1>2
<1>4. stream' # NoStream
  BY <1>3 DEF NoStream
<1>5. /\ log' = <<>> /\ wire' = <<>> /\ greeted' = FALSE /\ connected' = FALSE /\ broken' = FALSE /\ news' = {}
      /\ opens' \in 0..MaxStreams
  BY <1>1 DEF Select
<1>6. /\ log' \in Seq(Row) /\ wire' \in Seq(Event)
      /\ {greeted', connected', broken'} \subseteq BOOLEAN
  <2>1. <<>> \in Seq(Row) /\ <<>> \in Seq(Event)
    OBVIOUS
  <2>2. greeted' \in BOOLEAN /\ connected' \in BOOLEAN /\ broken' \in BOOLEAN
    BY <1>5
  <2> QED
    BY <1>5, <2>1, <2>2
<1> QED
  BY <1>2, <1>3, <1>4, <1>5, <1>6

LEMMA PickStep ==
  ASSUME PGInv, NEW a \in Chatter, Picks(a)
  PROVE  PGInv'
<1>1. /\ UNCHANGED <<listed, trusted, said, chat, posts, known, locked, reboots, crossed, unheard, overtaken>>
      /\ Select(a) /\ HTypeOK
  BY DEF Picks, hubside, PGInv
<1>2. HTypeOK'
  BY <1>1, SelectTypes DEF HTypeOK
<1> QED
  BY <1>1, <1>2, SelectTypes, AnewStep

LEMMA RosterLoadedStep == ASSUME PGInv, RosterLoaded PROVE PGInv'
<1>1. /\ UNCHANGED <<listed, trusted, said, chat, posts, reboots, crossed, unheard, overtaken>>
      /\ locked' = FALSE /\ known' = listed /\ HTypeOK
  BY DEF RosterLoaded, hubside, PGInv
<1>2. CASE UNCHANGED <<stream, wire, current, log, greeted, connected, opens, broken, news>>
  <2>1. HTypeOK'
    BY <1>1, <1>2 DEF HTypeOK, NoStream
  <2> QED
    BY <1>1, <1>2, <2>1, QuietStep
<1>3. CASE \E a \in listed : Select(a)
  <2>1. PICK a \in Chatter : Select(a)
    BY <1>1, <1>3 DEF HTypeOK
  <2>2. HTypeOK'
    BY <1>1, <2>1, SelectTypes DEF HTypeOK
  <2> QED
    BY <1>1, <2>1, <2>2, SelectTypes, AnewStep
<1> QED
  BY <1>2, <1>3 DEF RosterLoaded

LEMMA LockedStep == ASSUME PGInv, ShowLocked PROVE PGInv'
<1>1. /\ UNCHANGED <<listed, trusted, said, chat, posts, known, greeted, connected, opens, reboots,
                     broken, crossed, unheard, overtaken, news>>
      /\ locked' = TRUE /\ current' = Nobody /\ log' = <<>> /\ stream' = NoStream /\ wire' = <<>>
      /\ HTypeOK
  BY DEF ShowLocked, hubside, notes4, PGInv
<1>2. stream'.of = current' /\ stream'.state = "none"
  BY <1>1 DEF NoStream
<1>3. stream' \in [of : Chatter \cup {Nobody}, state : {"none", "opening", "open", "ended", "dead"}]
  BY <1>1 DEF NoStream
<1>4. HTypeOK'
  BY <1>1, <1>3 DEF HTypeOK, NoStream
<1> QED
  BY <1>1, <1>2, <1>4, AnewStep

LEMMA ErrorStep == ASSUME PGInv, OnError PROVE PGInv'
<1>1. /\ UNCHANGED <<listed, trusted, said, chat, posts, current, known, log, greeted, locked,
                     crossed, unheard, overtaken, news>>
      /\ stream' = [stream EXCEPT !.state = "opening"] /\ connected' = FALSE /\ broken' = TRUE
      /\ wire' = <<>> /\ stream.state \in {"open", "ended"}
      /\ HTypeOK
  BY DEF OnError, hubside, PGInv
<1>2. opens' \in 0..MaxStreams /\ reboots' \in 0..MaxReboots
  BY <1>1, ChatPageAssumption DEF OnError, HTypeOK
<1>3. stream.of = current
  BY DEF PGInv, PageOK
<1>4. /\ stream'.of = current' /\ stream'.state = "opening"
      /\ stream' \in [of : Chatter \cup {Nobody}, state : {"none", "opening", "open", "ended", "dead"}]
      /\ stream # NoStream /\ stream' # NoStream
  <2>1. /\ stream \in [of : Chatter \cup {Nobody}, state : {"none", "opening", "open", "ended", "dead"}]
        /\ stream.state # "none"
    BY <1>1 DEF HTypeOK
  <2>2. /\ stream' \in [of : Chatter \cup {Nobody}, state : {"none", "opening", "open", "ended", "dead"}]
        /\ stream'.of = stream.of /\ stream'.state = "opening"
    BY <1>1, <2>1
  <2>3. stream # NoStream /\ stream' # NoStream
    BY <2>1, <2>2 DEF NoStream
  <2> QED
    BY <1>1, <1>3, <2>2, <2>3
<1>5. HTypeOK'
  <2>1. wire' \in Seq(Event)
    BY <1>1
  <2> QED
    BY <1>1, <1>2, <1>4, <2>1 DEF HTypeOK
<1> QED
  BY <1>1, <1>4, <1>5, AnewStep

(* What a stream begins with.                                              *)
LEMMA ServedRows ==
  ASSUME PGInv, ServeStream
  PROVE  /\ current \in Chatter /\ stream.of = current
         /\ wire' = <<Streamed("open", <<>>, 0), Streamed("history", chat[current], 0),
                      Streamed("output", <<Greeting>>, 0)>>
         /\ wire' \in Seq(Event) /\ DOMAIN wire' = 1..3
         /\ wire'[1].type = "open" /\ wire'[1].rows = <<>>
         /\ wire'[2].type = "history" /\ wire'[2].rows = chat[current]
         /\ wire'[3].type = "output" /\ wire'[3].rows = <<Greeting>> /\ wire'[3].n = 0
         /\ \A c \in Coming' :
              \/ c[1] = 0 /\ c \in Coming /\ RowAt(c)' = RowAt(c) /\ RowAt(c) = log[c[2]] /\ c[2] \in DOMAIN log
              \/ c = <<2, c[2]>> /\ c[2] \in DOMAIN chat[current] /\ RowAt(c)' = chat[current][c[2]]
              \/ c = <<3, 1>> /\ RowAt(c)' = Greeting
         /\ \A i \in DOMAIN chat[current] : <<2, i>> \in Coming' /\ RowAt(<<2, i>>)' = chat[current][i]
         /\ <<3, 1>> \in Coming' /\ RowAt(<<3, 1>>)' = Greeting
<1>1. /\ stream.of = current /\ stream.state = "opening" /\ wire = <<>> /\ log' = log
      /\ wire' = <<Streamed("open", <<>>, 0), Streamed("history", chat[stream.of], 0),
                   Streamed("output", <<Greeting>>, 0)>>
  BY DEF PGInv, PageOK, ServeStream, pageside
<1>2. current \in Chatter
  <2>1. stream # NoStream
    BY <1>1 DEF NoStream
  <2> QED
    BY <2>1, CurrentIs DEF PGInv, HTypeOK
<1>3. chat[current] \in Seq(Row) /\ Greeting \in Row
  <2>1. 0 \in 0..MaxSaid
    BY ChatPageAssumption
  <2>2. Greeting \in Row
    BY <2>1 DEF Row, Greeting
  <2> QED
    BY <1>2, <2>2 DEF PGInv, HTypeOK
<1>4. /\ Streamed("open", <<>>, 0) \in Event /\ Streamed("open", <<>>, 0).rows = <<>>
      /\ Streamed("history", chat[current], 0) \in Event
      /\ Streamed("history", chat[current], 0).rows = chat[current]
      /\ Streamed("output", <<Greeting>>, 0) \in Event
      /\ Streamed("output", <<Greeting>>, 0).rows = <<Greeting>>
      /\ Streamed("open", <<>>, 0).type = "open" /\ Streamed("history", chat[current], 0).type = "history"
      /\ Streamed("output", <<Greeting>>, 0).type = "output" /\ Streamed("output", <<Greeting>>, 0).n = 0
  <2>1. 0 \in 0..MaxSaid
    BY ChatPageAssumption
  <2>2. <<>> \in Seq(Row) /\ <<Greeting>> \in Seq(Row)
    BY <1>3
  <2> QED
    BY <1>3, <2>1, <2>2 DEF Streamed, Event
<1> DEFINE o == Streamed("open", <<>>, 0)
           h == Streamed("history", chat[current], 0)
           g == Streamed("output", <<Greeting>>, 0)
<1>5. wire' = <<o, h, g>> /\ o \in Event /\ h \in Event /\ g \in Event
  BY <1>1, <1>4
<1>6. /\ wire' \in Seq(Event) /\ Len(wire') = 3 /\ DOMAIN wire' = 1..3
      /\ wire'[1] = o /\ wire'[2] = h /\ wire'[3] = g
  <2> HIDE DEF o, h, g
  <2> QED
    BY <1>5
<1>7. o.rows = <<>> /\ h.rows = chat[current] /\ g.rows = <<Greeting>>
  BY <1>4
<1> HIDE DEF o, h, g
<1>8. /\ RowsOf(0)' = log /\ RowsOf(1)' = <<>> /\ RowsOf(2)' = chat[current] /\ RowsOf(3)' = <<Greeting>>
  BY <1>1, <1>6, <1>7 DEF RowsOf
<1>9. 0..3 = {0, 1, 2, 3} /\ Len(wire)' = 3
  BY <1>6
<1>10. Coming' = UNION {{<<k, i>> : i \in DOMAIN RowsOf(k)'} : k \in {0, 1, 2, 3}}
  BY <1>9 DEF Coming
<1>11. /\ \A c \in Coming' : c = <<c[1], c[2]>> /\ c[1] \in {0, 1, 2, 3} /\ c[2] \in DOMAIN RowsOf(c[1])'
       /\ \A k \in {0, 1, 2, 3} : \A i \in DOMAIN RowsOf(k)' : <<k, i>> \in Coming'
  BY <1>10
<1>12. \A k, i : RowAt(<<k, i>>)' = RowsOf(k)'[i]
  BY DEF RowAt
<1>13. \A i \in DOMAIN log : <<0, i>> \in Coming /\ RowAt(<<0, i>>) = log[i]
  <2>1. RowsOf(0) = log /\ 0 \in 0..Len(wire)
    BY PlaceIs DEF RowsOf, PGInv
  <2> QED
    BY <2>1, PlaceIs DEF PGInv
<1>14. DOMAIN <<Greeting>> = {1} /\ <<Greeting>>[1] = Greeting
  OBVIOUS
<1>15. ASSUME NEW c \in Coming'
       PROVE \/ c[1] = 0 /\ c \in Coming /\ RowAt(c)' = RowAt(c) /\ RowAt(c) = log[c[2]] /\ c[2] \in DOMAIN log
             \/ c = <<2, c[2]>> /\ c[2] \in DOMAIN chat[current] /\ RowAt(c)' = chat[current][c[2]]
             \/ c = <<3, 1>> /\ RowAt(c)' = Greeting
  <2>0. PICK k \in {0, 1, 2, 3} : \E i \in DOMAIN RowsOf(k)' : c = <<k, i>>
    BY <1>11
  <2>1. PICK i \in DOMAIN RowsOf(k)' : c = <<k, i>> /\ i \in DOMAIN RowsOf(k)'
    BY <2>0
  <2>2. RowAt(c)' = RowsOf(k)'[i]
    BY <2>1, <1>12
  <2>3. CASE k = 0
    BY <2>1, <2>2, <2>3, <1>8, <1>13
  <2>4. CASE k = 1
    BY <2>1, <2>4, <1>8
  <2>5. CASE k = 2
    BY <2>1, <2>2, <2>5, <1>8
  <2>6. CASE k = 3
    BY <2>1, <2>2, <2>6, <1>8, <1>14
  <2> QED
    BY <2>1, <2>3, <2>4, <2>5, <2>6
<1>16. /\ \A i \in DOMAIN chat[current] : <<2, i>> \in Coming' /\ RowAt(<<2, i>>)' = chat[current][i]
       /\ <<3, 1>> \in Coming' /\ RowAt(<<3, 1>>)' = Greeting
  BY <1>8, <1>11, <1>12, <1>14
<1>17. wire' = <<Streamed("open", <<>>, 0), Streamed("history", chat[current], 0),
                 Streamed("output", <<Greeting>>, 0)>>
  BY <1>1
<1> QED
  BY <1>1, <1>2, <1>4, <1>6, <1>15, <1>16, <1>17 DEF o, h, g

LEMMA ServeStep == ASSUME PGInv, ServeStream PROVE PGInv'
<1>1. /\ UNCHANGED <<listed, trusted, said, chat, posts, current, known, log, greeted, connected, locked,
                     opens, reboots, broken, unheard, overtaken, news>>
      /\ stream.state = "opening" /\ stream' = [stream EXCEPT !.state = "open"]
      /\ stream.of = current
      /\ crossed' = crossed \cup {n \in Numbers(chat[current]) :
                                  n \in Numbers(log) \/ \E p \in posts : p.n = n}
      /\ HTypeOK /\ Numbering
  BY DEF ServeStream, hubside, pageside, PGInv, PageOK
<1>2. /\ current \in Chatter
      /\ wire' \in Seq(Event) /\ DOMAIN wire' = 1..3
      /\ wire'[1].type = "open" /\ wire'[1].rows = <<>>
      /\ wire'[2].type = "history" /\ wire'[2].rows = chat[current]
      /\ wire'[3].type = "output" /\ wire'[3].rows = <<Greeting>> /\ wire'[3].n = 0
  BY ServedRows
<1>3. /\ \A c \in Coming' :
           \/ c[1] = 0 /\ c \in Coming /\ RowAt(c)' = RowAt(c) /\ RowAt(c) = log[c[2]] /\ c[2] \in DOMAIN log
           \/ c = <<2, c[2]>> /\ c[2] \in DOMAIN chat[current] /\ RowAt(c)' = chat[current][c[2]]
           \/ c = <<3, 1>> /\ RowAt(c)' = Greeting
      /\ \A i \in DOMAIN chat[current] : <<2, i>> \in Coming' /\ RowAt(<<2, i>>)' = chat[current][i]
      /\ <<3, 1>> \in Coming' /\ RowAt(<<3, 1>>)' = Greeting
  BY ServedRows
<1>4. Greeting.by = "agent" /\ Greeting.n = 0
  BY DEF Greeting
<1>5. said \in Nat /\ \A i \in DOMAIN chat[current] : chat[current][i].n \in 1..said /\ chat[current][i].n # 0
  BY <1>1, <1>2, CurrentIs DEF Numbering
<1>6. HTypeOK'
  <2>1. Numbers(chat[current]) \subseteq 0..MaxSaid
    <3>1. \A i \in DOMAIN chat[current] : chat[current][i] \in Row
      BY <1>1, <1>2, ElementOfSeq, LenProperties DEF HTypeOK
    <3> QED
      BY <3>1 DEF Numbers, Row
  <2>2. crossed' \subseteq 0..MaxSaid
    BY <1>1, <2>1 DEF HTypeOK
  <2>3. /\ stream' \in [of : Chatter \cup {Nobody}, state : {"none", "opening", "open", "ended", "dead"}]
        /\ stream'.state = "open"
    BY <1>1 DEF HTypeOK
  <2>4. (current = Nobody) = (stream' = NoStream)
    BY <1>2, <2>3, ChatPageAssumption DEF NoStream
  <2> QED
    BY <1>1, <1>2, <2>2, <2>3, <2>4 DEF HTypeOK
<1>7. Numbering'
  BY <1>1 DEF Numbering
<1>8. \A n : Receipted(n)' = Receipted(n) /\ ReadHere(n)' = ReadHere(n)
  BY <1>1 DEF Receipted, ReadHere
<1>9. \A row \in Row : Fitting(row) => Fitting(row)'
  BY <1>1, <1>8 DEF Fitting
<1>10. ASSUME NEW c \in Coming' PROVE Fitting(RowAt(c))'
  <2>1. CASE c[1] = 0 /\ c \in Coming /\ RowAt(c)' = RowAt(c)
    <3>1. RowAt(c) \in Row /\ Fitting(RowAt(c))
      BY <2>1, <1>1, RowsAreRows DEF PGInv, PageOK
    <3> QED
      BY <2>1, <3>1, <1>9
  <2>2. CASE c = <<2, c[2]>> /\ c[2] \in DOMAIN chat[current] /\ RowAt(c)' = chat[current][c[2]]
    <3> SUFFICES ASSUME NEW i \in DOMAIN chat[current], NEW row, row = chat[current][i] PROVE Fitting(row)'
      BY <2>2
    <3>1. row.n \in 1..said /\ row.n <= said
      BY <1>5
    <3>2. row.by = "me" => row.n \in Numbers(chat[current])
      BY DEF Numbers
    <3>3. row.by = "me" /\ row.read => Receipted(row.n)
      BY <1>2 DEF Receipted, Mine, IsMine
    <3>4. current # Nobody
      BY <1>2, ChatPageAssumption
    <3> QED
      BY <1>1, <1>8, <3>1, <3>2, <3>3, <3>4 DEF Fitting
  <2>3. CASE RowAt(c)' = Greeting
    BY <2>3, <1>1, <1>4, <1>5 DEF Fitting
  <2> QED
    BY <1>3, <2>1, <2>2, <2>3
<1>11. ASSUME NEW k \in DOMAIN wire' PROVE Honest(wire[k])'
  <2>1. CASE k = 1
    BY <2>1, <1>2 DEF Honest
  <2>2. CASE k = 2
    BY <2>2, <1>1, <1>2, <1>5 DEF Honest
  <2>3. CASE k = 3
    <3>1. 0 \in 0..said
      BY <1>5
    <3> QED
      BY <2>3, <3>1, <1>1, <1>2 DEF Honest, Greeting
  <2> QED
    BY <1>2, <2>1, <2>2, <2>3
<1>12. PageOK'
  BY <1>1, <1>10, <1>11 DEF PageOK
<1> SUFFICES ASSUME ~broken
             PROVE  MineOnce' /\ TicksCome' /\ GreetedFirst' /\ RepliesOnce'
  BY <1>1, <1>6, <1>7, <1>12 DEF PGInv, Unbroken, MineOnce, TicksCome, GreetedFirst, RepliesOnce
<1>13. (\A i \in DOMAIN log : log[i].by = "me") /\ news = {} /\ ~greeted
  BY <1>1 DEF PGInv, PageOK
<1>14. ASSUME NEW c \in Coming', c[1] = 0
       PROVE /\ RowAt(c)'.by = "me" /\ RowAt(c)'.n \in 1..said
             /\ RowAt(c)'.n \in crossed'
  <2>1. c \in Coming /\ RowAt(c)' = RowAt(c) /\ RowAt(c) = log[c[2]] /\ c[2] \in DOMAIN log
    BY <1>3, <1>14
  <2>2. Fitting(RowAt(c)) /\ RowAt(c).by = "me"
    BY <1>13, <2>1 DEF PGInv, PageOK
  <2>3. RowAt(c).n \in Numbers(log)
    BY <2>1, <2>2 DEF Numbers
  <2> QED
    BY <1>1, <2>1, <2>2, <2>3 DEF Fitting
<1>15. MineOnce'
  <2> SUFFICES ASSUME NEW n \in (1..said) \ crossed'
               PROVE  /\ \A c, d \in Coming' : IsMine(RowAt(c)', n) /\ IsMine(RowAt(d)', n) => c = d
                      /\ \A p \in posts : p.n = n => \A c \in Coming' : ~IsMine(RowAt(c)', n)
                      /\ n \in Numbers(chat[current]) => \E c \in Coming' : IsMine(RowAt(c)', n)
    BY <1>1 DEF MineOnce
  <2>1. ASSUME NEW c \in Coming', IsMine(RowAt(c)', n)
        PROVE  /\ c = <<2, c[2]>> /\ c[2] \in DOMAIN chat[current] /\ chat[current][c[2]].n = n
               /\ n \in Numbers(chat[current])
    <3>1. c[1] # 0
      BY <1>14, <2>1 DEF IsMine
    <3>2. RowAt(c)' # Greeting
      BY <2>1, <1>4 DEF IsMine
    <3> QED
      BY <1>3, <2>1, <3>1, <3>2 DEF IsMine, Numbers
  <2>2. \A c, d \in Coming' : IsMine(RowAt(c)', n) /\ IsMine(RowAt(d)', n) => c = d
    BY <1>1, <1>2, <2>1 DEF Numbering
  <2>3. \A p \in posts : p.n = n => \A c \in Coming' : ~IsMine(RowAt(c)', n)
    BY <1>1, <2>1
  <2>4. ASSUME n \in Numbers(chat[current]) PROVE \E c \in Coming' : IsMine(RowAt(c)', n)
    <3>1. PICK i \in DOMAIN chat[current] : chat[current][i].by = "me" /\ chat[current][i].n = n
      BY <2>4 DEF Numbers
    <3>2. <<2, i>> \in Coming' /\ RowAt(<<2, i>>)' = chat[current][i]
      BY <1>3
    <3>3. IsMine(RowAt(<<2, i>>)', n)
      BY <3>1, <3>2 DEF IsMine
    <3> QED
      BY <3>2, <3>3
  <2> QED
    BY <2>2, <2>3, <2>4
<1>16. TicksCome'
  <2> SUFFICES ASSUME NEW n \in (1..said) \ (crossed' \cup overtaken), ReadHere(n)
               PROVE  /\ \A c \in Coming' : IsMine(RowAt(c)', n) => RowAt(c)'.read
                      /\ \A p \in posts : p.n # n
    BY <1>1, <1>8 DEF TicksCome
  <2>1. PICK j \in DOMAIN chat[current] : chat[current][j].by = "me" /\ chat[current][j].n = n /\ chat[current][j].read
    BY DEF ReadHere, Mine, IsMine
  <2>2. n \in Numbers(chat[current])
    BY <2>1 DEF Numbers
  <2>3. \A p \in posts : p.n # n
    BY <1>1, <2>2
  <2>4. ASSUME NEW c \in Coming', IsMine(RowAt(c)', n) PROVE RowAt(c)'.read
    <3>1. c[1] # 0
      BY <1>14, <2>4 DEF IsMine
    <3>2. RowAt(c)' # Greeting
      BY <2>4, <1>4 DEF IsMine
    <3>3. c[2] \in DOMAIN chat[current] /\ RowAt(c)' = chat[current][c[2]] /\ chat[current][c[2]].n = n
      BY <1>3, <2>4, <3>1, <3>2 DEF IsMine
    <3>4. c[2] = j
      BY <1>1, <1>2, <2>1, <3>3 DEF Numbering
    <3> QED
      BY <2>1, <3>3, <3>4
  <2> QED
    BY <2>3, <2>4
<1>17. ASSUME NEW c \in Coming', RowAt(c)'.n = 0 PROVE c = <<3, 1>>
  <2>1. c[1] # 0
    BY <1>14, <1>17
  <2> QED
    BY <1>3, <1>5, <1>17, <2>1
<1>18. GreetedFirst'
  <2>1. \E c \in Coming' : RowAt(c)'.n = 0
    BY <1>3, <1>4
  <2>2. \A k \in DOMAIN wire' : k < 3 => wire'[k].type # "output"
    BY <1>2
  <2>3. \A c \in Coming' : RowAt(c)'.n = 0 /\ c[1] # 0 =>
          ~greeted' /\ \A k \in DOMAIN wire' : k < c[1] => wire'[k].type # "output"
    BY <1>1, <1>13, <1>17, <2>2
  <2>4. 0 \notin news'
    BY <1>1, <1>13
  <2> QED
    BY <1>17, <2>1, <2>3, <2>4 DEF GreetedFirst
<1>19. RepliesOnce'
  <2>1. ASSUME NEW c \in Coming', IsReply(RowAt(c)')
        PROVE  c = <<2, c[2]>> /\ c[2] \in DOMAIN chat[current] /\ RowAt(c)' = chat[current][c[2]]
    <3>1. c[1] # 0
      BY <1>14, <2>1 DEF IsReply
    <3>2. RowAt(c)' # Greeting
      BY <2>1, <1>4 DEF IsReply
    <3> QED
      BY <1>3, <3>1, <3>2
  <2>2. \A c \in Coming' : IsReply(RowAt(c)') =>
          \E i \in DOMAIN chat[current] : IsReply(chat[current][i]) /\ chat[current][i].n = RowAt(c)'.n
    BY <2>1
  <2>3. \A i \in DOMAIN chat[current] : IsReply(chat[current][i]) =>
          \E c \in Coming' : IsReply(RowAt(c)') /\ RowAt(c)'.n = chat[current][i].n
    BY <1>3
  <2>4. ASSUME NEW c \in Coming', NEW d \in Coming', IsReply(RowAt(c)'), IsReply(RowAt(d)'), Above(c, d)
        PROVE  RowAt(c)'.n < RowAt(d)'.n
    <3>1. /\ c = <<2, c[2]>> /\ c[2] \in DOMAIN chat[current] /\ RowAt(c)' = chat[current][c[2]]
          /\ d = <<2, d[2]>> /\ d[2] \in DOMAIN chat[current] /\ RowAt(d)' = chat[current][d[2]]
      BY <2>1, <2>4
    <3>2. c[1] = 2 /\ d[1] = 2
      BY <3>1
    <3>3. c[2] < d[2]
      BY <2>4, <3>2 DEF Above
    <3> QED
      BY <1>1, <1>2, <3>1, <3>3 DEF Numbering
  <2> QED
    BY <1>1, <2>2, <2>3, <2>4 DEF RepliesOnce, IsReply
<1> QED
  BY <1>15, <1>16, <1>18, <1>19

(* What the hub writes to a stream of an agent comes after all else.       *)
LEMMA BroadcastRows ==
  ASSUME PGInv, NEW a \in Chatter, NEW e \in Event, Broadcast(a, e), log' = log, NEW m, m = Len(wire)
  PROVE  /\ m \in Nat /\ DOMAIN wire = 1..m /\ wire' \in Seq(Event)
         /\ Unbroken /\ a = current => stream = [of |-> a, state |-> "open"]
         /\ \A c \in Coming : c \in Coming' /\ RowAt(c)' = RowAt(c) /\ c[1] \in 0..m
         /\ \A c \in Coming' :
              \/ c \in Coming
              \/ /\ stream = [of |-> a, state |-> "open"]
                 /\ c = <<m + 1, c[2]>> /\ c[2] \in DOMAIN e.rows /\ RowAt(c)' = e.rows[c[2]]
         /\ stream = [of |-> a, state |-> "open"] =>
              /\ \A i \in DOMAIN e.rows : <<m + 1, i>> \in Coming' /\ RowAt(<<m + 1, i>>)' = e.rows[i]
              /\ m + 1 \in DOMAIN wire' /\ wire'[m + 1] = e
         /\ \A k \in DOMAIN wire : k \in DOMAIN wire' /\ wire'[k] = wire[k]
         /\ \A k \in DOMAIN wire' :
              \/ k \in DOMAIN wire
              \/ k = m + 1 /\ wire'[k] = e /\ stream = [of |-> a, state |-> "open"]
<1>1. HTypeOK /\ m \in Nat /\ DOMAIN wire = 1..m /\ \A c \in Coming : c[1] \in 0..m
  BY PlaceIs DEF PGInv
<1>2. Unbroken /\ a = current => stream = [of |-> a, state |-> "open"]
  BY CurrentIs
<1>3. CASE stream = [of |-> a, state |-> "open"]
  <2>1. wire' = Append(wire, e)
    BY <1>3 DEF Broadcast
  <2>2. wire' \in Seq(Event)
    BY <1>1, <2>1, AppendProperties DEF HTypeOK
  <2>3. /\ \A c \in Coming : c \in Coming' /\ RowAt(c)' = RowAt(c) /\ c[1] < m + 1
        /\ \A c \in Coming' : \/ c \in Coming
                              \/ /\ c = <<m + 1, c[2]>> /\ c[2] \in DOMAIN e.rows
                                 /\ RowAt(c)' = e.rows[c[2]]
        /\ \A i \in DOMAIN e.rows : /\ <<m + 1, i>> \in Coming'
                                    /\ RowAt(<<m + 1, i>>)' = e.rows[i]
        /\ DOMAIN wire' = 1..(m + 1)
        /\ \A k \in DOMAIN wire : wire'[k] = wire[k]
        /\ wire'[m + 1] = e
    BY <1>1, <2>1, EventWritten
  <2>4. /\ \A k \in 1..m : k \in 1..(m + 1)
        /\ \A k \in 1..(m + 1) : k \in 1..m \/ k = m + 1
        /\ m + 1 \in 1..(m + 1)
    BY <1>1
  <2> QED
    BY <1>1, <1>2, <1>3, <2>2, <2>3, <2>4
<1>4. CASE stream # [of |-> a, state |-> "open"]
  <2>1. wire' = wire
    BY <1>4 DEF Broadcast
  <2>2. Coming' = Coming /\ \A c : RowAt(c)' = RowAt(c)
    BY <2>1, SamePlaces
  <2>3. wire' \in Seq(Event)
    BY <1>1, <2>1 DEF HTypeOK
  <2> QED
    BY <1>1, <1>2, <1>4, <2>1, <2>2, <2>3
<1> QED
  BY <1>3, <1>4

LEMMA SpeakStep == ASSUME PGInv, NEW a \in Chatter, Speaks(a) PROVE PGInv'
<1> DEFINE reply == [by |-> "agent", n |-> said + 1, read |-> FALSE]
           e == Streamed("output", <<reply>>, reply.n)
<1> SUFFICES ASSUME NEW m, m = Len(wire) PROVE PGInv'
  OBVIOUS
<1>1. HTypeOK /\ Numbering /\ said \in Nat /\ said < MaxSaid
  BY CurrentIs DEF PGInv, Speaks
<1>2. /\ said + 1 \in 0..MaxSaid /\ reply \in Row
      /\ reply.n = said + 1 /\ reply.read = FALSE /\ reply.by = "agent" /\ reply.n # 0
  <2>1. said + 1 \in 0..MaxSaid
    BY <1>1, ChatPageAssumption
  <2>2. said + 1 # 0
    BY <1>1
  <2> QED
    BY <2>1, <2>2 DEF Row
<1>3. /\ e \in Event /\ e.type = "output" /\ e.n = said + 1 /\ e.rows = <<reply>>
      /\ DOMAIN e.rows = {1} /\ e.rows[1] = reply
  <2>1. <<reply>> \in Seq(Row)
    BY <1>2
  <2>2. <<reply>>[1] = reply /\ DOMAIN <<reply>> = {1}
    OBVIOUS
  <2> HIDE DEF reply
  <2> QED
    BY <1>2, <2>1, <2>2 DEF Streamed, Event
<1>4. /\ Adds(a, reply) /\ said' = said + 1 /\ Broadcast(a, e)
      /\ UNCHANGED <<listed, trusted, stream, posts, current, known, log, greeted, connected, locked, opens, reboots,
                     broken, crossed, unheard, overtaken, news>>
  BY <1>2 DEF Speaks, Adds, pageside, notes4
<1>5. e.rows = <<[by |-> "agent", n |-> e.n, read |-> FALSE]>>
  BY <1>2, <1>3
<1> HIDE DEF reply, e
<1>6. /\ \A b \in Chatter : Numbers(chat[b]) \subseteq Numbers(chat'[b])
      /\ \A b \in Chatter : \A n \in Numbers(chat'[b]) :
           n \in Numbers(chat[b]) \/ (n = said + 1 /\ b = a /\ reply.by = "me")
      /\ \A b \in Chatter : \A n \in 1..said : Mine(chat'[b], n) = Mine(chat[b], n)
      /\ \A b \in Chatter : \A n \in 1..said' : \A j \in Mine(chat'[b], n) :
           chat'[b][j].read => j \in Mine(chat[b], n) /\ chat[b][j].read /\ n \in 1..said
      /\ \A n \in 1..said : Receipted(n) => Receipted(n)'
  BY <1>1, <1>2, <1>4, NumbersGrow
<1>7. \A b \in Chatter : Numbers(chat'[b]) = Numbers(chat[b])
  BY <1>2, <1>6
<1>8. /\ m \in Nat /\ DOMAIN wire = 1..m /\ wire' \in Seq(Event)
      /\ Unbroken /\ a = current => stream = [of |-> a, state |-> "open"]
      /\ \A c \in Coming : c \in Coming' /\ RowAt(c)' = RowAt(c) /\ c[1] \in 0..m
      /\ \A c \in Coming' :
           \/ c \in Coming
           \/ /\ stream = [of |-> a, state |-> "open"]
              /\ c = <<m + 1, c[2]>> /\ c[2] \in DOMAIN e.rows /\ RowAt(c)' = e.rows[c[2]]
      /\ stream = [of |-> a, state |-> "open"] =>
           /\ \A i \in DOMAIN e.rows : <<m + 1, i>> \in Coming' /\ RowAt(<<m + 1, i>>)' = e.rows[i]
           /\ m + 1 \in DOMAIN wire' /\ wire'[m + 1] = e
      /\ \A k \in DOMAIN wire : k \in DOMAIN wire' /\ wire'[k] = wire[k]
      /\ \A k \in DOMAIN wire' :
           \/ k \in DOMAIN wire
           \/ k = m + 1 /\ wire'[k] = e /\ stream = [of |-> a, state |-> "open"]
  BY <1>3, <1>4, BroadcastRows
<1>9. \A c \in Coming' : c \in Coming \/ (c = <<m + 1, 1>> /\ RowAt(c)' = reply /\ stream = [of |-> a, state |-> "open"])
  BY <1>3, <1>8
<1>10. stream = [of |-> a, state |-> "open"] => <<m + 1, 1>> \in Coming' /\ RowAt(<<m + 1, 1>>)' = reply
  BY <1>3, <1>8
<1>11. HTypeOK'
  <2>1. chat' \in [Chatter -> Seq(Row)]
    BY <1>1, <1>2, <1>4, AppendProperties DEF HTypeOK, Adds
  <2>2. said' \in 0..MaxSaid
    BY <1>2, <1>4
  <2> QED
    BY <1>1, <1>4, <1>8, <2>1, <2>2 DEF HTypeOK
<1>12. Numbering'
  <2>1. /\ \A b \in Chatter : \A i \in DOMAIN chat'[b] : chat'[b][i].n \in 1..said'
        /\ \A b, c \in Chatter : \A i \in DOMAIN chat'[b], j \in DOMAIN chat'[c] :
             chat'[b][i].n = chat'[c][j].n => b = c /\ i = j
        /\ \A b \in Chatter : \A i, j \in DOMAIN chat'[b] : i < j => chat'[b][i].n < chat'[b][j].n
    BY <1>1, <1>2, <1>4, TranscriptGrows
  <2>2. /\ \A r \in posts' : IF r.at = "sent" THEN r.n = 0 ELSE r.n \in Numbers(chat'[r.of])
        /\ \A r, s \in posts' : r.n = s.n => r = s \/ r.n = 0
    BY <1>1, <1>4, <1>7 DEF Numbering, HTypeOK
  <2> QED
    BY <2>1, <2>2 DEF Numbering
<1>13. /\ \A row \in Row : Fitting(row) => Fitting(row)'
       /\ \A f \in Event : Honest(f) => Honest(f)'
  <2>1. said' \in Nat /\ said <= said'
    BY <1>1, <1>4
  <2>2. current # Nobody => Numbers(chat[current]) \subseteq Numbers(chat'[current])
    BY <1>6, CurrentIs
  <2> QED
    BY <1>1, <1>4, <1>6, <2>1, <2>2, StaysFitting
<1>14. PageOK'
  <2>1. \A k \in DOMAIN wire' : Honest(wire[k])'
    <3> SUFFICES ASSUME NEW k \in DOMAIN wire' PROVE Honest(wire[k])'
      OBVIOUS
    <3>1. CASE k \in DOMAIN wire
      <4>1. wire[k] \in Event /\ Honest(wire[k]) /\ wire'[k] = wire[k]
        BY <1>1, <1>8, <3>1, RowsAreRows DEF PGInv, PageOK
      <4> QED
        BY <4>1, <1>13
    <3>2. CASE wire'[k] = e
      <4>1. e.n \in 0..said'
        BY <1>1, <1>3, <1>4
      <4> QED
        BY <3>2, <4>1, <1>3, <1>5 DEF Honest
    <3> QED
      BY <1>8, <3>1, <3>2
  <2>2. \A c \in Coming' : Fitting(RowAt(c))'
    <3> SUFFICES ASSUME NEW c \in Coming' PROVE Fitting(RowAt(c))'
      OBVIOUS
    <3>1. CASE c \in Coming
      <4>1. RowAt(c) \in Row /\ Fitting(RowAt(c)) /\ RowAt(c)' = RowAt(c)
        BY <1>1, <1>8, <3>1, RowsAreRows DEF PGInv, PageOK
      <4> QED
        BY <4>1, <1>13
    <3>2. CASE RowAt(c)' = reply
      <4>1. reply.n <= said' /\ reply.by # "me"
        BY <1>1, <1>2, <1>4
      <4> QED
        BY <3>2, <4>1 DEF Fitting
    <3> QED
      BY <1>9, <3>1, <3>2
  <2>3. wire' # <<>> => wire # <<>> \/ stream.state = "open"
    <3>1. wire' # <<>> => wire # <<>> \/ stream = [of |-> a, state |-> "open"]
      BY <1>4 DEF Broadcast
    <3> QED
      BY <3>1
  <2> QED
    BY <1>4, <2>1, <2>2, <2>3 DEF PGInv, PageOK
<1>15. ASSUME Unbroken PROVE current \in Chatter
  BY <1>15, CurrentIs
<1>16. ASSUME NEW c \in Coming' PROVE \A n : IsMine(RowAt(c)', n) => c \in Coming /\ IsMine(RowAt(c), n)
  BY <1>2, <1>8, <1>9 DEF IsMine
<1>17. \A c \in Coming : ~IsMine(RowAt(c), said + 1)
  <2> SUFFICES ASSUME NEW c \in Coming PROVE RowAt(c).n # said + 1
    BY DEF IsMine
  <2>1. RowAt(c) \in Row /\ RowAt(c).n <= said
    BY <1>1, RowsAreRows DEF PGInv, PageOK, Fitting
  <2> QED
    BY <1>1, <2>1 DEF Row
<1>18. \A b \in Chatter : Numbers(chat[b]) \subseteq 1..said
  BY <1>1 DEF Numbering, Numbers
<1>19. MineOnce'
  <2> SUFFICES ASSUME Unbroken, NEW n \in (1..(said + 1)) \ crossed
               PROVE  /\ \A c, d \in Coming' : IsMine(RowAt(c)', n) /\ IsMine(RowAt(d)', n) => c = d
                      /\ \A r \in posts : r.n = n => \A c \in Coming' : ~IsMine(RowAt(c)', n)
                      /\ n \in Numbers(chat[current]) \ unheard /\ (\A r \in posts : r.n # n) =>
                           \E c \in Coming' : IsMine(RowAt(c)', n)
    BY <1>4, <1>7, <1>15 DEF MineOnce, Unbroken
  <2>1. CASE n = said + 1
    <3>1. n \notin Numbers(chat[current])
      BY <1>1, <1>15, <1>18, <2>1
    <3> QED
      BY <2>1, <3>1, <1>16, <1>17
  <2>2. CASE n # said + 1
    <3>1. n \in (1..said) \ crossed
      BY <2>2, <1>1
    <3>2. /\ \A c, d \in Coming : IsMine(RowAt(c), n) /\ IsMine(RowAt(d), n) => c = d
          /\ \A r \in posts : r.n = n => \A c \in Coming : ~IsMine(RowAt(c), n)
          /\ n \in Numbers(chat[current]) \ unheard /\ (\A r \in posts : r.n # n) =>
               \E c \in Coming : IsMine(RowAt(c), n)
      BY <3>1 DEF PGInv, MineOnce
    <3>3. \A c \in Coming : c \in Coming' /\ (IsMine(RowAt(c), n) => IsMine(RowAt(c)', n))
      BY <1>8
    <3> QED
      BY <1>16, <3>2, <3>3
  <2> QED
    BY <2>1, <2>2
<1>20. TicksCome'
  <2> SUFFICES ASSUME Unbroken, NEW n \in (1..(said + 1)) \ (crossed \cup overtaken), ReadHere(n)'
               PROVE  /\ \A c \in Coming' : IsMine(RowAt(c)', n) /\ ~RowAt(c)'.read =>
                           \E k \in DOMAIN wire' : c[1] < k /\ Says(wire'[k], n)
                      /\ \A r \in posts : r.n = n => \E k \in DOMAIN wire' : Says(wire'[k], n)
    BY <1>4 DEF TicksCome, Unbroken
  <2>1. ReadHere(n) /\ n \in 1..said
    BY <1>4, <1>6, <1>15 DEF ReadHere
  <2>2. /\ \A c \in Coming : IsMine(RowAt(c), n) /\ ~RowAt(c).read =>
             \E k \in DOMAIN wire : c[1] < k /\ Says(wire[k], n)
        /\ \A r \in posts : r.n = n => \E k \in DOMAIN wire : Says(wire[k], n)
    BY <2>1 DEF PGInv, TicksCome
  <2>3. \A k \in DOMAIN wire : k \in DOMAIN wire' /\ (Says(wire[k], n) => Says(wire'[k], n))
    BY <1>8
  <2>4. ASSUME NEW c \in Coming', IsMine(RowAt(c)', n), ~RowAt(c)'.read
        PROVE  \E k \in DOMAIN wire' : c[1] < k /\ Says(wire'[k], n)
    <3>1. c \in Coming /\ IsMine(RowAt(c), n) /\ ~RowAt(c).read
      BY <1>8, <1>16, <2>4
    <3> QED
      BY <2>2, <2>3, <3>1
  <2> QED
    BY <2>2, <2>3, <2>4
<1>21. GreetedFirst'
  <2> SUFFICES ASSUME Unbroken
               PROVE  /\ \E c \in Coming' : RowAt(c)'.n = 0
                      /\ \A c, d \in Coming' : RowAt(c)'.n = 0 /\ RowAt(d)'.n = 0 => c = d
                      /\ 0 \notin news
                      /\ \A c \in Coming' : RowAt(c)'.n = 0 /\ c[1] # 0 =>
                           ~greeted /\ \A k \in DOMAIN wire' : k < c[1] => wire'[k].type # "output"
    BY <1>4 DEF GreetedFirst, Unbroken
  <2>1. /\ \E c \in Coming : RowAt(c).n = 0
        /\ \A c, d \in Coming : RowAt(c).n = 0 /\ RowAt(d).n = 0 => c = d
        /\ 0 \notin news
        /\ \A c \in Coming : RowAt(c).n = 0 /\ c[1] # 0 =>
             ~greeted /\ \A k \in DOMAIN wire : k < c[1] => wire[k].type # "output"
    BY DEF PGInv, GreetedFirst
  <2>2. \A c \in Coming' : RowAt(c)'.n = 0 => c \in Coming /\ RowAt(c).n = 0
    BY <1>2, <1>8, <1>9
  <2>3. \A c \in Coming : \A k \in DOMAIN wire' : k < c[1] => k \in DOMAIN wire /\ wire'[k] = wire[k]
    <3> SUFFICES ASSUME NEW c \in Coming, NEW k \in DOMAIN wire', k < c[1], k \notin DOMAIN wire PROVE FALSE
      BY <1>8
    <3>1. k = m + 1 /\ c[1] \in 0..m
      BY <1>8
    <3> QED
      BY <3>1, <1>8
  <2> QED
    BY <1>8, <2>1, <2>2, <2>3
<1>22. RepliesOnce'
  <2> SUFFICES ASSUME Unbroken
               PROVE  /\ \A c \in Coming' : IsReply(RowAt(c)') =>
                           \E i \in DOMAIN chat'[current] : IsReply(chat'[current][i]) /\ chat'[current][i].n = RowAt(c)'.n
                      /\ \A i \in DOMAIN chat'[current] : IsReply(chat'[current][i]) =>
                           \E c \in Coming' : IsReply(RowAt(c)') /\ RowAt(c)'.n = chat'[current][i].n
                      /\ \A c, d \in Coming' :
                           IsReply(RowAt(c)') /\ IsReply(RowAt(d)') /\ Above(c, d) => RowAt(c)'.n < RowAt(d)'.n
    BY <1>4 DEF RepliesOnce, Unbroken
  <2>1. /\ \A i \in DOMAIN chat[current] : i \in DOMAIN chat'[current] /\ chat'[current][i] = chat[current][i]
        /\ \A i \in DOMAIN chat'[current] :
             i \in DOMAIN chat[current] \/ (current = a /\ chat'[current][i] = reply)
        /\ \E i \in DOMAIN chat'[a] : chat'[a][i] = reply
    BY <1>1, <1>2, <1>4, <1>15, TranscriptGrows
  <2>2. stream = [of |-> a, state |-> "open"] => a = current
    BY CurrentIs
  <2>3. /\ \A c \in Coming : IsReply(RowAt(c)) =>
             \E i \in DOMAIN chat[current] : IsReply(chat[current][i]) /\ chat[current][i].n = RowAt(c).n
        /\ \A i \in DOMAIN chat[current] : IsReply(chat[current][i]) =>
             \E c \in Coming : IsReply(RowAt(c)) /\ RowAt(c).n = chat[current][i].n
        /\ \A c, d \in Coming :
             IsReply(RowAt(c)) /\ IsReply(RowAt(d)) /\ Above(c, d) => RowAt(c).n < RowAt(d).n
    BY DEF PGInv, RepliesOnce
  <2>4. ASSUME NEW c \in Coming', IsReply(RowAt(c)')
        PROVE  \E i \in DOMAIN chat'[current] : IsReply(chat'[current][i]) /\ chat'[current][i].n = RowAt(c)'.n
    <3>1. CASE c \in Coming
      <4>1. RowAt(c)' = RowAt(c)
        BY <1>8, <3>1
      <4>2. PICK i \in DOMAIN chat[current] : IsReply(chat[current][i]) /\ chat[current][i].n = RowAt(c).n
        BY <2>3, <2>4, <3>1, <4>1
      <4>3. i \in DOMAIN chat'[current] /\ chat'[current][i] = chat[current][i]
        BY <2>1
      <4> QED
        BY <4>1, <4>2, <4>3
    <3>2. CASE c \notin Coming
      BY <1>9, <2>1, <2>2, <2>4, <3>2
    <3> QED
      BY <3>1, <3>2
  <2>5. ASSUME NEW i \in DOMAIN chat'[current], IsReply(chat'[current][i])
        PROVE  \E c \in Coming' : IsReply(RowAt(c)') /\ RowAt(c)'.n = chat'[current][i].n
    <3>1. CASE i \in DOMAIN chat[current]
      <4>1. PICK c \in Coming : IsReply(RowAt(c)) /\ RowAt(c).n = chat[current][i].n
        BY <2>1, <2>3, <2>5, <3>1
      <4>2. c \in Coming' /\ RowAt(c)' = RowAt(c) /\ chat'[current][i] = chat[current][i]
        BY <1>8, <2>1, <3>1
      <4> QED
        BY <4>1, <4>2
    <3>2. CASE current = a /\ chat'[current][i] = reply
      BY <1>8, <1>10, <2>5, <3>2
    <3> QED
      BY <2>1, <3>1, <3>2
  <2>6. ASSUME NEW c \in Coming', NEW d \in Coming', IsReply(RowAt(c)'), IsReply(RowAt(d)'), Above(c, d)
        PROVE  RowAt(c)'.n < RowAt(d)'.n
    <3>1. CASE c \in Coming /\ d \in Coming
      BY <1>8, <2>3, <2>6, <3>1
    <3>2. CASE c \in Coming /\ d \notin Coming
      <4>1. RowAt(c)' = RowAt(c) /\ RowAt(d)' = reply /\ RowAt(c) \in Row /\ RowAt(c).n <= said
        BY <1>1, <1>8, <1>9, <3>2, RowsAreRows DEF PGInv, PageOK, Fitting
      <4>2. RowAt(c).n < said + 1
        BY <4>1, <1>1 DEF Row
      <4> QED
        BY <4>1, <4>2, <1>2
    <3>3. CASE c \notin Coming
      <4>1. c = <<m + 1, 1>>
        BY <1>9, <3>3
      <4>2. d[1] \in 0..m \/ d = <<m + 1, 1>>
        BY <1>8, <1>9
      <4>3. c[1] = m + 1 /\ c[2] = 1 /\ (d = <<m + 1, 1>> => d[1] = m + 1 /\ d[2] = 1)
        BY <4>1
      <4>4. ~Above(c, d)
        BY <4>2, <4>3, <1>8 DEF Above
      <4> QED
        BY <2>6, <4>4
    <3> QED
      BY <3>1, <3>2, <3>3
  <2> QED
    BY <2>4, <2>5, <2>6
<1> QED
  BY <1>11, <1>12, <1>14, <1>19, <1>20, <1>21, <1>22 DEF PGInv

LEMMA ReceiptStep == ASSUME PGInv, NEW a \in Chatter, Receipt(a) PROVE PGInv'
<1> SUFFICES ASSUME NEW m, m = Len(wire) PROVE PGInv'
  OBVIOUS
<1>1. PICK x \in DOMAIN chat[a] :
        /\ chat[a][x].by = "me" /\ ~chat[a][x].read
        /\ chat' = [chat EXCEPT ![a][x].read = TRUE]
        /\ Broadcast(a, Streamed("read", <<>>, chat[a][x].n))
  BY DEF Receipt
<1>2. /\ HTypeOK /\ Numbering /\ said \in Nat
      /\ UNCHANGED <<listed, trusted, said, stream, posts, current, known, log, greeted, connected, locked, opens,
                     reboots, broken, crossed, unheard, overtaken, news>>
  BY CurrentIs DEF PGInv, Receipt, pageside, notes4
<1> SUFFICES ASSUME NEW r, r = chat[a][x].n, NEW e, e = Streamed("read", <<>>, r) PROVE PGInv'
  OBVIOUS
<1>3. r \in 1..said /\ r \in 0..MaxSaid
  <2>1. r \in 1..said
    BY <1>2 DEF Numbering
  <2>2. chat[a][x] \in Row
    BY <1>2, ElementOfSeq, LenProperties DEF HTypeOK
  <2> QED
    BY <2>1, <2>2 DEF Row
<1>4. e \in Event /\ e.type = "read" /\ e.n = r /\ e.rows = <<>> /\ DOMAIN e.rows = {}
  <2>1. <<>> \in Seq(Row) /\ DOMAIN <<>> = {}
    OBVIOUS
  <2> QED
    BY <1>3, <2>1 DEF Streamed, Event
<1>5. /\ \A b \in Chatter : /\ DOMAIN chat'[b] = DOMAIN chat[b]
                            /\ \A i \in DOMAIN chat[b] : /\ chat'[b][i].n = chat[b][i].n
                                                         /\ chat'[b][i].by = chat[b][i].by
                            /\ Numbers(chat'[b]) = Numbers(chat[b])
                            /\ \A n : Mine(chat'[b], n) = Mine(chat[b], n)
                            /\ \A i \in DOMAIN chat[b] :
                                 chat'[b][i].read <=> chat[b][i].read \/ (b = a /\ i = x)
      /\ \A n : Receipted(n) => Receipted(n)'
      /\ Receipted(r)'
  <2>1. Ticks(a, x)
    BY <1>1, <1>2 DEF Ticks
  <2> QED
    BY <1>2, <2>1, TranscriptMarked, SMTT(60)
<1>6. /\ m \in Nat /\ DOMAIN wire = 1..m /\ wire' \in Seq(Event)
      /\ Unbroken /\ a = current => stream = [of |-> a, state |-> "open"]
      /\ \A c \in Coming : c \in Coming' /\ RowAt(c)' = RowAt(c) /\ c[1] \in 0..m
      /\ \A c \in Coming' :
           \/ c \in Coming
           \/ /\ stream = [of |-> a, state |-> "open"]
              /\ c = <<m + 1, c[2]>> /\ c[2] \in DOMAIN e.rows /\ RowAt(c)' = e.rows[c[2]]
      /\ stream = [of |-> a, state |-> "open"] =>
           /\ \A i \in DOMAIN e.rows : <<m + 1, i>> \in Coming' /\ RowAt(<<m + 1, i>>)' = e.rows[i]
           /\ m + 1 \in DOMAIN wire' /\ wire'[m + 1] = e
      /\ \A k \in DOMAIN wire : k \in DOMAIN wire' /\ wire'[k] = wire[k]
      /\ \A k \in DOMAIN wire' :
           \/ k \in DOMAIN wire
           \/ k = m + 1 /\ wire'[k] = e /\ stream = [of |-> a, state |-> "open"]
  BY <1>1, <1>2, <1>4, BroadcastRows
<1>7. Coming' = Coming /\ \A c \in Coming : RowAt(c)' = RowAt(c)
  BY <1>4, <1>6
<1>8. HTypeOK'
  <2>1. chat' \in [Chatter -> Seq(Row)]
    <3>1. \A i \in DOMAIN chat[a] : chat[a][i] \in Row
      BY <1>2, ElementOfSeq, LenProperties DEF HTypeOK
    <3>2. [chat[a][x] EXCEPT !.read = TRUE] \in Row
      BY <3>1 DEF Row
    <3>3. chat[a] \in Seq(Row)
      BY <1>2 DEF HTypeOK
    <3>4. [chat[a] EXCEPT ![x].read = TRUE] \in Seq(Row)
      BY <3>2, <3>3, ExceptSeq
    <3> QED
      BY <1>1, <1>2, <3>4 DEF HTypeOK
  <2> QED
    BY <1>2, <1>6, <2>1 DEF HTypeOK
<1>9. Numbering'
  <2>1. /\ \A b \in Chatter : \A i \in DOMAIN chat'[b] : chat'[b][i].n \in 1..said'
        /\ \A b \in Chatter : \A i, j \in DOMAIN chat'[b] : i < j => chat'[b][i].n < chat'[b][j].n
    BY <1>2, <1>5 DEF Numbering
  <2>2. \A b, c \in Chatter : \A i \in DOMAIN chat'[b], j \in DOMAIN chat'[c] :
          chat'[b][i].n = chat'[c][j].n => b = c /\ i = j
    BY <1>2, <1>5 DEF Numbering
  <2>3. /\ \A p \in posts' : IF p.at = "sent" THEN p.n = 0 ELSE p.n \in Numbers(chat'[p.of])
        /\ \A p, q \in posts' : p.n = q.n => p = q \/ p.n = 0
    BY <1>2, <1>5 DEF Numbering, HTypeOK
  <2> QED
    BY <2>1, <2>2, <2>3 DEF Numbering
<1>10. /\ \A row \in Row : Fitting(row) => Fitting(row)'
       /\ \A f \in Event : Honest(f) => Honest(f)'
  <2>1. said' \in Nat /\ said <= said'
    BY <1>2
  <2>2. current # Nobody => Numbers(chat[current]) \subseteq Numbers(chat'[current])
    BY <1>5, CurrentIs
  <2> QED
    BY <1>2, <1>5, <2>1, <2>2, StaysFitting
<1>11. PageOK'
  <2>1. \A k \in DOMAIN wire' : Honest(wire[k])'
    <3> SUFFICES ASSUME NEW k \in DOMAIN wire' PROVE Honest(wire[k])'
      OBVIOUS
    <3>1. CASE k \in DOMAIN wire
      <4>1. wire[k] \in Event /\ Honest(wire[k]) /\ wire'[k] = wire[k]
        BY <1>2, <1>6, <3>1, RowsAreRows DEF PGInv, PageOK
      <4> QED
        BY <4>1, <1>10
    <3>2. CASE wire'[k] = e
      BY <3>2, <1>2, <1>3, <1>4, <1>5 DEF Honest
    <3> QED
      BY <1>6, <3>1, <3>2
  <2>2. \A c \in Coming' : Fitting(RowAt(c))'
    BY <1>2, <1>7, <1>10, RowsAreRows DEF PGInv, PageOK
  <2>3. wire' # <<>> => wire # <<>> \/ stream.state = "open"
    <3>1. wire' # <<>> => wire # <<>> \/ stream = [of |-> a, state |-> "open"]
      BY <1>1 DEF Broadcast
    <3> QED
      BY <3>1
  <2> QED
    BY <1>2, <2>1, <2>2, <2>3 DEF PGInv, PageOK
<1>12. ASSUME Unbroken PROVE current \in Chatter
  BY <1>12, CurrentIs
<1>13. MineOnce'
  <2> SUFFICES ASSUME Unbroken, NEW n \in (1..said) \ crossed
               PROVE  /\ \A c, d \in Coming : IsMine(RowAt(c), n) /\ IsMine(RowAt(d), n) => c = d
                      /\ \A p \in posts : p.n = n => \A c \in Coming : ~IsMine(RowAt(c), n)
                      /\ n \in Numbers(chat[current]) \ unheard /\ (\A p \in posts : p.n # n) =>
                           \E c \in Coming : IsMine(RowAt(c), n)
    BY <1>2, <1>5, <1>7, <1>12 DEF MineOnce, Unbroken
  <2> QED
    BY DEF PGInv, MineOnce
<1>14. TicksCome'
  <2> SUFFICES ASSUME Unbroken, NEW n \in (1..said) \ (crossed \cup overtaken), ReadHere(n)'
               PROVE  /\ \A c \in Coming : IsMine(RowAt(c), n) /\ ~RowAt(c).read =>
                           \E k \in DOMAIN wire' : c[1] < k /\ Says(wire'[k], n)
                      /\ \A p \in posts : p.n = n => \E k \in DOMAIN wire' : Says(wire'[k], n)
    BY <1>2, <1>7 DEF TicksCome, Unbroken
  <2>1. CASE ReadHere(n)
    <3>1. /\ \A c \in Coming : IsMine(RowAt(c), n) /\ ~RowAt(c).read =>
               \E k \in DOMAIN wire : c[1] < k /\ Says(wire[k], n)
          /\ \A p \in posts : p.n = n => \E k \in DOMAIN wire : Says(wire[k], n)
      BY <2>1 DEF PGInv, TicksCome
    <3> QED
      BY <1>6, <3>1
  <2>2. CASE ~ReadHere(n)
    <3>1. a = current /\ n = r
      <4>1. PICK j \in Mine(chat'[current], n) : chat'[current][j].read
        BY <1>2 DEF ReadHere
      <4>2. j \in Mine(chat[current], n) /\ j \in DOMAIN chat[current] /\ chat[current][j].n = n
        BY <4>1, <1>5, <1>12 DEF Mine, IsMine
      <4>3. ~chat[current][j].read
        BY <4>2, <2>2 DEF ReadHere
      <4> QED
        BY <4>1, <4>2, <4>3, <1>5, <1>12
    <3>2. m + 1 \in DOMAIN wire' /\ Says(wire'[m + 1], n)
      BY <1>4, <1>6, <3>1 DEF Says
    <3>3. \A c \in Coming : c[1] < m + 1
      BY <1>6
    <3> QED
      BY <3>2, <3>3
  <2> QED
    BY <2>1, <2>2
<1>15. GreetedFirst'
  <2>1. \A c \in Coming : \A k \in DOMAIN wire' : k < c[1] => k \in DOMAIN wire /\ wire'[k] = wire[k]
    <3> SUFFICES ASSUME NEW c \in Coming, NEW k \in DOMAIN wire', k < c[1], k \notin DOMAIN wire PROVE FALSE
      BY <1>6
    <3>1. k = m + 1 /\ c[1] \in 0..m
      BY <1>6
    <3> QED
      BY <3>1, <1>6
  <2> QED
    BY <1>2, <1>7, <2>1 DEF PGInv, GreetedFirst, Unbroken
<1>16. RepliesOnce'
  <2> SUFFICES ASSUME Unbroken
               PROVE  /\ \A c \in Coming : IsReply(RowAt(c)) =>
                           \E i \in DOMAIN chat'[current] : IsReply(chat'[current][i]) /\ chat'[current][i].n = RowAt(c).n
                      /\ \A i \in DOMAIN chat'[current] : IsReply(chat'[current][i]) =>
                           \E c \in Coming : IsReply(RowAt(c)) /\ RowAt(c).n = chat'[current][i].n
                      /\ \A c, d \in Coming :
                           IsReply(RowAt(c)) /\ IsReply(RowAt(d)) /\ Above(c, d) => RowAt(c).n < RowAt(d).n
    BY <1>2, <1>7 DEF RepliesOnce, Unbroken
  <2>1. DOMAIN chat'[current] = DOMAIN chat[current]
    BY <1>5, <1>12
  <2>2. \A i \in DOMAIN chat[current] : /\ chat'[current][i].n = chat[current][i].n
                                        /\ IsReply(chat'[current][i]) <=> IsReply(chat[current][i])
    BY <1>5, <1>12 DEF IsReply
  <2>3. /\ \A c \in Coming : IsReply(RowAt(c)) =>
             \E i \in DOMAIN chat[current] : IsReply(chat[current][i]) /\ chat[current][i].n = RowAt(c).n
        /\ \A i \in DOMAIN chat[current] : IsReply(chat[current][i]) =>
             \E c \in Coming : IsReply(RowAt(c)) /\ RowAt(c).n = chat[current][i].n
        /\ \A c, d \in Coming :
             IsReply(RowAt(c)) /\ IsReply(RowAt(d)) /\ Above(c, d) => RowAt(c).n < RowAt(d).n
    BY DEF PGInv, RepliesOnce
  <2> QED
    BY <2>1, <2>2, <2>3
<1> QED
  BY <1>8, <1>9, <1>11, <1>13, <1>14, <1>15, <1>16 DEF PGInv

LEMMA AnswerStep == ASSUME PGInv, NEW p \in posts, SubmitAnswered(p) PROVE PGInv'
<1> DEFINE row == [by |-> "me", n |-> p.n, read |-> FALSE]
<1> SUFFICES ASSUME NEW l, l = Len(log) PROVE PGInv'
  OBVIOUS
<1>1. /\ HTypeOK /\ Numbering /\ said \in Nat
      /\ UNCHANGED <<listed, trusted, said, chat, stream, wire, current, known, greeted, connected, locked, opens,
                     reboots, broken, unheard, overtaken, news>>
      /\ p.at = "answered" /\ posts' = posts \ {p} /\ log' = Append(log, row)
      /\ crossed' = IF p.of # current THEN crossed \cup {p.n} ELSE crossed
  BY CurrentIs DEF PGInv, SubmitAnswered, hubside
<1>2. /\ p.n \in 0..MaxSaid /\ p.of \in Chatter
      /\ p.n \in Numbers(chat[p.of]) /\ p.n \in 1..said /\ p.n # 0
  <2>1. p.n \in 0..MaxSaid /\ p.of \in Chatter /\ p.n \in Numbers(chat[p.of])
    BY <1>1 DEF HTypeOK, Numbering
  <2> QED
    BY <1>1, <2>1 DEF Numbering, Numbers
<1>3. row \in Row /\ row.by = "me" /\ row.n = p.n /\ row.read = FALSE
  BY <1>2 DEF Row
<1> HIDE DEF row
<1>4. /\ \A c \in Coming : c \in Coming' /\ RowAt(c)' = RowAt(c) /\ c # <<0, l + 1>>
      /\ \A c \in Coming' : c \in Coming \/ c = <<0, l + 1>>
      /\ <<0, l + 1>> \in Coming' /\ RowAt(<<0, l + 1>>)' = row
  BY <1>1, <1>3, RowAdded
<1>5. crossed \subseteq crossed' /\ crossed' \subseteq crossed \cup {p.n}
  BY <1>1
<1>6. HTypeOK'
  <2>1. log' \in Seq(Row)
    BY <1>1, <1>3, AppendProperties DEF HTypeOK
  <2>2. crossed' \subseteq 0..MaxSaid
    BY <1>1, <1>2, <1>5 DEF HTypeOK
  <2> QED
    BY <1>1, <2>1, <2>2 DEF HTypeOK
<1>7. Numbering'
  BY <1>1 DEF Numbering
<1>8. \A n : Receipted(n)' = Receipted(n) /\ ReadHere(n)' = ReadHere(n)
  BY <1>1 DEF Receipted, ReadHere
<1>9. /\ \A s \in Row : Fitting(s) => Fitting(s)'
      /\ \A f : Honest(f)' = Honest(f)
  BY <1>1, <1>5, <1>8 DEF Fitting, Honest
<1>10. p.n \in crossed' \/ (p.of = current /\ current # Nobody /\ p.n \in Numbers(chat[current]))
  BY <1>1, <1>2, ChatPageAssumption
<1>11. PageOK'
  <2>1. \A c \in Coming' : Fitting(RowAt(c))'
    <3> SUFFICES ASSUME NEW c \in Coming' PROVE Fitting(RowAt(c))'
      OBVIOUS
    <3>1. CASE c \in Coming
      <4>1. RowAt(c) \in Row /\ Fitting(RowAt(c)) /\ RowAt(c)' = RowAt(c)
        BY <1>1, <1>4, <3>1, RowsAreRows DEF PGInv, PageOK
      <4> QED
        BY <4>1, <1>9
    <3>2. CASE c = <<0, l + 1>>
      <4>1. p.n <= said
        BY <1>1, <1>2
      <4> QED
        BY <3>2, <4>1, <1>1, <1>2, <1>3, <1>4, <1>10 DEF Fitting
    <3> QED
      BY <1>4, <3>1, <3>2
  <2>2. (\A i \in DOMAIN log : log[i].by = "me") => \A i \in DOMAIN log' : log'[i].by = "me"
    <3>1. log \in Seq(Row) /\ DOMAIN log = 1..Len(log) /\ Len(log) \in Nat
      BY <1>1, LenProperties DEF HTypeOK
    <3>2. /\ DOMAIN log' = 1..(Len(log) + 1)
          /\ \A i \in 1..Len(log) : log'[i] = log[i]
          /\ log'[Len(log) + 1] = row
      BY <1>1, <1>3, <3>1, AppendProperties, LenProperties
    <3> QED
      BY <1>3, <3>1, <3>2
  <2> QED
    BY <1>1, <1>9, <2>1, <2>2 DEF PGInv, PageOK
<1>12. \A c \in Coming' : \A n : IsMine(RowAt(c)', n) =>
         (c \in Coming /\ IsMine(RowAt(c), n)) \/ (c = <<0, l + 1>> /\ n = p.n)
  BY <1>3, <1>4 DEF IsMine
<1>13. MineOnce'
  <2> SUFFICES ASSUME Unbroken, NEW n \in (1..said) \ crossed'
               PROVE  /\ \A c, d \in Coming' : IsMine(RowAt(c)', n) /\ IsMine(RowAt(d)', n) => c = d
                      /\ \A q \in posts' : q.n = n => \A c \in Coming' : ~IsMine(RowAt(c)', n)
                      /\ n \in Numbers(chat[current]) \ unheard /\ (\A q \in posts' : q.n # n) =>
                           \E c \in Coming' : IsMine(RowAt(c)', n)
    BY <1>1 DEF MineOnce, Unbroken
  <2>1. /\ \A c, d \in Coming : IsMine(RowAt(c), n) /\ IsMine(RowAt(d), n) => c = d
        /\ \A q \in posts : q.n = n => \A c \in Coming : ~IsMine(RowAt(c), n)
        /\ n \in Numbers(chat[current]) \ unheard /\ (\A q \in posts : q.n # n) =>
             \E c \in Coming : IsMine(RowAt(c), n)
    BY <1>5 DEF PGInv, MineOnce
  <2>2. CASE n = p.n
    <3>1. \A c \in Coming' : IsMine(RowAt(c)', n) => c = <<0, l + 1>>
      BY <1>12, <2>1, <2>2
    <3>2. \A q \in posts' : q.n # n
      BY <1>1, <1>2, <2>2 DEF Numbering
    <3>3. IsMine(RowAt(<<0, l + 1>>)', n)
      BY <1>3, <1>4, <2>2 DEF IsMine
    <3> QED
      BY <1>4, <3>1, <3>2, <3>3
  <2>3. CASE n # p.n
    <3>1. \A c \in Coming' : IsMine(RowAt(c)', n) => c \in Coming /\ IsMine(RowAt(c), n)
      BY <1>12, <2>3
    <3>2. \A c \in Coming : c \in Coming' /\ (IsMine(RowAt(c), n) => IsMine(RowAt(c)', n))
      BY <1>4
    <3>3. \A q \in posts : q.n = n => q \in posts'
      BY <1>1, <2>3
    <3> QED
      BY <1>1, <2>1, <3>1, <3>2, <3>3
  <2> QED
    BY <2>2, <2>3
<1>14. TicksCome'
  <2> SUFFICES ASSUME Unbroken, NEW n \in (1..said) \ (crossed' \cup overtaken), ReadHere(n)
               PROVE  /\ \A c \in Coming' : IsMine(RowAt(c)', n) /\ ~RowAt(c)'.read =>
                           \E k \in DOMAIN wire : c[1] < k /\ Says(wire[k], n)
                      /\ \A q \in posts' : q.n = n => \E k \in DOMAIN wire : Says(wire[k], n)
    BY <1>1, <1>8 DEF TicksCome, Unbroken
  <2>1. /\ \A c \in Coming : IsMine(RowAt(c), n) /\ ~RowAt(c).read =>
             \E k \in DOMAIN wire : c[1] < k /\ Says(wire[k], n)
        /\ \A q \in posts : q.n = n => \E k \in DOMAIN wire : Says(wire[k], n)
    BY <1>5 DEF PGInv, TicksCome
  <2>2. \A k \in DOMAIN wire : 0 < k
    BY <1>1, PlaceIs
  <2>3. ASSUME NEW c \in Coming', IsMine(RowAt(c)', n), ~RowAt(c)'.read
        PROVE  \E k \in DOMAIN wire : c[1] < k /\ Says(wire[k], n)
    <3>1. CASE c \in Coming
      BY <1>4, <2>1, <2>3, <3>1
    <3>2. CASE c = <<0, l + 1>>
      <4>1. p.n = n
        BY <1>3, <1>4, <2>3, <3>2 DEF IsMine
      <4> QED
        BY <2>1, <2>2, <3>2, <4>1
    <3> QED
      BY <1>4, <3>1, <3>2
  <2> QED
    BY <1>1, <2>1, <2>3
<1>15. GreetedFirst'
  <2>1. \A c \in Coming' : RowAt(c)'.n = 0 => c \in Coming /\ RowAt(c).n = 0
    BY <1>2, <1>3, <1>4
  <2>2. \A c \in Coming : c \in Coming' /\ RowAt(c)'.n = RowAt(c).n
    BY <1>4
  <2> SUFFICES ASSUME Unbroken
               PROVE  /\ \E c \in Coming' : RowAt(c)'.n = 0
                      /\ \A c, d \in Coming' : RowAt(c)'.n = 0 /\ RowAt(d)'.n = 0 => c = d
                      /\ 0 \notin news
                      /\ \A c \in Coming' : RowAt(c)'.n = 0 /\ c[1] # 0 =>
                           ~greeted /\ \A k \in DOMAIN wire : k < c[1] => wire[k].type # "output"
    BY <1>1 DEF GreetedFirst, Unbroken
  <2> QED
    BY <2>1, <2>2 DEF PGInv, GreetedFirst
<1>16. RepliesOnce'
  <2>1. \A c \in Coming' : IsReply(RowAt(c)') => c \in Coming /\ RowAt(c)' = RowAt(c)
    BY <1>3, <1>4 DEF IsReply
  <2>2. \A c \in Coming : c \in Coming' /\ RowAt(c)' = RowAt(c)
    BY <1>4
  <2> SUFFICES ASSUME Unbroken
               PROVE  /\ \A c \in Coming' : IsReply(RowAt(c)') =>
                           \E i \in DOMAIN chat[current] : IsReply(chat[current][i]) /\ chat[current][i].n = RowAt(c)'.n
                      /\ \A i \in DOMAIN chat[current] : IsReply(chat[current][i]) =>
                           \E c \in Coming' : IsReply(RowAt(c)') /\ RowAt(c)'.n = chat[current][i].n
                      /\ \A c, d \in Coming' :
                           IsReply(RowAt(c)') /\ IsReply(RowAt(d)') /\ Above(c, d) => RowAt(c)'.n < RowAt(d)'.n
    BY <1>1 DEF RepliesOnce, Unbroken
  <2>3. /\ \A c \in Coming : IsReply(RowAt(c)) =>
             \E i \in DOMAIN chat[current] : IsReply(chat[current][i]) /\ chat[current][i].n = RowAt(c).n
        /\ \A i \in DOMAIN chat[current] : IsReply(chat[current][i]) =>
             \E c \in Coming : IsReply(RowAt(c)) /\ RowAt(c).n = chat[current][i].n
        /\ \A c, d \in Coming :
             IsReply(RowAt(c)) /\ IsReply(RowAt(d)) /\ Above(c, d) => RowAt(c).n < RowAt(d).n
    BY DEF PGInv, RepliesOnce
  <2>4. ASSUME NEW i \in DOMAIN chat[current], IsReply(chat[current][i])
        PROVE  \E c \in Coming' : IsReply(RowAt(c)') /\ RowAt(c)'.n = chat[current][i].n
    <3>1. PICK c \in Coming : IsReply(RowAt(c)) /\ RowAt(c).n = chat[current][i].n
      BY <2>3, <2>4
    <3> QED
      BY <2>2, <3>1
  <2>5. ASSUME NEW c \in Coming', IsReply(RowAt(c)')
        PROVE  \E i \in DOMAIN chat[current] : IsReply(chat[current][i]) /\ chat[current][i].n = RowAt(c)'.n
    BY <2>1, <2>3, <2>5
  <2>6. \A c, d \in Coming' :
          IsReply(RowAt(c)') /\ IsReply(RowAt(d)') /\ Above(c, d) => RowAt(c)'.n < RowAt(d)'.n
    BY <2>1, <2>3
  <2> QED
    BY <2>4, <2>5, <2>6
<1> QED
  BY <1>6, <1>7, <1>11, <1>13, <1>14, <1>15, <1>16 DEF PGInv

(* What the page makes of a message: rows move up, and what was read is      *)
(* marked where it is shown, or noted if it is not.                        *)
LEMMA LatestIs ==
  ASSUME NEW n \in Nat, NEW S \in SUBSET (1..n), S # {}
  PROVE  (CHOOSE i \in S : \A j \in S : j <= i) \in S
<1> DEFINE R == OpToRel(<, Nat)
           T == {n - i : i \in S}
<1>1. IsWellFoundedOn(R, Nat)
  BY NatLessThanWellFounded
<1>2. R = {ss \in Nat \X Nat : ss[1] < ss[2]}
  BY DEF OpToRel
<1>3. T \subseteq Nat /\ T # {}
  <2>1. \A i \in S : i \in 1..n /\ n - i \in Nat
    OBVIOUS
  <2>2. PICK i \in S : TRUE
    OBVIOUS
  <2>3. n - i \in T
    OBVIOUS
  <2> QED
    BY <2>1, <2>3
<1> HIDE DEF R, T
<1>4. PICK t \in T : \A y \in T : ~(<<y, t>> \in R)
  BY <1>1, <1>3, WFMin
<1>5. \A y \in T : ~(y < t)
  BY <1>2, <1>3, <1>4
<1>6. PICK i \in S : t = n - i
  BY <1>4 DEF T
<1>7. \A j \in S : j <= i
  <2> TAKE j \in S
  <2>1. n - j \in T
    BY DEF T
  <2>2. ~(n - j < n - i)
    BY <1>5, <1>6, <2>1
  <2> QED
    BY <2>2
<1> QED
  BY <1>7

Marks(T, e, n) ==
  /\ \A c \in T : c[1] = 0 /\ e.type = "read" /\ IsMine(RowAt(c), e.n)
  /\ e.type = "read" => T # {} \/ e.n \in overtaken'
  /\ overtaken \subseteq overtaken' /\ overtaken' \subseteq overtaken \cup {e.n}
  /\ log' \in Seq(Row)
  /\ \A c \in Coming : /\ Moved(c, n) \in Coming'
                       /\ RowAt(Moved(c, n))'.n = RowAt(c).n
                       /\ RowAt(Moved(c, n))'.by = RowAt(c).by
                       /\ RowAt(Moved(c, n))'.read <=> RowAt(c).read \/ c \in T
  /\ \A d \in Coming' : \E c \in Coming : d = Moved(c, n)

LEMMA MessageMoves ==
  ASSUME PGInv, OnMessage, NEW n, n = Len(log), NEW e, e = Head(wire)
  PROVE  \E T \in SUBSET Coming : Marks(T, e, n)
<1> DEFINE is == {i \in DOMAIN log : log[i].n = e.n /\ log[i].by = "me"}
           x == CHOOSE i \in is : \A j \in is : j <= i
           marked == [log EXCEPT ![x].read = TRUE]
<1> SUFFICES ASSUME NEW m, m = Len(wire) PROVE \E T \in SUBSET Coming : Marks(T, e, n)
  OBVIOUS
<1>1. /\ HTypeOK /\ wire # <<>> /\ wire' = Tail(wire)
      /\ e.type = "read" => MarkRead(e.n)
      /\ e.type # "read" => log' = log \o e.rows /\ overtaken' = overtaken
  BY DEF PGInv, OnMessage
<1>2. /\ log \in Seq(Row) /\ n \in Nat /\ DOMAIN log = 1..n
      /\ e \in Event /\ e.rows \in Seq(Row)
      /\ e.type = "read" => e.rows = <<>>
  <2>1. e = wire[1] /\ 1 \in DOMAIN wire
    BY <1>1, HeadTailProperties, LenProperties, EmptySeq DEF HTypeOK
  <2>2. e \in Event /\ Honest(e)
    BY <1>1, <2>1, RowsAreRows DEF PGInv, PageOK
  <2>3. log \in Seq(Row) /\ n \in Nat /\ DOMAIN log = 1..n
    BY <1>1, LenProperties DEF HTypeOK
  <2> QED
    BY <2>2, <2>3 DEF Event, Honest
<1>3. \A c \in Coming : c[1] = 0 => RowAt(c) = log[c[2]] /\ c[2] \in DOMAIN log
  BY <1>1, PlaceIs DEF RowsOf
<1>4. CASE ~(e.type = "read" /\ is # {})
  <2>1. log' = log \o Head(wire).rows
    <3>1. log \o <<>> = log
      BY <1>2, ConcatEmptySeq
    <3> QED
      BY <1>1, <1>2, <1>4, <3>1 DEF MarkRead
  <2>2. /\ e.type = "read" => overtaken' = overtaken \cup {e.n}
        /\ e.type # "read" => overtaken' = overtaken
    BY <1>1, <1>4 DEF MarkRead
  <2>3. /\ \A c \in Coming : Moved(c, n) \in Coming' /\ RowAt(Moved(c, n))' = RowAt(c)
        /\ \A d \in Coming' : \E c \in Coming : d = Moved(c, n)
    BY <1>1, <1>2, <1>3, <2>1, RowsMove
  <2>4. log' \in Seq(Row)
    BY <1>2, <2>1, ConcatProperties
  <2>5. Marks({}, e, n)
    BY <2>2, <2>3, <2>4 DEF Marks
  <2> QED
    BY <2>5
<1>5. CASE e.type = "read" /\ is # {}
  <2>1. log' = marked /\ overtaken' = overtaken
    BY <1>1, <1>5 DEF MarkRead
  <2>2. x \in is
    <3>1. is \in SUBSET (1..n)
      BY <1>2
    <3> HIDE DEF is
    <3> QED
      BY <1>2, <1>5, <3>1, LatestIs
  <2>3. x \in DOMAIN log /\ x \in 1..n /\ log[x].n = e.n /\ log[x].by = "me"
    BY <1>2, <2>2
  <2> HIDE DEF x, is
  <2>4. \A i \in DOMAIN log : log[i] \in Row
    BY <1>2, ElementOfSeq, LenProperties
  <2>5. [log[x] EXCEPT !.read = TRUE] \in Row
    BY <2>3, <2>4 DEF Row
  <2>6. /\ marked \in Seq(Row) /\ Len(marked) = n
        /\ \A j \in 1..n : marked[j] = IF j = x THEN [log[x] EXCEPT !.read = TRUE] ELSE log[j]
    BY <1>2, <2>3, <2>5, ExceptSeq
  <2> HIDE DEF marked
  <2>7. log' = marked \o Head(wire).rows
    <3>1. marked \o <<>> = marked
      BY <2>6, ConcatEmptySeq
    <3> QED
      BY <1>2, <1>5, <2>1, <3>1
  <2>8. /\ \A c \in Coming : /\ Moved(c, n) \in Coming'
                             /\ c[1] = 0 => RowAt(Moved(c, n))' = marked[c[2]]
                             /\ c[1] # 0 => RowAt(Moved(c, n))' = RowAt(c)
        /\ \A d \in Coming' : \E c \in Coming : d = Moved(c, n)
    BY <1>1, <2>6, <2>7, RowsMove
  <2>9. <<0, x>> \in Coming /\ RowAt(<<0, x>>) = log[x]
    <3>1. 0 \in 0..Len(wire) /\ RowsOf(0) = log
      BY <1>1, PlaceIs DEF RowsOf
    <3> QED
      BY <1>1, <2>3, <3>1, PlaceIs
  <2>10. ASSUME NEW c \in Coming
         PROVE  /\ RowAt(Moved(c, n))'.n = RowAt(c).n
                /\ RowAt(Moved(c, n))'.by = RowAt(c).by
                /\ RowAt(Moved(c, n))'.read <=> RowAt(c).read \/ c = <<0, x>>
    <3>1. CASE c[1] = 0 /\ c[2] = x
      <4>1. RowAt(c) = log[x] /\ RowAt(Moved(c, n))' = [log[x] EXCEPT !.read = TRUE] /\ log[x] \in Row
        BY <3>1, <1>3, <2>3, <2>4, <2>6, <2>8
      <4>2. c = <<0, x>>
        BY <1>1, <3>1, PlaceIs
      <4> QED
        BY <4>1, <4>2 DEF Row
    <3>2. CASE c[1] = 0 /\ c[2] # x
      <4>1. RowAt(c) = log[c[2]] /\ RowAt(Moved(c, n))' = log[c[2]]
        BY <3>2, <1>2, <1>3, <2>6, <2>8
      <4>2. c # <<0, x>>
        BY <3>2
      <4> QED
        BY <4>1, <4>2
    <3>3. CASE c[1] # 0
      <4>1. c # <<0, x>>
        BY <3>3
      <4> QED
        BY <3>3, <4>1, <2>8
    <3> QED
      BY <3>1, <3>2, <3>3
  <2>11. log' \in Seq(Row)
    BY <2>1, <2>6
  <2>12. IsMine(RowAt(<<0, x>>), e.n)
    BY <2>3, <2>9 DEF IsMine
  <2> SUFFICES ASSUME NEW t, t = <<0, x>> PROVE \E T \in SUBSET Coming : Marks(T, e, n)
    OBVIOUS
  <2>13. Marks({t}, e, n)
    <3>1. t[1] = 0
      OBVIOUS
    <3> QED
      BY <1>5, <2>1, <2>8, <2>10, <2>11, <2>12, <3>1 DEF Marks
  <2> QED
    BY <2>9, <2>13
<1> QED
  BY <1>4, <1>5

LEMMA MessageStep == ASSUME PGInv, OnMessage PROVE PGInv'
<1> SUFFICES ASSUME NEW n, n = Len(log), NEW m, m = Len(wire), NEW e, e = Head(wire) PROVE PGInv'
  OBVIOUS
<1>1. /\ HTypeOK /\ Numbering /\ wire # <<>> /\ wire' = Tail(wire) /\ connected' = TRUE
      /\ UNCHANGED <<listed, trusted, said, chat, stream, posts, current, known, locked, opens, reboots,
                     broken, crossed, unheard>>
      /\ greeted' = (greeted \/ e.type = "output")
      /\ news' = IF e.type = "output" /\ greeted THEN news \cup {e.n} ELSE news
  BY DEF PGInv, OnMessage, hubside
<1>2. PICK T \in SUBSET Coming : Marks(T, e, n)
  BY MessageMoves
<1>3. /\ \A c \in T : c[1] = 0 /\ e.type = "read" /\ IsMine(RowAt(c), e.n)
      /\ e.type = "read" => T # {} \/ e.n \in overtaken'
      /\ overtaken \subseteq overtaken' /\ overtaken' \subseteq overtaken \cup {e.n}
      /\ log' \in Seq(Row)
      /\ \A c \in Coming : /\ Moved(c, n) \in Coming'
                           /\ RowAt(Moved(c, n))'.n = RowAt(c).n
                           /\ RowAt(Moved(c, n))'.by = RowAt(c).by
                           /\ RowAt(Moved(c, n))'.read <=> RowAt(c).read \/ c \in T
      /\ \A d \in Coming' : \E c \in Coming : d = Moved(c, n)
  BY <1>2 DEF Marks
<1>4. /\ m \in Nat \ {0} /\ DOMAIN wire = 1..m /\ DOMAIN wire' = 1..(m - 1) /\ wire' \in Seq(Event)
      /\ \A k \in 1..(m - 1) : wire'[k] = wire[k + 1]
      /\ e = wire[1] /\ 1 \in DOMAIN wire
  BY <1>1, HeadTailProperties, LenProperties, EmptySeq DEF HTypeOK
<1>5. /\ e \in Event /\ Honest(e)
      /\ \A k \in DOMAIN wire : wire[k] \in Event /\ Honest(wire[k])
  BY <1>1, <1>4, RowsAreRows DEF PGInv, PageOK
<1>6. /\ \A c \in Coming : \A d \in Coming :
           /\ Moved(c, n) = Moved(d, n) => c = d
           /\ Above(Moved(c, n), Moved(d, n)) => Above(c, d)
      /\ \A c \in Coming : /\ c[1] = 0 => Moved(c, n)[1] = 0
                           /\ c[1] # 0 => Moved(c, n)[1] = c[1] - 1
                           /\ c[1] \in 0..m
  <2>1. ASSUME NEW c \in Coming, NEW d \in Coming
        PROVE  /\ Moved(c, n) = Moved(d, n) => c = d
               /\ Above(Moved(c, n), Moved(d, n)) => Above(c, d)
               /\ Moved(c, n)[1] = (IF c[1] = 0 THEN 0 ELSE c[1] - 1)
    BY <1>1, <2>1, MovedKeepsOrder
  <2>2. \A c \in Coming : c[1] \in 0..m
    BY <1>1, PlaceIs
  <2> QED
    BY <2>1, <2>2
<1>7. \A c \in Coming : RowAt(c) \in Row
  BY <1>1, RowsAreRows
<1>8. HTypeOK'
  <2>1. e.n \in 0..MaxSaid
    BY <1>5 DEF Event
  <2>2. overtaken' \subseteq 0..MaxSaid /\ news' \subseteq 0..MaxSaid
    BY <1>1, <1>3, <2>1 DEF HTypeOK
  <2>3. greeted' \in BOOLEAN
    BY <1>1 DEF HTypeOK
  <2> QED
    BY <1>1, <1>3, <1>4, <2>2, <2>3 DEF HTypeOK
<1>9. Numbering'
  BY <1>1 DEF Numbering
<1>10. /\ \A k : Receipted(k)' = Receipted(k) /\ ReadHere(k)' = ReadHere(k)
       /\ \A f : Honest(f)' = Honest(f)
  BY <1>1 DEF Receipted, ReadHere, Honest
<1>11. \A c \in Coming : \A k : IsMine(RowAt(Moved(c, n))', k) <=> IsMine(RowAt(c), k)
  BY <1>3 DEF IsMine
<1>12. \A c \in Coming : IsReply(RowAt(Moved(c, n))') <=> IsReply(RowAt(c))
  BY <1>3 DEF IsReply
<1>13. PageOK'
  <2>1. stream.state \in {"open", "ended"}
    BY <1>1 DEF PGInv, PageOK
  <2>2. \A k \in DOMAIN wire' : Honest(wire[k])'
    <3> SUFFICES ASSUME NEW k \in DOMAIN wire' PROVE Honest(wire[k])'
      OBVIOUS
    <3>1. wire'[k] = wire[k + 1] /\ k + 1 \in DOMAIN wire
      BY <1>4
    <3> QED
      BY <1>1, <1>5, <3>1 DEF Honest, Receipted
  <2>3. \A d \in Coming' : Fitting(RowAt(d))'
    <3> SUFFICES ASSUME NEW c \in Coming, NEW d, d = Moved(c, n) PROVE Fitting(RowAt(d))'
      BY <1>3
    <3>1. /\ RowAt(d)'.n = RowAt(c).n /\ RowAt(d)'.by = RowAt(c).by
          /\ RowAt(d)'.read => RowAt(c).read \/ c \in T
      BY <1>3
    <3>2. Fitting(RowAt(c))
      BY DEF PGInv, PageOK
    <3>3. c \in T => Receipted(RowAt(c).n)
      BY <1>3, <1>5 DEF Honest, IsMine
    <3>4. RowAt(c).n <= said /\ (RowAt(c).by = "me" =>
              /\ RowAt(c).n \in 1..said
              /\ RowAt(c).read => Receipted(RowAt(c).n)
              /\ RowAt(c).n \in crossed \/ (current # Nobody /\ RowAt(c).n \in Numbers(chat[current])))
      BY <3>2 DEF Fitting
    <3> SUFFICES ASSUME NEW w, w = RowAt(d)' PROVE
              w.n <= said /\ (w.by = "me" =>
              /\ w.n \in 1..said
              /\ w.read => Receipted(w.n)
              /\ w.n \in crossed \/ (current # Nobody /\ w.n \in Numbers(chat[current])))
      BY <1>1 DEF Fitting, Receipted
    <3> QED
      BY <3>1, <3>3, <3>4
  <2> QED
    BY <1>1, <2>1, <2>2, <2>3 DEF PGInv, PageOK
<1>14. MineOnce'
  <2> SUFFICES ASSUME Unbroken, NEW k \in (1..said) \ crossed
               PROVE  /\ \A c, d \in Coming' : IsMine(RowAt(c)', k) /\ IsMine(RowAt(d)', k) => c = d
                      /\ \A p \in posts : p.n = k => \A c \in Coming' : ~IsMine(RowAt(c)', k)
                      /\ k \in Numbers(chat[current]) \ unheard /\ (\A p \in posts : p.n # k) =>
                           \E c \in Coming' : IsMine(RowAt(c)', k)
    BY <1>1 DEF MineOnce, Unbroken
  <2>1. /\ \A c, d \in Coming : IsMine(RowAt(c), k) /\ IsMine(RowAt(d), k) => c = d
        /\ \A p \in posts : p.n = k => \A c \in Coming : ~IsMine(RowAt(c), k)
        /\ k \in Numbers(chat[current]) \ unheard /\ (\A p \in posts : p.n # k) =>
             \E c \in Coming : IsMine(RowAt(c), k)
    BY DEF PGInv, MineOnce
  <2>2. \A d \in Coming' : IsMine(RowAt(d)', k) => \E c \in Coming : d = Moved(c, n) /\ IsMine(RowAt(c), k)
    BY <1>3, <1>11
  <2>3. \A c \in Coming : IsMine(RowAt(c), k) => \E d \in Coming' : IsMine(RowAt(d)', k)
    <3> SUFFICES ASSUME NEW c \in Coming, IsMine(RowAt(c), k) PROVE \E d \in Coming' : IsMine(RowAt(d)', k)
      OBVIOUS
    <3>1. Moved(c, n) \in Coming' /\ IsMine(RowAt(Moved(c, n))', k)
      BY <1>3, <1>11
    <3> QED
      BY <3>1
  <2> QED
    BY <2>1, <2>2, <2>3
<1>15. TicksCome'
  <2> SUFFICES ASSUME Unbroken, NEW k \in (1..said) \ (crossed \cup overtaken'), ReadHere(k)
               PROVE  /\ \A d \in Coming' : IsMine(RowAt(d)', k) /\ ~RowAt(d)'.read =>
                           \E i \in DOMAIN wire' : d[1] < i /\ Says(wire'[i], k)
                      /\ \A p \in posts : p.n = k => \E i \in DOMAIN wire' : Says(wire'[i], k)
    BY <1>1, <1>10 DEF TicksCome, Unbroken
  <2>1. /\ \A c \in Coming : IsMine(RowAt(c), k) /\ ~RowAt(c).read =>
             \E i \in DOMAIN wire : c[1] < i /\ Says(wire[i], k)
        /\ \A p \in posts : p.n = k => \E i \in DOMAIN wire : Says(wire[i], k)
    BY <1>3 DEF PGInv, TicksCome
  <2>2. /\ \A c, d \in Coming : IsMine(RowAt(c), k) /\ IsMine(RowAt(d), k) => c = d
        /\ \A p \in posts : p.n = k => \A c \in Coming : ~IsMine(RowAt(c), k)
    BY DEF PGInv, MineOnce
  <2>3. Says(e, k) => \E t \in T : IsMine(RowAt(t), k)
    BY <1>3 DEF Says
  <2>4. \A i \in DOMAIN wire : i # 1 => i - 1 \in DOMAIN wire' /\ wire'[i - 1] = wire[i]
    BY <1>4
  <2>5. ASSUME NEW c \in Coming, IsMine(RowAt(c), k), ~RowAt(c).read, c \notin T, NEW d, d = Moved(c, n)
        PROVE  \E i \in DOMAIN wire' : d[1] < i /\ Says(wire'[i], k)
    <3>1. PICK i \in DOMAIN wire : c[1] < i /\ Says(wire[i], k)
      BY <2>1, <2>5
    <3>2. i # 1
      <4> SUFFICES ASSUME i = 1 PROVE FALSE
        OBVIOUS
      <4>1. Says(e, k)
        BY <1>4, <3>1
      <4>2. PICK t \in T : IsMine(RowAt(t), k)
        BY <2>3, <4>1
      <4> QED
        BY <2>2, <2>5, <4>2
    <3>3. i - 1 \in DOMAIN wire' /\ Says(wire'[i - 1], k)
      BY <2>4, <3>1, <3>2
    <3>4. d[1] < i - 1
      <4>1. c[1] \in 0..m /\ (c[1] = 0 => d[1] = 0) /\ (c[1] # 0 => d[1] = c[1] - 1)
        BY <1>6, <2>5
      <4>2. i \in 1..m /\ c[1] < i
        BY <1>4, <3>1
      <4> QED
        BY <3>2, <4>1, <4>2, <1>4
    <3> QED
      BY <3>3, <3>4
  <2>6. \A d \in Coming' : IsMine(RowAt(d)', k) /\ ~RowAt(d)'.read =>
          \E i \in DOMAIN wire' : d[1] < i /\ Says(wire'[i], k)
    BY <1>3, <1>11, <2>5
  <2>7. ASSUME NEW p \in posts, p.n = k PROVE \E i \in DOMAIN wire' : Says(wire'[i], k)
    <3>1. PICK i \in DOMAIN wire : Says(wire[i], k)
      BY <2>1, <2>7
    <3>2. i # 1
      <4> SUFFICES ASSUME i = 1 PROVE FALSE
        OBVIOUS
      <4>1. Says(e, k)
        BY <1>4, <3>1
      <4> QED
        BY <2>2, <2>3, <2>7, <4>1
    <3> QED
      BY <2>4, <3>1, <3>2
  <2> QED
    BY <2>6, <2>7
<1>16. GreetedFirst'
  <2> SUFFICES ASSUME Unbroken
               PROVE  /\ \E c \in Coming' : RowAt(c)'.n = 0
                      /\ \A c, d \in Coming' : RowAt(c)'.n = 0 /\ RowAt(d)'.n = 0 => c = d
                      /\ 0 \notin news'
                      /\ \A d \in Coming' : RowAt(d)'.n = 0 /\ d[1] # 0 =>
                           ~greeted' /\ \A k \in DOMAIN wire' : k < d[1] => wire'[k].type # "output"
    BY <1>1 DEF GreetedFirst, Unbroken
  <2>1. /\ \E c \in Coming : RowAt(c).n = 0
        /\ \A c, d \in Coming : RowAt(c).n = 0 /\ RowAt(d).n = 0 => c = d
        /\ 0 \notin news
        /\ \A c \in Coming : RowAt(c).n = 0 /\ c[1] # 0 =>
             ~greeted /\ \A k \in DOMAIN wire : k < c[1] => wire[k].type # "output"
    BY DEF PGInv, GreetedFirst
  <2>2. \E c \in Coming' : RowAt(c)'.n = 0
    <3>1. PICK c \in Coming : RowAt(c).n = 0
      BY <2>1
    <3>2. Moved(c, n) \in Coming' /\ RowAt(Moved(c, n))'.n = 0
      BY <1>3, <3>1
    <3> QED
      BY <3>2
  <2>3. \A c, d \in Coming' : RowAt(c)'.n = 0 /\ RowAt(d)'.n = 0 => c = d
    BY <1>3, <2>1
  <2>4. 0 \notin news'
    <3>1. ASSUME e.type = "output", greeted, e.n = 0 PROVE FALSE
      <4>1. e.rows = <<[by |-> "agent", n |-> e.n, read |-> FALSE]>>
        BY <1>5, <3>1 DEF Honest
      <4>2. 1 \in DOMAIN e.rows /\ e.rows[1].n = 0
        BY <3>1, <4>1
      <4>3. RowsOf(1) = e.rows /\ 1 \in 0..Len(wire)
        BY <1>4 DEF RowsOf
      <4>4. <<1, 1>> \in Coming /\ RowAt(<<1, 1>>) = e.rows[1]
        BY <1>1, <4>2, <4>3, PlaceIs
      <4>5. <<1, 1>>[1] # 0
        OBVIOUS
      <4> QED
        BY <2>1, <3>1, <4>2, <4>4, <4>5
    <3> QED
      BY <1>1, <2>1, <3>1
  <2>5. ASSUME NEW c \in Coming, NEW d, d = Moved(c, n), RowAt(c).n = 0, d[1] # 0
        PROVE  ~greeted' /\ \A k \in DOMAIN wire' : k < d[1] => wire'[k].type # "output"
    <3>1. c[1] # 0 /\ d[1] = c[1] - 1 /\ c[1] \in 0..m
      BY <1>6, <2>5
    <3>2. ~greeted /\ \A k \in DOMAIN wire : k < c[1] => wire[k].type # "output"
      BY <2>1, <2>5, <3>1
    <3>3. 1 < c[1]
      BY <2>5, <3>1, <1>4
    <3>4. ~greeted'
      BY <1>1, <1>4, <3>2, <3>3
    <3>5. ASSUME NEW k \in DOMAIN wire', k < d[1] PROVE wire'[k].type # "output"
      <4>1. k + 1 \in DOMAIN wire /\ k + 1 < c[1] /\ wire'[k] = wire[k + 1]
        BY <1>4, <3>1, <3>5
      <4> QED
        BY <3>2, <4>1
    <3> QED
      BY <3>4, <3>5
  <2>6. \A d \in Coming' : RowAt(d)'.n = 0 /\ d[1] # 0 =>
          ~greeted' /\ \A k \in DOMAIN wire' : k < d[1] => wire'[k].type # "output"
    BY <1>3, <2>5
  <2> QED
    BY <2>2, <2>3, <2>4, <2>6
<1>17. RepliesOnce'
  <2> SUFFICES ASSUME Unbroken
               PROVE  /\ \A c \in Coming' : IsReply(RowAt(c)') =>
                           \E i \in DOMAIN chat[current] : IsReply(chat[current][i]) /\ chat[current][i].n = RowAt(c)'.n
                      /\ \A i \in DOMAIN chat[current] : IsReply(chat[current][i]) =>
                           \E c \in Coming' : IsReply(RowAt(c)') /\ RowAt(c)'.n = chat[current][i].n
                      /\ \A c, d \in Coming' :
                           IsReply(RowAt(c)') /\ IsReply(RowAt(d)') /\ Above(c, d) => RowAt(c)'.n < RowAt(d)'.n
    BY <1>1 DEF RepliesOnce, Unbroken
  <2>1. /\ \A c \in Coming : IsReply(RowAt(c)) =>
             \E i \in DOMAIN chat[current] : IsReply(chat[current][i]) /\ chat[current][i].n = RowAt(c).n
        /\ \A i \in DOMAIN chat[current] : IsReply(chat[current][i]) =>
             \E c \in Coming : IsReply(RowAt(c)) /\ RowAt(c).n = chat[current][i].n
        /\ \A c, d \in Coming :
             IsReply(RowAt(c)) /\ IsReply(RowAt(d)) /\ Above(c, d) => RowAt(c).n < RowAt(d).n
    BY DEF PGInv, RepliesOnce
  <2>2. \A d \in Coming' : IsReply(RowAt(d)') =>
          \E c \in Coming : d = Moved(c, n) /\ IsReply(RowAt(c)) /\ RowAt(d)'.n = RowAt(c).n
    BY <1>3, <1>12
  <2>3. ASSUME NEW i \in DOMAIN chat[current], IsReply(chat[current][i])
        PROVE  \E c \in Coming' : IsReply(RowAt(c)') /\ RowAt(c)'.n = chat[current][i].n
    <3>1. PICK c \in Coming : IsReply(RowAt(c)) /\ RowAt(c).n = chat[current][i].n
      BY <2>1, <2>3
    <3>2. Moved(c, n) \in Coming' /\ IsReply(RowAt(Moved(c, n))') /\ RowAt(Moved(c, n))'.n = chat[current][i].n
      BY <1>3, <1>12, <3>1
    <3> QED
      BY <3>2
  <2>4. \A c \in Coming' : IsReply(RowAt(c)') =>
          \E i \in DOMAIN chat[current] : IsReply(chat[current][i]) /\ chat[current][i].n = RowAt(c)'.n
    BY <2>1, <2>2
  <2>5. ASSUME NEW c \in Coming', NEW d \in Coming', IsReply(RowAt(c)'), IsReply(RowAt(d)'), Above(c, d)
        PROVE  RowAt(c)'.n < RowAt(d)'.n
    <3>1. PICK s \in Coming : c = Moved(s, n) /\ IsReply(RowAt(s)) /\ RowAt(c)'.n = RowAt(s).n
      BY <2>2, <2>5
    <3>2. PICK t \in Coming : d = Moved(t, n) /\ IsReply(RowAt(t)) /\ RowAt(d)'.n = RowAt(t).n
      BY <2>2, <2>5
    <3>3. Above(s, t)
      BY <1>6, <2>5, <3>1, <3>2
    <3> QED
      BY <2>1, <3>1, <3>2, <3>3
  <2> QED
    BY <2>3, <2>4, <2>5
<1> QED
  BY <1>8, <1>9, <1>13, <1>14, <1>15, <1>16, <1>17 DEF PGInv

LEMMA PageStarts ==
  ASSUME listed = Chatter, trusted = TRUE, chat = [a \in Chatter |-> <<>>],
         stream = NoStream, wire = <<>>, posts = {}, current = Nobody, known = {}, log = <<>>,
         greeted = FALSE, connected = FALSE, locked = FALSE,
         said \in 0..MaxSaid, opens \in 0..MaxStreams, reboots \in 0..MaxReboots,
         broken = FALSE, crossed = {}, unheard = {}, overtaken = {}, news = {}
  PROVE  PGInv
<1>1. /\ <<>> \in Seq(Row) /\ <<>> \in Seq(Event)
      /\ stream \in [of : Chatter \cup {Nobody}, state : {"none", "opening", "open", "ended", "dead"}]
      /\ stream.of = Nobody /\ stream.state = "none"
  BY DEF NoStream
<1>2. HTypeOK
  BY <1>1 DEF HTypeOK
<1>3. ~Unbroken
  BY <1>1 DEF Unbroken
<1>4. Coming = {}
  <2>1. 0..Len(wire) = {0}
    OBVIOUS
  <2>2. RowsOf(0) = <<>> /\ DOMAIN RowsOf(0) = {}
    BY DEF RowsOf
  <2> QED
    BY <2>1, <2>2 DEF Coming
<1>5. \A a \in Chatter : DOMAIN chat[a] = {}
  OBVIOUS
<1>6. Numbering
  BY <1>5 DEF Numbering
<1>7. PageOK
  BY <1>1, <1>4 DEF PageOK
<1>8. MineOnce /\ TicksCome /\ GreetedFirst /\ RepliesOnce
  BY <1>3 DEF MineOnce, TicksCome, GreetedFirst, RepliesOnce
<1> QED
  BY <1>2, <1>6, <1>7, <1>8 DEF PGInv

LEMMA PageKeeps == ASSUME PGInv, [HNext]_hvars PROVE PGInv'
<1>1. CASE HubStep
  <2>1. ASSUME NEW a \in Chatter, Leaves(a) \/ Joins(a) PROVE PGInv'
    BY <2>1, RosterStep
  <2>2. ASSUME Reboots \/ Trusts PROVE PGInv'
    BY <2>2, RosterStep
  <2>3. ASSUME NEW a \in Chatter, Speaks(a) \/ Receipt(a) PROVE PGInv'
    BY <2>3, SpeakStep, ReceiptStep
  <2>4. ASSUME NEW p \in posts, TakeMessage(p) PROVE PGInv'
    BY <2>4, TakeStep
  <2>5. ServeStream \/ RefuseStream => PGInv'
    BY ServeStep, RefuseStep
  <2> QED
    BY <1>1, <2>1, <2>2, <2>3, <2>4, <2>5 DEF HubStep
<1>2. CASE PageStep
  BY <1>2, MessageStep, ErrorStep, ComposerStep, LockedStep, RosterLoadedStep, PickStep, AnswerStep, FailStep
  DEF PageStep
<1>3. CASE UNCHANGED hvars
  <2>1. UNCHANGED <<listed, trusted, said, chat, stream, wire, posts, current, known, log, greeted,
                    connected, locked, opens, reboots, broken, crossed, unheard, overtaken, news>>
    BY <1>3 DEF hvars
  <2>2. HTypeOK'
    BY <2>1 DEF PGInv, HTypeOK, NoStream
  <2> QED
    BY <2>1, <2>2, QuietStep
<1> QED
  BY <1>1, <1>2, <1>3 DEF HNext

(* What the page shows follows. *)
LEMMA ShownIsTrue == ASSUME PGInv PROVE RepliesShown /\ MessagesShown /\ TicksAreTrue
<1>1. HTypeOK /\ Numbering
  BY DEF PGInv
<1>2. \A i \in DOMAIN log : <<0, i>> \in Coming /\ RowAt(<<0, i>>) = log[i] /\ <<0, i>>[1] = 0
  <2>1. 0 \in 0..Len(wire) /\ RowsOf(0) = log
    BY <1>1, PlaceIs DEF RowsOf
  <2> QED
    BY <1>1, <2>1, PlaceIs
<1>3. \A i \in DOMAIN log : Fitting(log[i])
  BY <1>2 DEF PGInv, PageOK
<1>4. RepliesShown
  <2> SUFFICES ASSUME Unbroken
               PROVE  /\ {RowAt(c).n : c \in {d \in Coming : IsReply(RowAt(d))}}
                           = {chat[current][i].n : i \in {j \in DOMAIN chat[current] : IsReply(chat[current][j])}}
                      /\ \A c, d \in Coming :
                           IsReply(RowAt(c)) /\ IsReply(RowAt(d)) /\ Above(c, d) => RowAt(c).n < RowAt(d).n
                      /\ OnceThere({c \in Coming : RowAt(c).n = 0})
                      /\ 0 \notin news
    BY DEF RepliesShown
  <2>1. /\ \A c \in Coming : IsReply(RowAt(c)) =>
             \E i \in DOMAIN chat[current] : IsReply(chat[current][i]) /\ chat[current][i].n = RowAt(c).n
        /\ \A i \in DOMAIN chat[current] : IsReply(chat[current][i]) =>
             \E c \in Coming : IsReply(RowAt(c)) /\ RowAt(c).n = chat[current][i].n
        /\ \A c, d \in Coming :
             IsReply(RowAt(c)) /\ IsReply(RowAt(d)) /\ Above(c, d) => RowAt(c).n < RowAt(d).n
    BY DEF PGInv, RepliesOnce
  <2>2. OnceThere({c \in Coming : RowAt(c).n = 0}) /\ 0 \notin news
    BY DEF PGInv, GreetedFirst, OnceThere
  <2>3. ASSUME NEW x PROVE x \in {RowAt(c).n : c \in {d \in Coming : IsReply(RowAt(d))}}
          <=> x \in {chat[current][i].n : i \in {j \in DOMAIN chat[current] : IsReply(chat[current][j])}}
    BY <2>1
  <2> QED
    BY <2>1, <2>2, <2>3
<1>5. MessagesShown
  <2> SUFFICES ASSUME Unbroken
               PROVE  /\ \A n \in Numbers(chat[current]) \ (crossed \cup unheard) :
                           (\A p \in posts : p.n # n) => OnceThere({c \in Coming : IsMine(RowAt(c), n)})
                      /\ Numbers(log) \subseteq Numbers(chat[current]) \cup crossed
    BY DEF MessagesShown
  <2>1. \A n \in Numbers(chat[current]) : n \in 1..said
    BY <1>1, CurrentIs DEF Numbering, Numbers
  <2>2. ASSUME NEW n \in Numbers(chat[current]) \ (crossed \cup unheard), \A p \in posts : p.n # n
        PROVE  OnceThere({c \in Coming : IsMine(RowAt(c), n)})
    <3>1. n \in (1..said) \ crossed
      BY <2>1
    <3>2. /\ \A c, d \in Coming : IsMine(RowAt(c), n) /\ IsMine(RowAt(d), n) => c = d
          /\ \E c \in Coming : IsMine(RowAt(c), n)
      BY <2>2, <3>1 DEF PGInv, MineOnce
    <3> QED
      BY <3>2 DEF OnceThere
  <2>3. \A n \in Numbers(log) : n \in Numbers(chat[current]) \cup crossed
    BY <1>3 DEF Numbers, Fitting
  <2> QED
    BY <2>2, <2>3
<1>6. TicksAreTrue
  <2> SUFFICES ASSUME NEW i \in DOMAIN log, log[i].by = "me"
               PROVE  /\ log[i].read => \E a \in Chatter : \E j \in Mine(chat[a], log[i].n) : chat[a][j].read
                      /\ Unbroken /\ ~log[i].read /\ log[i].n \notin crossed \cup overtaken =>
                           \A j \in Mine(chat[current], log[i].n) :
                             chat[current][j].read => \E k \in DOMAIN wire : wire[k].type = "read" /\ wire[k].n = log[i].n
    BY DEF TicksAreTrue
  <2>1. log[i].read => \E a \in Chatter : \E j \in Mine(chat[a], log[i].n) : chat[a][j].read
    BY <1>3 DEF Fitting, Receipted
  <2>2. ASSUME Unbroken, ~log[i].read, log[i].n \notin crossed \cup overtaken,
               NEW j \in Mine(chat[current], log[i].n), chat[current][j].read
        PROVE  \E k \in DOMAIN wire : wire[k].type = "read" /\ wire[k].n = log[i].n
    <3>1. log[i].n \in (1..said) \ (crossed \cup overtaken) /\ ReadHere(log[i].n)
      BY <1>3, <2>2 DEF Fitting, ReadHere
    <3>2. <<0, i>> \in Coming /\ IsMine(RowAt(<<0, i>>), log[i].n) /\ ~RowAt(<<0, i>>).read
      BY <1>2, <2>2 DEF IsMine
    <3> QED
      BY <2>2, <3>1, <3>2 DEF PGInv, TicksCome, Says
  <2> QED
    BY <2>1, <2>2
<1> QED
  BY <1>4, <1>5, <1>6

(* Where a behaviour of the run starts with something done before.         *)
LEMMA CallMadeStarts == FInit /\ FirstCallWasMade => NInv
<1> SUFFICES ASSUME FInit, FirstCallWasMade PROVE NInv
  OBVIOUS
<1>1. /\ WInit /\ results = <<>> /\ folded = {} /\ read = {1} /\ burnt = {} /\ shed = {} /\ late = {}
      /\ call = [c \in Call |-> IF c = 1 THEN "settled" ELSE "unmade"] /\ 1 \in Call
  BY DEF FirstCallWasMade
<1>2. FramesInv /\ ReceiptsInv
  BY <1>1, FramesInvInit, ReceiptsInvInit
<1>3. \A l \in Loop : pc[l] = "free"
  BY DEF FInit, Init
<1>4. Held = {} /\ 1 \in Settled
  BY <1>1 DEF Held, Settled, ToSet
<1>5. RTypeOK
  BY <1>1, ResultsAssumption, EmptySeq DEF RTypeOK
<1>6. ToolsInv
  <2>1. Settled = {1} /\ \A c \in Call : call[c] # "running"
    BY <1>1 DEF Settled
  <2> QED
    BY <1>1, <1>3, <1>4, <1>5, <2>1 DEF ToolsInv, UnreadForCause, HasPrompt, Composing
<1>7. PressureInv /\ MessagesInv
  BY <1>1 DEF FInit, Init, WInit, PressureInv, MessagesInv
<1> QED
  BY <1>2, <1>6, <1>7 DEF NInv

LEMMA MessagesReadStart == FInit /\ MessagesWereRead => NInv
<1> SUFFICES ASSUME FInit, MessagesWereRead PROVE NInv
  OBVIOUS
<1>1. /\ RInit /\ status = [m \in Message |-> "read"] /\ transcript = [m \in Message |-> m] /\ given = Message
      /\ pending = {} /\ inFlightIds = {} /\ pressureRound = 0 /\ shown = {} /\ cut = {}
  BY DEF MessagesWereRead
<1>2. FramesInv /\ ToolsInv
  BY <1>1, FramesInvInit, ToolsInvInit
<1>3. /\ \A l \in Loop : pc[l] = "free"
      /\ config.maxReduceRounds \in Nat
  BY ConfigAssumption DEF FInit, Init, ConfigType
<1>4. transcript \in Seq(Message \cup {AgentSend}) /\ Message \subseteq ToSet(transcript)
  <2>1. Message = 1..MaxMessages /\ MaxMessages \in Nat
    BY MessagesAssumption DEF Message
  <2>2. transcript \in [1..MaxMessages -> Message \cup {AgentSend}]
    BY <1>1, <2>1
  <2>3. transcript \in Seq(Message \cup {AgentSend})
    BY <2>1, <2>2, IsASeq
  <2>4. \A m \in Message : m \in DOMAIN transcript /\ transcript[m] = m
    BY <1>1
  <2> QED
    BY <2>3, <2>4 DEF ToSet
<1>5. WTypeOK
  BY <1>1, <1>3, <1>4 DEF WTypeOK
<1>6. ReceiptsInv
  BY <1>1, <1>3, <1>4, <1>5 DEF ReceiptsInv, Posted, HasPrompt, Composing, ReadMeansGiven, Read
<1>7. PressureInv /\ MessagesInv
  BY <1>1 DEF FInit, Init, PressureInv, MessagesInv
<1> QED
  BY <1>2, <1>6, <1>7 DEF NInv

LEMMA TalkStarts == TalkInit => NInv /\ PGInv
<1> SUFFICES ASSUME TalkInit PROVE NInv /\ PGInv
  OBVIOUS
<1>1. MaxReboots \in Nat /\ MaxSaid \in Nat /\ MaxStreams \in Nat
  BY ChatPageAssumption
<1>2. HInit => PGInv
  <2>1. HInit => said \in 0..MaxSaid /\ opens \in 0..MaxStreams /\ reboots \in 0..MaxReboots
    BY <1>1 DEF HInit
  <2> QED
    BY <2>1, PageStarts DEF HInit
<1>3. PageAtFirst => PGInv
  <2>1. PageAtFirst => said \in 0..MaxSaid /\ opens \in 0..MaxStreams /\ reboots \in 0..MaxReboots
    BY <1>1 DEF PageAtFirst
  <2> QED
    BY <2>1, PageStarts DEF PageAtFirst
<1>4. NInit => NInv
  BY ConversationStarts
<1> QED
  BY <1>2, <1>3, <1>4, CallMadeStarts, MessagesReadStart DEF TalkInit

LEMMA TalkKeeps == NInv /\ PGInv /\ [TalkNext]_talkVars => (NInv /\ PGInv)'
<1> SUFFICES ASSUME NInv, PGInv, [TalkNext]_talkVars PROVE NInv' /\ PGInv'
  OBVIOUS
<1>1. [NNext]_nvars /\ [HNext]_hvars
  BY DEF TalkNext, talkVars
<1> QED
  BY <1>1, ConversationKeeps, PageKeeps

----------------------------------------------------------------------------
(* The theorems on the page, and on the two.                               *)

(* What the page holds while it runs by itself. *)
THEOREM PageInvariant == HSpec => []PGInv
<1>1. HInit => PGInv
  <2>1. HInit => said \in 0..MaxSaid /\ opens \in 0..MaxStreams /\ reboots \in 0..MaxReboots
    BY ChatPageAssumption DEF HInit
  <2> QED
    BY <2>1, PageStarts DEF HInit
<1> QED
  BY <1>1, PageKeeps, PTL DEF HSpec

(* Of the frames and the page, whichever runs, both keep what they keep,    *)
(* also where calls, messages, streams or restarts went before.            *)
THEOREM TalkInvariant == TalkSpec => [](NInv /\ PGInv)
BY TalkStarts, TalkKeeps, PTL DEF TalkSpec

(* Type correctness of all that the agent and its user say, and show. *)
THEOREM TalkTypes == TalkSpec => []TalkTypeOK
<1>1. NInv /\ PGInv => TalkTypeOK
  BY DEF NInv, FramesInv, LockInv, ToolsInv, ReceiptsInv, NTypeOK, PGInv, TalkTypeOK
<1> QED
  BY <1>1, TalkInvariant, PTL

(* On a stream that was not lost the page shows, or will once it has what    *)
(* was written to it, every reply once and in order, every message of the   *)
(* user that its answer was to add, and the ticks that are true; whatever    *)
(* the order of answers, receipts, outputs, streams and restarts.          *)
THEOREM PageShowsTheTruth == TalkSpec => []PageIsTrue
<1>1. PGInv => PageIsTrue
  BY ShownIsTrue DEF PageIsTrue
<1> QED
  BY <1>1, TalkInvariant, PTL
=============================================================================
