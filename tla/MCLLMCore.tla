----------------------------- MODULE MCLLMCore -----------------------------
EXTENDS LLMCore

CONSTANTS k1, k2, l1, l2

OneKey == {k1}
(* With one key, the second loop has room to run if the lock lets it. *)
TwoLoops == {l1, l2}

(* With a budget of 1 an estimate of 1 fits; 2 and 3 overflow, and a round  *)
(* may shrink 3 to 2, leave it, or let it grow.                            *)
ShortEstimates == {1, 2}
LongEstimates == {1, 2, 3}

Shrinks(n) ==
  [budget |-> 1, maxReduceRounds |-> n, retryOnContextError |-> TRUE, canChat |-> TRUE]
UnknownWindow ==
  [budget |-> NoBudget, maxReduceRounds |-> 1, retryOnContextError |-> TRUE, canChat |-> TRUE]
NoCommunicator ==
  [budget |-> NoBudget, maxReduceRounds |-> 1, retryOnContextError |-> FALSE, canChat |-> FALSE]

EveryConfig == {Shrinks(0), Shrinks(1), Shrinks(2), UnknownWindow, NoCommunicator}
BusyConfig == {Shrinks(1)}
=============================================================================
