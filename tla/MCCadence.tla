----------------------------- MODULE MCCadence -----------------------------
EXTENDS Cadence

CONSTANTS t1, t2

TwoTimers == {t1, t2}
ThreeIntervals == {1, 2, 5}

Flat == [retryIntervalMs |-> 2, backoff |-> FALSE, maxRetryIntervalMs |-> 5, maxConsecutiveRetries |-> 1]
Backoff == [retryIntervalMs |-> 1, backoff |-> TRUE, maxRetryIntervalMs |-> 2, maxConsecutiveRetries |-> 0]
RetryConfigs == {Flat, Backoff}
=============================================================================
