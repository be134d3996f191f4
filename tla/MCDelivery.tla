---------------------------- MODULE MCDelivery ----------------------------
(* Module Delivery on small instances. *)
EXTENDS Delivery

CONSTANTS w1, w2

MCWorker == {w1, w2}
MCProvider == {"nsq", "azure", "aws", "gcp"}

Given(n, min, max) == [set |-> TRUE, maxRetries |-> n, minBackoff |-> min, maxBackoff |-> max]
Unset == [set |-> FALSE, maxRetries |-> 0, minBackoff |-> 0, maxBackoff |-> 0]

\* The default; none; one, with little room to grow, and with a maximum below the minimum; and zero.
Finite == {Unset, Given(NoRetries, 0, 0), Given(1, 3, 7), Given(1, 6, 4), Given(0, 0, 0)}

\* For ever, with a minimum of less than a second, which has two ticks.
Forever == Given(InfiniteRetries, 1, 7)

MCPolicy == Finite \union {Forever}

\* All of them, but for Azure's copies that are retried for ever.
MCSubscription == (MCProvider \X MCPolicy) \ {<<"azure", Forever>>}

\* One handler at a time.
MCAlone == {w1}

\* NSQ alone, and with two retries.
MCNsq == {"nsq"}
NsqSubscription == MCNsq \X MCPolicy
MCTwoRetries == {Given(2, 0, 0)}
TwiceOnNsq == MCNsq \X MCTwoRetries
=============================================================================
