--------------------------- MODULE EgressProperties ---------------------------
(***************************************************************************)
(* What the egress promises: handlers that take effect once in spite of    *)
(* crashes and replays, readers that catch up, a probe that tells a wedge  *)
(* from an idle producer.                                                  *)
(***************************************************************************)
EXTENDS Egress

\* Crashes, lost attempts, replays and refused publishes between any two
\* commands do not show: what a call did is what one atomic handler would
\* have done (asset_cm.py:887-889, "ctx.run journaling makes the publish
\* idempotent under Restate retries").
TakesEffectAtOnce == Atomic!Spec

\* docs/topology.md:89-91: "re-execution under retry doesn't emit duplicate
\* CloudEvents"; :103 says "no duplicates", and asset_cm.py:887-889 that the
\* journal makes the publish idempotent under retries. So no call hands its
\* alert over twice.
RetriesDontDuplicate == call # None => call.alerts <= 1

\* What the journal does achieve, and less than the documents say: a call
\* hands its alert over once, and once more for each attempt cut off between
\* the publish and its journal entry. No other retry, replay or refusal emits
\* a copy.
CopiesAreAccountedFor == call # None => call.alerts <= 1 + call.cuts

\* The last message handed over on a topic has arrived.
Arrived(topic) == handed[topic] = None \/ landed[topic] = handed[topic]

\* A call that is accepted completes, and readers of both topics come to see
\* what it left, through every outage, full queue, crash and restart; unless
\* the message that carried it was handed over and lost, or the call met a
\* reload, when its replay may be refused for good.
CallsReachReaders ==
  (call # None)
    ~> \/ /\ call = None /\ handed[STATE_TOPIC] = record
          /\ \A topic \in Topics \ lost : Arrived(topic)
       \/ call # None /\ loads # call.before.loads

\* docs/topology.md:103: with the broker down ctx.run() returns an exception
\* and Restate retries the handler. So what a call left while the broker was
\* down reaches the readers in the end.
StateOutlivesOutage ==
  (~brokerUp /\ call = None /\ record # None)
    ~> (landed[STATE_TOPIC] = record \/ call # None)

\* producer_health.py:33-35: an idle producer is never stalled. A stalled one
\* owes somebody a delivery, or raised at its last publish.
StalledOwesDelivery == Stalled => queue # <<>> \/ callbacks # {} \/ refused

\* producer_health.py:12-13: a broker that has been away for more than the
\* window is seen by the probe while handlers go on publishing, whatever
\* failed deliveries were reported meanwhile.
WedgeIsSeen ==
  alive /\ downFor > STALL_WINDOW /\ uptime >= STALL_GRACE /\ Within(produceAge)
    => Stalled
=============================================================================
