------------------------------- MODULE Producer -------------------------------
(***************************************************************************)
(* The process as a Kafka producer (main.py) and the health its liveness   *)
(* probe reads (producer_health.py): publish() hands a message to a queue  *)
(* in memory; the client library (external) delivers it or gives it up     *)
(* later; the poll thread serves the callbacks; the process dies, flushing *)
(* or not, and is started again with nothing.                              *)
(*                                                                         *)
(* Time is counted in ticks of a minute; ages stop at the longest that     *)
(* still makes a difference. Tick waits for what takes much less: the      *)
(* poll loop, the library's own timeouts, the restart of the container.    *)
(***************************************************************************)
EXTENDS Naturals, Sequences, SequencesExt, FiniteSets

CONSTANTS
  Topics,
  NotYet,          \* a timestamp that was never written
  MaxQueue,        \* messages the library's queue holds
  STALL_WINDOW,    \* CM_PRODUCER_STALL_S, in ticks
  STALL_GRACE,     \* CM_PRODUCER_GRACE_S, in ticks
  MESSAGE_TIMEOUT, \* after which the library gives a message up, in ticks
  MaxFaults        \* bound: outages, deaths that nothing here causes, lost calls

ASSUME ProducerAssumption ==
  /\ {MaxQueue, STALL_WINDOW, STALL_GRACE, MESSAGE_TIMEOUT} \subseteq Nat \ {0}
  /\ MaxFaults \in Nat
  /\ NotYet \notin Nat
  /\ MESSAGE_TIMEOUT > STALL_WINDOW  \* 300 s and 180 s by default

VARIABLES
  alive,        \* the process runs
  fatal,        \* the producer instance can never publish again
  queue,        \* messages handed over and neither delivered nor given up
  callbacks,    \* outcomes whose delivery callback has not been served
  produceAge,   \* ticks since note_produce, or NotYet
  deliveredAge, \* ticks since note_delivered, or NotYet
  uptime,       \* ticks since the process started
  failing,      \* the liveness probes of the last minute failed
  brokerUp, downFor,  \* the broker, and for how long it has been away
  landed,       \* topic -> the last message delivered to it, or NotYet
  lost,         \* history: topics whose last message handed over was lost
  refused,      \* history: the last publish raised
  faults        \* counted for the bound

clockVars == <<produceAge, deliveredAge, uptime, failing, downFor>>
worldVars == <<brokerUp, downFor>>
processVars ==
  <<alive, fatal, queue, callbacks, produceAge, deliveredAge, uptime, failing,
    landed, lost, refused>>
producerVars == <<processVars, worldVars, faults>>

\* Something breaks of its own accord.
Fault == faults < MaxFaults /\ faults' = faults + 1

Older(age, limit) == IF age \in 0 .. limit - 1 THEN age + 1 ELSE age
Within(age) == age # NotYet /\ age <= STALL_WINDOW

TopicsOf(messages) == { m.topic : m \in ToSet(messages) }
Pending(topic) == { i \in DOMAIN queue : queue[i].topic = topic }
FirstOf(topic) == CHOOSE i \in Pending(topic) : \A j \in Pending(topic) : i <= j

-----------------------------------------------------------------------------
(* main.py                                                                  *)

\* A failed delivery counts as a delivery.
NotedDelivery_Mutant == IF callbacks = {} THEN deliveredAge ELSE 0
\* _on_delivery, for each callback waiting.
NotedDelivery == IF "delivered" \in callbacks THEN 0 ELSE deliveredAge

\* publish: the attempt is noted, the message queued, callbacks served.
Enqueue(topic, body) ==
  /\ alive /\ ~fatal /\ Len(queue) < MaxQueue
  /\ queue' = Append(queue, [topic |-> topic, body |-> body, age |-> 0])
  /\ produceAge' = 0
  /\ deliveredAge' = NotedDelivery
  /\ callbacks' = {}
  /\ lost' = lost \ {topic}
  /\ refused' = FALSE
  /\ UNCHANGED <<alive, fatal, uptime, failing, landed, worldVars, faults>>

\* publish when the queue is full: BufferError leaves it before the poll.
Refuse ==
  /\ alive /\ ~fatal /\ Len(queue) >= MaxQueue
  /\ produceAge' = 0
  /\ refused' = TRUE
  /\ UNCHANGED <<alive, fatal, queue, callbacks, deliveredAge, uptime, failing,
                 landed, lost, worldVars, faults>>

\* _poll_loop
ServeCallbacks ==
  /\ alive /\ callbacks # {}
  /\ deliveredAge' = NotedDelivery
  /\ callbacks' = {}
  /\ UNCHANGED <<alive, fatal, queue, produceAge, uptime, failing, landed, lost,
                 refused, worldVars, faults>>

\* What is left of the process: the queue went with it.
Gone ==
  /\ alive' = FALSE /\ fatal' = FALSE
  /\ queue' = <<>> /\ callbacks' = {}
  /\ produceAge' = NotYet /\ deliveredAge' = NotYet /\ uptime' = 0
  /\ failing' = FALSE /\ refused' = FALSE
  /\ UNCHANGED worldVars

\* Killed: nothing is flushed.
Kill ==
  /\ alive /\ Fault
  /\ Gone
  /\ lost' = lost \cup TopicsOf(queue)
  /\ UNCHANGED landed

\* die_if_fatal: exit without a flush, out of an error callback, a delivery
\* callback or a produce that raised.
DieIfFatal ==
  /\ alive /\ fatal
  /\ Gone
  /\ lost' = lost \cup TopicsOf(queue)
  /\ UNCHANGED <<landed, faults>>

\* The stall check as THE RULE without its first term.
Stalled_Mutant == alive /\ uptime >= STALL_GRACE /\ ~Within(deliveredAge)
\* state(), and the 503 of /healthz/live.
Stalled ==
  /\ alive /\ uptime >= STALL_GRACE
  /\ Within(produceAge) /\ ~Within(deliveredAge)

\* What the topics hold once the whole queue has been delivered.
Flushed ==
  [topic \in Topics |->
     IF Pending(topic) = {} THEN landed[topic]
     ELSE queue[CHOOSE i \in Pending(topic) : \A j \in Pending(topic) : j <= i].body]

\* SIGTERM, from the kubelet when probes go on failing or from an operator: the
\* server stops, then the queue is flushed for ten seconds.
Terminate ==
  /\ alive
  /\ \/ Stalled /\ failing /\ faults' = faults
     \/ Fault
  /\ Gone
  /\ \/ brokerUp /\ ~fatal /\ landed' = Flushed /\ lost' = lost
     \/ landed' = landed /\ lost' = lost \cup TopicsOf(queue)

\* main: a new producer with nothing queued and no timestamps.
Start ==
  /\ ~alive
  /\ alive' = TRUE
  /\ UNCHANGED <<fatal, queue, callbacks, clockVars, brokerUp, landed, lost,
                 refused, faults>>

-----------------------------------------------------------------------------
(* The client library and the broker.                                       *)

\* Without enable.idempotence a message may overtake one that is sent again.
Deliver_Mutant(topic) ==
  /\ alive /\ brokerUp /\ ~fatal /\ Pending(topic) # {}
  /\ \E i \in Pending(topic) :
       /\ landed' = [landed EXCEPT ![topic] = queue[i].body]
       /\ queue' = RemoveAt(queue, i)
  /\ callbacks' = callbacks \cup {"delivered"}
  /\ UNCHANGED <<alive, fatal, clockVars, brokerUp, lost, refused, faults>>
\* enable.idempotence: messages of one topic and key arrive in order, once.
Deliver(topic) ==
  /\ alive /\ brokerUp /\ ~fatal /\ Pending(topic) # {}
  /\ landed' = [landed EXCEPT ![topic] = queue[FirstOf(topic)].body]
  /\ queue' = RemoveAt(queue, FirstOf(topic))
  /\ callbacks' = callbacks \cup {"delivered"}
  /\ UNCHANGED <<alive, fatal, clockVars, brokerUp, lost, refused, faults>>

\* Given up after message.timeout.ms: _on_delivery logs it, no more.
GiveUp(topic) ==
  /\ alive /\ Pending(topic) # {}
  /\ queue[FirstOf(topic)].age >= MESSAGE_TIMEOUT
  /\ queue' = RemoveAt(queue, FirstOf(topic))
  /\ callbacks' = callbacks \cup {"failed"}
  /\ lost' = IF Cardinality(Pending(topic)) = 1 THEN lost \cup {topic} ELSE lost
  /\ UNCHANGED <<alive, fatal, clockVars, brokerUp, landed, refused, faults>>

TurnFatal ==
  /\ alive /\ ~fatal /\ Fault
  /\ fatal' = TRUE
  /\ UNCHANGED <<alive, queue, callbacks, clockVars, brokerUp, landed, lost,
                 refused>>

BrokerFails ==
  /\ brokerUp /\ Fault
  /\ brokerUp' = FALSE /\ downFor' = 0
  /\ UNCHANGED <<alive, fatal, queue, callbacks, produceAge, deliveredAge, uptime,
                 failing, landed, lost, refused>>

BrokerReturns ==
  /\ ~brokerUp
  /\ brokerUp' = TRUE /\ downFor' = 0
  /\ UNCHANGED <<alive, fatal, queue, callbacks, produceAge, deliveredAge, uptime,
                 failing, landed, lost, refused, faults>>

Tick ==
  /\ alive /\ callbacks = {} /\ ~fatal
  /\ \A i \in DOMAIN queue : queue[i].age < MESSAGE_TIMEOUT
  /\ queue' = [i \in DOMAIN queue |-> [queue[i] EXCEPT !.age = @ + 1]]
  /\ produceAge' = Older(produceAge, STALL_WINDOW + 1)
  /\ deliveredAge' = Older(deliveredAge, STALL_WINDOW + 1)
  /\ uptime' = Older(uptime, STALL_GRACE)
  /\ failing' = Stalled
  /\ downFor' = IF brokerUp THEN 0 ELSE Older(downFor, STALL_WINDOW + 1)
  /\ UNCHANGED <<alive, fatal, callbacks, brokerUp, landed, lost, refused,
                 faults>>

-----------------------------------------------------------------------------
ProducerInit ==
  /\ alive = TRUE /\ fatal = FALSE
  /\ queue = <<>> /\ callbacks = {}
  /\ produceAge = NotYet /\ deliveredAge = NotYet /\ uptime = 0
  /\ failing = FALSE
  /\ brokerUp = TRUE /\ downFor = 0
  /\ landed = [topic \in Topics |-> NotYet]
  /\ lost = {} /\ refused = FALSE
  /\ faults = 0

\* Deaths of the process; whoever uses the producer loses what it was doing.
Death == Kill \/ DieIfFatal \/ Terminate

\* What is sure to happen: the poll thread and the library run, a dead
\* container is started again, an outage ends.
Settles ==
  \/ ServeCallbacks \/ Start \/ BrokerReturns
  \/ \E topic \in Topics : Deliver(topic) \/ GiveUp(topic)

\* What nobody calls for.
Breaks == TurnFatal \/ BrokerFails
=============================================================================
