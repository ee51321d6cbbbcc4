---------------------------- MODULE Egress_proofs ----------------------------
(***************************************************************************)
(* Safety of the egress, for any findings, registries, calls, faults,      *)
(* queue length and time limits: what a call amounts to over lost          *)
(* attempts, what a retry may repeat, and what the liveness probe may      *)
(* conclude from its two timestamps.                                       *)
(***************************************************************************)
EXTENDS EgressProperties, SequenceTheorems, WellFoundedInduction, TLAPS

USE DEF ALERT_TOPIC, STATE_TOPIC

Message == [topic : Topics, body : Values, age : Nat]
Age == Nat \cup {NotYet}

-----------------------------------------------------------------------------
(* The producer by itself. Every step of the egress is one of these for it. *)

ProducerTypeOK ==
  /\ queue \in Seq(Message)
  /\ callbacks \subseteq {"delivered", "failed"}
  /\ produceAge \in Age /\ deliveredAge \in Age
  /\ uptime \in Nat /\ downFor \in 0 .. STALL_WINDOW + 1
  /\ {alive, fatal, brokerUp, refused} \subseteq BOOLEAN

ProducerNext ==
  \/ \E topic \in Topics, body \in Values : Enqueue(topic, body)
  \/ Refuse \/ Settles \/ Death \/ Breaks \/ Tick
  \/ UNCHANGED <<processVars, worldVars>>

\* Removing a message leaves the others, in their order.
LEMMA Removal ==
  ASSUME NEW i \in 1 .. Len(queue), queue \in Seq(Message)
  PROVE  /\ RemoveAt(queue, i) \in Seq(Message)
         /\ \A j \in 1 .. Len(queue) : j # i =>
              \E k \in 1 .. Len(RemoveAt(queue, i)) : RemoveAt(queue, i)[k] = queue[j]
<1> DEFINE front == SubSeq(queue, 1, i - 1)
           back == SubSeq(queue, i + 1, Len(queue))
<1>1. Len(queue) \in Nat /\ \A j \in 1 .. Len(queue) : queue[j] \in Message
  BY ElementOfSeq, LenProperties
<1>2. front \in Seq(Message) /\ Len(front) = i - 1
      /\ \A j \in 1 .. i - 1 : front[j] = queue[j]
  <2>1. \A j \in 1 .. i - 1 : queue[j] \in Message
    BY <1>1
  <2>2. 1 \in Int /\ i - 1 \in Int
    BY <1>1
  <2> HIDE DEF front
  <2>3. /\ front \in Seq(Message)
        /\ Len(front) = IF 1 <= i - 1 THEN i - 1 - 1 + 1 ELSE 0
        /\ \A j \in 1 .. i - 1 - 1 + 1 : front[j] = queue[1 + j - 1]
    BY <2>1, <2>2, SubSeqProperties DEF front
  <2>4. QED
    BY <1>1, <2>3
<1>3. back \in Seq(Message) /\ Len(back) = Len(queue) - i
      /\ \A j \in 1 .. Len(queue) - i : back[j] = queue[i + j]
  <2>1. \A j \in i + 1 .. Len(queue) : queue[j] \in Message
    BY <1>1
  <2>2. i + 1 \in Int /\ Len(queue) \in Int
    BY <1>1
  <2> HIDE DEF back
  <2>3. /\ back \in Seq(Message)
        /\ Len(back) = IF i + 1 <= Len(queue) THEN Len(queue) - (i + 1) + 1 ELSE 0
        /\ \A j \in 1 .. Len(queue) - (i + 1) + 1 : back[j] = queue[i + 1 + j - 1]
    BY <2>1, <2>2, SubSeqProperties DEF back
  <2>4. QED
    BY <1>1, <2>3
<1>4. RemoveAt(queue, i) = front \o back
  BY DEF RemoveAt
<1> HIDE DEF front, back
<1>5. /\ front \o back \in Seq(Message)
      /\ Len(front \o back) = Len(queue) - 1
      /\ \A j \in 1 .. Len(queue) - 1 :
           (front \o back)[j] = IF j <= i - 1 THEN front[j] ELSE back[j - (i - 1)]
  <2>1. /\ front \o back \in Seq(Message)
        /\ Len(front \o back) = Len(front) + Len(back)
        /\ \A j \in 1 .. Len(front) + Len(back) :
             (front \o back)[j] = IF j <= Len(front) THEN front[j] ELSE back[j - Len(front)]
    BY <1>2, <1>3, ConcatProperties
  <2>2. Len(front) + Len(back) = Len(queue) - 1 /\ Len(front) = i - 1
    BY <1>1, <1>2, <1>3
  <2>3. QED
    BY <2>1, <2>2
<1>6. ASSUME NEW j \in 1 .. Len(queue), j # i
      PROVE  \E k \in 1 .. Len(front \o back) : (front \o back)[k] = queue[j]
  <2>1. CASE j < i
    <3>1. j \in 1 .. Len(front \o back) /\ (front \o back)[j] = queue[j]
      BY <1>1, <1>2, <1>5, <2>1
    <3>2. QED
      BY <3>1
  <2>2. CASE j > i
    <3>1. /\ j - 1 \in 1 .. Len(queue) - 1
          /\ ~(j - 1 <= i - 1)
          /\ j - i \in 1 .. Len(queue) - i
          /\ (j - 1) - (i - 1) = j - i
          /\ i + (j - i) = j
      BY <1>1, <2>2
    <3>2. (front \o back)[j - 1] = back[(j - 1) - (i - 1)]
      BY <1>5, <3>1
    <3>3. back[(j - 1) - (i - 1)] = queue[j]
      BY <1>3, <3>1
    <3>4. QED
      BY <1>5, <3>1, <3>2, <3>3
  <2>3. QED
    BY <1>1, <1>6, <2>1, <2>2
<1>7. QED
  BY <1>4, <1>5, <1>6

\* The first message pending for a topic is one of the queue.
LEMMA FirstIsPending ==
  ASSUME queue \in Seq(Message), NEW topic, Pending(topic) # {}
  PROVE  FirstOf(topic) \in 1 .. Len(queue)
<1> DEFINE less == OpToRel(<, Nat)
<1>1. DOMAIN queue = 1 .. Len(queue) /\ Len(queue) \in Nat
  BY LenProperties
<1>2. Pending(topic) \subseteq 1 .. Len(queue)
  BY <1>1 DEF Pending
<1>3. \A i, j \in Nat : j < i => <<j, i>> \in less
  BY DEF OpToRel
<1>4. IsWellFoundedOn(less, Nat)
  BY NatLessThanWellFounded
<1> HIDE DEF less
<1>5. Pending(topic) \subseteq Nat
  BY <1>1, <1>2
<1>6. \E i \in Pending(topic) : \A j \in Pending(topic) : ~ (<<j, i>> \in less)
  BY <1>4, <1>5, WFMin
<1>7. PICK i \in Pending(topic) : \A j \in Pending(topic) : ~ (<<j, i>> \in less)
  BY <1>6, Zenon
<1>8. ASSUME NEW j \in Pending(topic)
      PROVE  i <= j
  <2>1. i \in Nat /\ j \in Nat
    BY <1>5
  <2>2. ~ (j < i)
    BY <1>3, <1>7, <2>1
  <2>3. QED
    BY <2>1, <2>2
<1>9. FirstOf(topic) \in Pending(topic)
  BY <1>8 DEF FirstOf
<1>10. QED
  BY <1>2, <1>9

LEMMA OlderIs ==
  ASSUME NEW age \in Age, NEW limit \in Nat
  PROVE  /\ Older(age, limit) \in Age
         /\ age = NotYet => Older(age, limit) = NotYet
         /\ age \in Nat => Older(age, limit) \in Nat
                           /\ Older(age, limit) = IF age < limit THEN age + 1 ELSE age
BY ProducerAssumption DEF Older, Age

\* What waits in the queue and what the callbacks say is well typed.
LEMMA ProducerNextType ==
  ProducerTypeOK /\ ProducerNext => ProducerTypeOK'
<1> SUFFICES ASSUME ProducerTypeOK, ProducerNext PROVE ProducerTypeOK'
  OBVIOUS
<1> USE DEF ProducerTypeOK
<1>1. ASSUME NEW topic \in Topics, NEW body \in Values, Enqueue(topic, body)
      PROVE  ProducerTypeOK'
  <2>1. [topic |-> topic, body |-> body, age |-> 0] \in Message
    BY DEF Message
  <2>2. queue' \in Seq(Message)
    BY <1>1, <2>1, AppendProperties DEF Enqueue
  <2>3. QED
    BY <1>1, <2>2 DEF Enqueue, NotedDelivery, Age, worldVars
<1>2. CASE Refuse
  BY <1>2 DEF Refuse, Age, worldVars
<1>3. CASE ServeCallbacks
  BY <1>3 DEF ServeCallbacks, NotedDelivery, Age, worldVars
<1>4. CASE Start
  BY <1>4 DEF Start, clockVars
<1>5. CASE BrokerReturns
  BY <1>5, ProducerAssumption DEF BrokerReturns
<1>6. ASSUME NEW topic \in Topics, Deliver(topic) \/ GiveUp(topic)
      PROVE  ProducerTypeOK'
  <2>1. queue' = RemoveAt(queue, FirstOf(topic)) /\ Pending(topic) # {}
    BY <1>6 DEF Deliver, GiveUp
  <2>2. queue' \in Seq(Message)
    BY <2>1, FirstIsPending, Removal
  <2>3. QED
    BY <1>6, <2>2 DEF Deliver, GiveUp, clockVars
<1>7. CASE Death
  <2>1. Gone
    BY <1>7 DEF Death, Kill, DieIfFatal, Terminate
  <2>2. <<>> \in Seq(Message)
    BY EmptySeq
  <2>3. QED
    BY <2>1, <2>2 DEF Gone, Age, worldVars
<1>8. CASE Breaks
  <2>1. CASE TurnFatal
    BY <2>1 DEF TurnFatal, clockVars
  <2>2. CASE BrokerFails
    <3>1. 0 \in 0 .. STALL_WINDOW + 1
      BY ProducerAssumption
    <3>2. QED
      BY <2>2, <3>1 DEF BrokerFails
  <2>3. QED
    BY <1>8, <2>1, <2>2 DEF Breaks
<1>9. CASE Tick
  <2>1. queue' = [i \in 1 .. Len(queue) |-> [queue[i] EXCEPT !.age = @ + 1]]
        /\ Len(queue) \in Nat /\ \A i \in 1 .. Len(queue) : queue[i] \in Message
    BY <1>9, LenProperties, ElementOfSeq DEF Tick
  <2>2. \A i \in 1 .. Len(queue) : [queue[i] EXCEPT !.age = @ + 1] \in Message
    BY <2>1 DEF Message
  <2>3. queue' \in [1 .. Len(queue) -> Message]
    BY <2>1, <2>2
  <2>4. queue' \in Seq(Message)
    BY <2>1, <2>3, SeqDef
  <2>5. STALL_WINDOW + 1 \in Nat /\ STALL_GRACE \in Nat
    BY ProducerAssumption
  <2>6. produceAge' \in Age /\ deliveredAge' \in Age
    BY <1>9, <2>5, OlderIs DEF Tick
  <2>7. uptime' \in Nat
    BY <1>9, <2>5 DEF Tick, Older
  <2>8. downFor' \in 0 .. STALL_WINDOW + 1
    BY <1>9, <2>5 DEF Tick, Older
  <2>9. QED
    BY <1>9, <2>4, <2>6, <2>7, <2>8 DEF Tick
<1>10. CASE UNCHANGED <<processVars, worldVars>>
  BY <1>10 DEF processVars, worldVars
<1>11. QED
  BY <1>1, <1>2, <1>3, <1>4, <1>5, <1>6, <1>7, <1>8, <1>9, <1>10
     DEF ProducerNext, Settles

\* While the broker is away no delivery is noted, nor waiting to be noted
\* from before the first minute: the last one noted is as old as the outage.
WedgeInv ==
  /\ brokerUp => downFor = 0
  /\ "delivered" \in callbacks => downFor = 0
  /\ deliveredAge # NotYet => deliveredAge >= downFor

LEMMA NextWedge ==
  ProducerTypeOK /\ WedgeInv /\ ProducerNext => WedgeInv'
<1> SUFFICES ASSUME ProducerTypeOK, WedgeInv, ProducerNext PROVE WedgeInv'
  OBVIOUS
<1>0. 0 # NotYet /\ STALL_WINDOW + 1 \in Nat /\ downFor \in Nat
  BY ProducerAssumption DEF ProducerTypeOK
<1> USE DEF WedgeInv
<1>1. ASSUME NEW topic \in Topics, NEW body \in Values, Enqueue(topic, body)
      PROVE  WedgeInv'
  BY <1>0, <1>1 DEF Enqueue, NotedDelivery, worldVars
<1>2. CASE Refuse
  BY <1>2 DEF Refuse, worldVars
<1>3. CASE Settles
  <2>1. CASE ServeCallbacks
    BY <1>0, <2>1 DEF ServeCallbacks, NotedDelivery, worldVars
  <2>2. CASE Start
    BY <2>2 DEF Start, clockVars
  <2>3. CASE BrokerReturns
    BY <2>3 DEF BrokerReturns, ProducerTypeOK, Age
  <2>4. ASSUME NEW topic \in Topics, Deliver(topic) \/ GiveUp(topic)
        PROVE  WedgeInv'
    BY <2>4 DEF Deliver, GiveUp, clockVars
  <2>5. QED
    BY <1>3, <2>1, <2>2, <2>3, <2>4 DEF Settles
<1>4. CASE Death
  <2>1. Gone
    BY <1>4 DEF Death, Kill, DieIfFatal, Terminate
  <2>2. QED
    BY <2>1 DEF Gone, worldVars
<1>5. CASE Breaks
  BY <1>5 DEF Breaks, TurnFatal, BrokerFails, clockVars, ProducerTypeOK, Age
<1>6. CASE Tick
  <2>1. callbacks' = {} /\ brokerUp' = brokerUp
    BY <1>6 DEF Tick
  <2>2. downFor' = IF brokerUp THEN 0
                   ELSE IF downFor < STALL_WINDOW + 1 THEN downFor + 1 ELSE downFor
    BY <1>0, <1>6, OlderIs DEF Tick, Age
  <2>3. deliveredAge = NotYet => deliveredAge' = NotYet
    BY <1>0, <1>6, OlderIs DEF Tick, ProducerTypeOK
  <2>4. deliveredAge \in Nat =>
          deliveredAge' \in Nat
          /\ deliveredAge' = IF deliveredAge < STALL_WINDOW + 1
                             THEN deliveredAge + 1 ELSE deliveredAge
    BY <1>0, <1>6, OlderIs DEF Tick, ProducerTypeOK
  <2>5. CASE deliveredAge \in Nat
    <3>1. deliveredAge # NotYet
      BY <2>5, ProducerAssumption
    <3>2. deliveredAge' >= downFor'
      BY <1>0, <2>2, <2>4, <2>5, <3>1 DEF ProducerTypeOK
    <3>3. QED
      BY <2>1, <2>2, <3>2
  <2>6. CASE deliveredAge = NotYet
    BY <2>1, <2>2, <2>3, <2>6
  <2>7. QED
    BY <2>5, <2>6 DEF ProducerTypeOK, Age
<1>7. CASE UNCHANGED <<processVars, worldVars>>
  BY <1>7 DEF processVars, worldVars
<1>8. QED
  BY <1>1, <1>2, <1>3, <1>4, <1>5, <1>6, <1>7 DEF ProducerNext

LEMMA WedgeIsNoted ==
  ProducerTypeOK /\ WedgeInv => WedgeIsSeen
BY ProducerAssumption DEF ProducerTypeOK, WedgeInv, WedgeIsSeen, Stalled, Within, Age

-----------------------------------------------------------------------------
(* What a recent produce is owed.                                           *)

\* A message handed over no earlier than the last produce is still queued.
\* None that was handed over inside the window has been given up: the library
\* tries for longer than that.
Waits(age) == \E i \in 1 .. Len(queue) : queue[i].age <= age

OwedInv ==
  Within(produceAge) =>
    \/ refused
    \/ "delivered" \in callbacks
    \/ deliveredAge # NotYet /\ deliveredAge <= produceAge
    \/ Waits(produceAge)

LEMMA NextOwed ==
  ProducerTypeOK /\ OwedInv /\ ProducerNext => OwedInv'
<1> SUFFICES ASSUME ProducerTypeOK, OwedInv, ProducerNext, Within(produceAge)'
             PROVE  \/ refused'
                    \/ "delivered" \in callbacks'
                    \/ deliveredAge' # NotYet /\ deliveredAge' <= produceAge'
                    \/ Waits(produceAge)'
  BY DEF OwedInv
<1>0. /\ 0 # NotYet /\ STALL_WINDOW + 1 \in Nat /\ STALL_WINDOW \in Nat
      /\ Len(queue) \in Nat /\ DOMAIN queue = 1 .. Len(queue)
      /\ \A i \in 1 .. Len(queue) : queue[i] \in Message
  BY ProducerAssumption, LenProperties, ElementOfSeq DEF ProducerTypeOK
<1>1. ASSUME NEW topic \in Topics, NEW body \in Values, Enqueue(topic, body)
      PROVE  Waits(produceAge)'
  <2> DEFINE m == [topic |-> topic, body |-> body, age |-> 0]
  <2>1. m \in Message /\ queue' = Append(queue, m) /\ produceAge' = 0
    BY <1>1 DEF Message, Enqueue
  <2>2. Len(queue') = Len(queue) + 1 /\ queue'[Len(queue) + 1] = m
    BY <2>1, AppendProperties DEF ProducerTypeOK
  <2>3. QED
    BY <1>0, <2>1, <2>2 DEF Waits
<1>2. CASE Refuse
  BY <1>2 DEF Refuse
<1>3. CASE Settles
  <2>1. CASE ServeCallbacks
    <3>1. UNCHANGED <<produceAge, queue, refused>>
          /\ deliveredAge' = IF "delivered" \in callbacks THEN 0 ELSE deliveredAge
      BY <2>1 DEF ServeCallbacks, NotedDelivery
    <3>2. CASE "delivered" \in callbacks
      <4>1. produceAge' \in Nat
        BY <3>1 DEF Within, ProducerTypeOK, Age
      <4>2. QED
        BY <1>0, <3>1, <3>2, <4>1
    <3>3. CASE "delivered" \notin callbacks
      BY <3>1, <3>3 DEF OwedInv, Within, Waits
    <3>4. QED
      BY <3>2, <3>3
  <2>2. CASE Start
    BY <2>2 DEF Start, clockVars, OwedInv, Within, Waits
  <2>3. CASE BrokerReturns
    BY <2>3 DEF BrokerReturns, OwedInv, Within, Waits
  <2>4. ASSUME NEW topic \in Topics, Deliver(topic)
        PROVE  "delivered" \in callbacks'
    BY <2>4 DEF Deliver
  <2>5. ASSUME NEW topic \in Topics, GiveUp(topic)
        PROVE  \/ refused'
               \/ "delivered" \in callbacks'
               \/ deliveredAge' # NotYet /\ deliveredAge' <= produceAge'
               \/ Waits(produceAge)'
    <3>1. /\ UNCHANGED <<produceAge, deliveredAge, refused>>
          /\ callbacks' = callbacks \cup {"failed"}
          /\ queue' = RemoveAt(queue, FirstOf(topic))
          /\ queue[FirstOf(topic)].age >= MESSAGE_TIMEOUT /\ Pending(topic) # {}
      BY <2>5 DEF GiveUp, clockVars
    <3>2. FirstOf(topic) \in 1 .. Len(queue)
      BY <3>1, FirstIsPending DEF ProducerTypeOK
    <3>3. ASSUME Waits(produceAge)
          PROVE  Waits(produceAge)'
      <4>1. PICK j \in 1 .. Len(queue) : queue[j].age <= produceAge
        BY <3>3 DEF Waits
      <4>2. produceAge \in Nat /\ produceAge <= STALL_WINDOW
        BY <3>1 DEF Within, ProducerTypeOK, Age
      <4>3. queue[j].age \in Nat /\ queue[FirstOf(topic)].age \in Nat
            /\ MESSAGE_TIMEOUT \in Nat /\ MESSAGE_TIMEOUT > STALL_WINDOW
        BY <1>0, <3>2, ProducerAssumption DEF Message
      <4>4. j # FirstOf(topic)
        BY <1>0, <3>1, <4>1, <4>2, <4>3
      <4>5. \E k \in 1 .. Len(queue') : queue'[k] = queue[j]
        BY <3>1, <3>2, <4>4, Removal DEF ProducerTypeOK
      <4>6. QED
        BY <3>1, <4>1, <4>5 DEF Waits
    <3>4. QED
      BY <3>1, <3>3 DEF OwedInv, Within
  <2>6. QED
    BY <1>3, <2>1, <2>2, <2>3, <2>4, <2>5 DEF Settles
<1>4. CASE Death
  BY <1>4 DEF Death, Kill, DieIfFatal, Terminate, Gone, Within
<1>5. CASE Breaks
  BY <1>5 DEF Breaks, TurnFatal, BrokerFails, clockVars, OwedInv, Within, Waits
<1>6. CASE Tick
  <2>1. callbacks = {} /\ UNCHANGED refused
        /\ queue' = [i \in 1 .. Len(queue) |-> [queue[i] EXCEPT !.age = @ + 1]]
    BY <1>0, <1>6 DEF Tick
  <2>2. /\ produceAge \in Nat
        /\ produceAge' = IF produceAge < STALL_WINDOW + 1 THEN produceAge + 1
                         ELSE produceAge
    <3>1. produceAge # NotYet
      BY <1>0, <1>6, OlderIs DEF Tick, ProducerTypeOK, Within
    <3>2. QED
      BY <1>0, <1>6, <3>1, OlderIs DEF Tick, ProducerTypeOK, Age
  <2>3. produceAge' = produceAge + 1 /\ produceAge <= STALL_WINDOW
    BY <1>0, <2>2 DEF Within
  <2>4. CASE refused
    BY <2>1, <2>4
  <2>5. CASE deliveredAge # NotYet /\ deliveredAge <= produceAge
    <3>1. deliveredAge \in Nat
      BY <2>5 DEF ProducerTypeOK, Age
    <3>2. deliveredAge' \in Nat
          /\ deliveredAge' = IF deliveredAge < STALL_WINDOW + 1
                             THEN deliveredAge + 1 ELSE deliveredAge
      BY <1>0, <1>6, <3>1, OlderIs DEF Tick, ProducerTypeOK
    <3>3. deliveredAge' # NotYet
      BY <3>2, ProducerAssumption
    <3>4. deliveredAge' <= produceAge'
      BY <1>0, <2>2, <2>3, <2>5, <3>1, <3>2
    <3>5. QED
      BY <3>3, <3>4
  <2>6. CASE Waits(produceAge)
    <3>1. PICK i \in 1 .. Len(queue) : queue[i].age <= produceAge
      BY <2>6 DEF Waits
    <3>2. queue[i] \in Message
      BY <1>0
    <3>3. queue'[i].age = queue[i].age + 1
      BY <2>1, <3>2 DEF Message
    <3>4. Len(queue') = Len(queue)
      BY <1>0, <2>1
    <3>5. queue'[i].age <= produceAge'
      BY <2>2, <2>3, <3>1, <3>2, <3>3 DEF Message
    <3>6. QED
      BY <3>4, <3>5 DEF Waits
  <2>7. Within(produceAge)
    BY <2>2, <2>3, ProducerAssumption DEF Within
  <2>8. QED
    BY <2>1, <2>4, <2>5, <2>6, <2>7 DEF OwedInv
<1>7. CASE UNCHANGED <<processVars, worldVars>>
  BY <1>7 DEF processVars, OwedInv, Within, Waits
<1>8. QED
  BY <1>1, <1>2, <1>3, <1>4, <1>5, <1>6, <1>7 DEF ProducerNext

LEMMA StalledIsOwed ==
  ProducerTypeOK /\ OwedInv => StalledOwesDelivery
<1> SUFFICES ASSUME ProducerTypeOK, OwedInv, Stalled
             PROVE  queue # <<>> \/ callbacks # {} \/ refused
  BY DEF StalledOwesDelivery
<1>1. Within(produceAge) /\ ~Within(deliveredAge)
  BY DEF Stalled
<1>2. ~ (deliveredAge # NotYet /\ deliveredAge <= produceAge)
  BY <1>1, ProducerAssumption DEF Within, ProducerTypeOK, Age
<1>3. Waits(produceAge) => queue # <<>>
  BY DEF Waits
<1>4. QED
  BY <1>1, <1>2, <1>3 DEF OwedInv

-----------------------------------------------------------------------------
(* The commands of a call whose registry is v: they do not depend on when   *)
(* the attempt begins, for it reads the signature the call began with.      *)

Found(b, e, v) == Atomic!Analyzed(b.record, e, v)
After(b, e, v) == AfterAlert(Found(b, e, v))
Alarming(b, e, v) == Atomic!Alerting(Found(b, e, v))
Lead(b, e, v) == IF Alarming(b, e, v) THEN 1 ELSE 0

CommandsFrom(b, e, v) ==
  (IF Alarming(b, e, v)
   THEN <<Command("publish_alert", Atomic!AlertOf(Found(b, e, v)))>> ELSE <<>>)
  \o <<Command("set_record", After(b, e, v)), Command("get_sig", b.sig)>>
  \o (IF b.sig = After(b, e, v) THEN <<>>
      ELSE <<Command("set_sig", After(b, e, v)), Command("publish_state", After(b, e, v))>>)

Snapshot == [record : Stored, sig : Stored, alert : Values, state : Values,
             loads : DOMAIN StatusUnder]

LEMMA CallIs ==
  \A c \in Call : /\ c.event \in Findings /\ c.before \in Snapshot
                  /\ c.journal \in Seq(Entry) /\ c.alerts \in Nat /\ c.cuts \in Nat
BY DEF Call, Snapshot

LEMMA Versions ==
  /\ Len(StatusUnder) \in Nat \ {0}
  /\ DOMAIN StatusUnder = 1 .. Len(StatusUnder)
  /\ \A v \in 1 .. Len(StatusUnder), e \in Findings : StatusUnder[v][e] \in Statuses
<1>1. StatusUnder \in Seq([Findings -> Statuses]) /\ StatusUnder # <<>>
  BY EgressAssumption
<1>2. QED
  BY <1>1, LenProperties, ElementOfSeq, EmptySeq

LEMMA FoundType ==
  ASSUME NEW b \in Snapshot, NEW e \in Findings, NEW v \in 1 .. Len(StatusUnder)
  PROVE  /\ Found(b, e, v) \in Atomic!TailRecord
         /\ After(b, e, v) \in Atomic!TailRecord
         /\ Atomic!AlertOf(Found(b, e, v)) \in [previous : Statuses, current : Statuses]
<1>1. Atomic!Statuses = Statuses /\ 0 \in Statuses
  BY DEF Atomic!Statuses, Statuses, Atomic!CONFIG_STATUS_UNSPECIFIED,
         CONFIG_STATUS_UNSPECIFIED, Atomic!CONFIG_STATUS_NOT_MISSION_CAPABLE,
         CONFIG_STATUS_NOT_MISSION_CAPABLE
<1>2. Found(b, e, v) \in Atomic!TailRecord
  <2>1. b.record \in Stored /\ StatusUnder[v][e] \in Statuses
    BY Versions DEF Snapshot
  <2>2. Found(b, e, v).alerted \in Statuses
    BY <1>1, <2>1 DEF Found, Atomic!Analyzed, Stored, Atomic!TailRecord,
       Atomic!CONFIG_STATUS_UNSPECIFIED
  <2>3. QED
    BY <1>1, <2>1, <2>2 DEF Found, Atomic!Analyzed, Atomic!TailRecord
<1>3. QED
  BY <1>1, <1>2 DEF After, AfterAlert, Atomic!AlertOf, Atomic!TailRecord

LEMMA OneAndTwo ==
  ASSUME NEW S, NEW a \in S, NEW b \in S, NEW c \in S
  PROVE  <<a>> \o <<b, c>> = <<a, b, c>>
<1>1. <<a>> \in Seq(S) /\ <<b, c>> \in Seq(S) /\ <<a, b, c>> \in Seq(S)
  OBVIOUS
<1>2. /\ <<a>> \o <<b, c>> \in Seq(S)
      /\ Len(<<a>> \o <<b, c>>) = Len(<<a>>) + Len(<<b, c>>)
      /\ \A i \in 1 .. Len(<<a>>) + Len(<<b, c>>) :
           (<<a>> \o <<b, c>>)[i] =
             IF i <= Len(<<a>>) THEN <<a>>[i] ELSE <<b, c>>[i - Len(<<a>>)]
  BY <1>1, ConcatProperties
<1>3. Len(<<a>> \o <<b, c>>) = 3
  BY <1>2
<1>4. \A i \in 1 .. 3 : (<<a>> \o <<b, c>>)[i] = <<a, b, c>>[i]
  BY <1>2
<1>5. QED
  BY <1>1, <1>2, <1>3, <1>4, SeqEqual

LEMMA TwoAndTwo ==
  ASSUME NEW S, NEW a \in S, NEW b \in S, NEW c \in S, NEW d \in S
  PROVE  <<a, b>> \o <<c, d>> = <<a, b, c, d>>
<1>1. <<a, b>> \in Seq(S) /\ <<c, d>> \in Seq(S) /\ <<a, b, c, d>> \in Seq(S)
  OBVIOUS
<1>2. /\ <<a, b>> \o <<c, d>> \in Seq(S)
      /\ Len(<<a, b>> \o <<c, d>>) = Len(<<a, b>>) + Len(<<c, d>>)
      /\ \A i \in 1 .. Len(<<a, b>>) + Len(<<c, d>>) :
           (<<a, b>> \o <<c, d>>)[i] =
             IF i <= Len(<<a, b>>) THEN <<a, b>>[i] ELSE <<c, d>>[i - Len(<<a, b>>)]
  BY <1>1, ConcatProperties
<1>3. Len(<<a, b>> \o <<c, d>>) = 4
  BY <1>2
<1>4. \A i \in 1 .. 4 : (<<a, b>> \o <<c, d>>)[i] = <<a, b, c, d>>[i]
  BY <1>2
<1>5. QED
  BY <1>1, <1>2, <1>3, <1>4, SeqEqual

LEMMA ThreeAndTwo ==
  ASSUME NEW S, NEW a \in S, NEW b \in S, NEW c \in S, NEW d \in S, NEW f \in S
  PROVE  <<a, b, c>> \o <<d, f>> = <<a, b, c, d, f>>
<1>1. <<a, b, c>> \in Seq(S) /\ <<d, f>> \in Seq(S) /\ <<a, b, c, d, f>> \in Seq(S)
  OBVIOUS
<1>2. /\ <<a, b, c>> \o <<d, f>> \in Seq(S)
      /\ Len(<<a, b, c>> \o <<d, f>>) = Len(<<a, b, c>>) + Len(<<d, f>>)
      /\ \A i \in 1 .. Len(<<a, b, c>>) + Len(<<d, f>>) :
           (<<a, b, c>> \o <<d, f>>)[i] =
             IF i <= Len(<<a, b, c>>) THEN <<a, b, c>>[i] ELSE <<d, f>>[i - Len(<<a, b, c>>)]
  BY <1>1, ConcatProperties
<1>3. Len(<<a, b, c>> \o <<d, f>>) = 5
  BY <1>2
<1>4. \A i \in 1 .. 5 : (<<a, b, c>> \o <<d, f>>)[i] = <<a, b, c, d, f>>[i]
  BY <1>2
<1>5. QED
  BY <1>1, <1>2, <1>3, <1>4, SeqEqual

\* At most one alert, then the record, the signature read, and when it differs
\* the signature written and the state published.
LEMMA Shape ==
  ASSUME NEW b \in Snapshot, NEW e \in Findings, NEW v \in 1 .. Len(StatusUnder)
  PROVE  LET commands == CommandsFrom(b, e, v)
             k == Lead(b, e, v)
             after == After(b, e, v)
         IN  /\ commands \in Seq(Entry)
             /\ Len(commands) = IF b.sig = after THEN k + 2 ELSE k + 4
             /\ k = 1 => commands[1] = Command("publish_alert", Atomic!AlertOf(Found(b, e, v)))
             /\ commands[k + 1] = Command("set_record", after)
             /\ commands[k + 2] = Command("get_sig", b.sig)
             /\ b.sig # after => /\ commands[k + 3] = Command("set_sig", after)
                                 /\ commands[k + 4] = Command("publish_state", after)
<1> DEFINE after == After(b, e, v)
           warning == Command("publish_alert", Atomic!AlertOf(Found(b, e, v)))
           storing == Command("set_record", after)
           reading == Command("get_sig", b.sig)
           signing == Command("set_sig", after)
           showing == Command("publish_state", after)
<1>1. {warning, storing, reading, signing, showing} \subseteq Entry
  BY FoundType DEF Command, Entry, Values, Stored, Snapshot
<1>2. CommandsFrom(b, e, v) =
        (IF Alarming(b, e, v) THEN <<warning>> ELSE <<>>)
        \o <<storing, reading>>
        \o (IF b.sig = after THEN <<>> ELSE <<signing, showing>>)
  BY DEF CommandsFrom
<1> HIDE DEF after, warning, storing, reading, signing, showing
<1>3. CASE Alarming(b, e, v) /\ b.sig = after
  <2>1. CommandsFrom(b, e, v) = <<warning, storing, reading>>
    BY <1>1, <1>2, <1>3, OneAndTwo
  <2>2. QED
    BY <1>1, <1>3, <2>1 DEF Lead, after, warning, storing, reading
<1>4. CASE Alarming(b, e, v) /\ b.sig # after
  <2>0. /\ <<warning>> \o <<storing, reading>> = <<warning, storing, reading>>
        /\ <<warning, storing, reading>> \o <<signing, showing>>
             = <<warning, storing, reading, signing, showing>>
    BY <1>1, OneAndTwo, ThreeAndTwo
  <2>1. CommandsFrom(b, e, v) = <<warning, storing, reading, signing, showing>>
    BY <1>2, <1>4, <2>0, Zenon
  <2>2. QED
    BY <1>1, <1>4, <2>1 DEF Lead, after, warning, storing, reading, signing, showing
<1>5. CASE ~Alarming(b, e, v) /\ b.sig = after
  <2>1. CommandsFrom(b, e, v) = <<storing, reading>>
    BY <1>1, <1>2, <1>5
  <2>2. QED
    BY <1>1, <1>5, <2>1 DEF Lead, after, storing, reading
<1>6. CASE ~Alarming(b, e, v) /\ b.sig # after
  <2>0. /\ <<>> \o <<storing, reading>> = <<storing, reading>>
        /\ <<storing, reading>> \o <<signing, showing>>
             = <<storing, reading, signing, showing>>
    <3>1. <<storing, reading>> \in Seq(Entry)
      BY <1>1
    <3>2. <<>> \o <<storing, reading>> = <<storing, reading>>
      BY <3>1, ConcatEmptySeq
    <3>3. <<storing, reading>> \o <<signing, showing>>
             = <<storing, reading, signing, showing>>
      BY <1>1, TwoAndTwo
    <3>4. QED
      BY <3>2, <3>3
  <2>1. CommandsFrom(b, e, v) = <<storing, reading, signing, showing>>
    BY <1>2, <1>6, <2>0, Zenon
  <2>2. QED
    BY <1>1, <1>6, <2>1 DEF Lead, after, storing, reading, signing, showing
<1>7. QED
  BY <1>3, <1>4, <1>5, <1>6

-----------------------------------------------------------------------------
(* The invariant of a call in progress.                                     *)

TailTypeOK ==
  /\ record \in Stored /\ sig \in Stored
  /\ loads \in 1 .. Len(StatusUnder)
  /\ handed \in [Topics -> Values]
  /\ call \in Call \cup {None} /\ attempt \in Attempt \cup {None}
  /\ attempt # None => call # None

\* The alert is that of the call's transition under a registry up to v.
Explained(b, e, v, alert) ==
  \E w \in b.loads .. v :
    Alarming(b, e, w) /\ alert = Atomic!AlertOf(Found(b, e, w))

\* A publish is done and not journaled.
InFlight == attempt # None /\ attempt.done

\* How far a call has come, n commands of those for registry v being
\* journaled, and what it has done to the keys and the topics so far.
Reached(b, e, v, n) ==
  LET k == Lead(b, e, v)
      after == After(b, e, v)
  IN  /\ record = IF n > k THEN after ELSE b.record
      /\ sig = IF n > k + 2 THEN after ELSE b.sig
      /\ n < k + 3 => handed[STATE_TOPIC] = b.state
      /\ handed[STATE_TOPIC] \in {b.state, after}
      /\ n > k + 3 \/ (n = k + 3 /\ InFlight) => handed[STATE_TOPIC] = after
      /\ handed[ALERT_TOPIC] = b.alert \/ Explained(b, e, v, handed[ALERT_TOPIC])
      /\ k = 1 /\ (n >= 1 \/ InFlight) => Explained(b, e, v, handed[ALERT_TOPIC])
      /\ InFlight => n < Len(CommandsFrom(b, e, v)) /\ n \in {k - 1, k + 3}
      /\ call.alerts <= call.cuts + IF k = 1 /\ (n >= 1 \/ InFlight) THEN 1 ELSE 0

\* The journal agrees with the commands for registry v.
Agreeing(b, e, v) ==
  /\ Len(call.journal) <= Len(CommandsFrom(b, e, v))
  /\ \A i \in 1 .. Len(call.journal) :
       Agrees(CommandsFrom(b, e, v)[i], call.journal[i])

\* The inductive invariant: there is a registry, loaded since the call began,
\* that accounts for everything the call has journaled and done, and it is
\* the registry of the attempt under way.
CallInv ==
  call # None =>
    \E v \in call.before.loads .. loads :
      /\ Agreeing(call.before, call.event, v)
      /\ Reached(call.before, call.event, v, Len(call.journal))
      /\ attempt # None => attempt.commands = CommandsFrom(call.before, call.event, v)

-----------------------------------------------------------------------------
(* Taking the invariant apart and putting it together again.                *)

LEMMA Pieces ==
  ASSUME TailTypeOK, CallInv, call # None
  PROVE  \E b \in Snapshot, e \in Findings, n \in Nat :
         \E v \in 1 .. Len(StatusUnder) :
           /\ b = call.before /\ e = call.event /\ n = Len(call.journal)
           /\ b.loads \in 1 .. Len(StatusUnder) /\ v \in b.loads .. loads
           /\ Agreeing(b, e, v) /\ Reached(b, e, v, n)
           /\ attempt # None => attempt.commands = CommandsFrom(b, e, v)
<1>1. call \in Call /\ loads \in 1 .. Len(StatusUnder)
  BY DEF TailTypeOK
<1>2. call.before \in Snapshot /\ call.event \in Findings /\ Len(call.journal) \in Nat
  BY <1>1, CallIs, LenProperties
<1>3. call.before.loads \in 1 .. Len(StatusUnder)
  BY <1>2, Versions DEF Snapshot
<1>4. PICK v \in call.before.loads .. loads :
        /\ Agreeing(call.before, call.event, v)
        /\ Reached(call.before, call.event, v, Len(call.journal))
        /\ attempt # None => attempt.commands = CommandsFrom(call.before, call.event, v)
  BY DEF CallInv
<1>5. v \in 1 .. Len(StatusUnder)
  BY <1>1, <1>3, <1>4, Versions
<1>6. QED
  BY <1>2, <1>3, <1>4, <1>5

LEMMA Assembled ==
  ASSUME NEW b, NEW e, NEW v, NEW n,
         call'.before = b, call'.event = e, Len(call'.journal) = n,
         v \in b.loads .. loads',
         Agreeing(b, e, v)', Reached(b, e, v, n)',
         attempt' # None => attempt'.commands = CommandsFrom(b, e, v)
  PROVE  CallInv'
BY DEF CallInv

\* The journal grows by the command it has come to.
LEMMA Journaled ==
  ASSUME TailTypeOK, call # None, attempt # None, Left, Journal,
         NEW b \in Snapshot, NEW e \in Findings, NEW v \in 1 .. Len(StatusUnder),
         NEW n \in Nat, b = call.before, e = call.event, n = Len(call.journal),
         attempt.commands = CommandsFrom(b, e, v), Agreeing(b, e, v)
  PROVE  /\ call' \in Call
         /\ call'.before = b /\ call'.event = e /\ Len(call'.journal) = n + 1
         /\ call'.alerts = call.alerts /\ call'.cuts = call.cuts
         /\ Agreeing(b, e, v)'
         /\ NextCommand = CommandsFrom(b, e, v)[n + 1]
         /\ n < Len(CommandsFrom(b, e, v))
<1> DEFINE cmds == CommandsFrom(b, e, v)
<1>1. call \in Call /\ call.journal \in Seq(Entry)
  BY CallIs DEF TailTypeOK
<1>2. cmds \in Seq(Entry) /\ Len(cmds) \in Nat
  BY Shape, LenProperties
<1> HIDE DEF cmds
<1>3. n < Len(cmds) /\ NextCommand = cmds[n + 1]
  BY DEF Left, NextCommand, cmds
<1>4. cmds[n + 1] \in Entry
  BY <1>2, <1>3, ElementOfSeq
<1>5. call' = [call EXCEPT !.journal = Append(call.journal, cmds[n + 1])]
  BY <1>3 DEF Journal
<1>6. /\ Append(call.journal, cmds[n + 1]) \in Seq(Entry)
      /\ Len(Append(call.journal, cmds[n + 1])) = n + 1
      /\ \A i \in 1 .. n : Append(call.journal, cmds[n + 1])[i] = call.journal[i]
      /\ Append(call.journal, cmds[n + 1])[n + 1] = cmds[n + 1]
  BY <1>1, <1>4, AppendProperties
<1>7. call' \in Call /\ call'.journal = Append(call.journal, cmds[n + 1])
      /\ UNCHANGED <<call.before, call.event, call.alerts, call.cuts>>
  BY <1>1, <1>5, <1>6 DEF Call
<1>8. Agrees(cmds[n + 1], cmds[n + 1])
  BY DEF Agrees
<1>9. \A i \in 1 .. n + 1 : Agrees(cmds[i], call'.journal[i])
  <2>1. \A i \in 1 .. n : Agrees(cmds[i], call.journal[i])
    BY DEF Agreeing, cmds
  <2>2. QED
    BY <1>6, <1>7, <1>8, <2>1
<1>10. Agreeing(b, e, v)'
  BY <1>2, <1>3, <1>6, <1>7, <1>9 DEF Agreeing, cmds
<1>11. QED
  BY <1>3, <1>6, <1>7, <1>10 DEF cmds

-----------------------------------------------------------------------------
(* Each step.                                                               *)

\* The call goes on.
GoesOn == call' \in Call /\ call'.before = call.before

LEMMA AcceptKeeps ==
  ASSUME TailTypeOK, NEW e \in Findings, Accept(e)
  PROVE  TailTypeOK' /\ CallInv' /\ call' \in Call /\ call'.before = Before
<1>1. attempt = None /\ attempt' = None /\ loads' = loads
      /\ UNCHANGED <<record, sig, handed>>
  BY DEF Accept, TailTypeOK
<1>2. Before \in Snapshot
  BY EgressAssumption, Versions DEF Before, Snapshot, TailTypeOK
<1>3. <<>> \in Seq(Entry) /\ Len(<<>>) = 0
  BY EmptySeq
<1>4. /\ call' \in Call /\ call'.before = Before /\ call'.event = e
      /\ call'.journal = <<>> /\ call'.alerts = 0 /\ call'.cuts = 0
  BY <1>2, <1>3 DEF Accept, Call, Snapshot
<1>5. TailTypeOK'
  BY <1>1, <1>4 DEF TailTypeOK, Accept
<1>6. PICK b \in Snapshot : b = Before
  BY <1>2
<1>7. b.loads = loads /\ loads \in b.loads .. loads' /\ loads \in 1 .. Len(StatusUnder)
  BY <1>1, <1>6, Versions DEF Before, TailTypeOK
<1>8. Len(CommandsFrom(b, e, loads)) \in Nat
  BY <1>7, Shape, LenProperties
<1>9. Agreeing(b, e, loads)'
  BY <1>1, <1>3, <1>4, <1>8 DEF Agreeing
<1>10. Lead(b, e, loads) \in {0, 1}
  BY DEF Lead
<1>11. ~InFlight'
  BY <1>1 DEF InFlight
<1>12. Reached(b, e, loads, 0)'
  BY <1>1, <1>4, <1>6, <1>10, <1>11 DEF Reached, Before
<1>13. QED
  BY <1>1, <1>3, <1>4, <1>5, <1>6, <1>7, <1>9, <1>12, Assembled

\* Where the commands are, read backwards.
LEMMA Places ==
  ASSUME NEW b \in Snapshot, NEW e \in Findings, NEW v \in 1 .. Len(StatusUnder),
         NEW i \in 1 .. Len(CommandsFrom(b, e, v))
  PROVE  LET commands == CommandsFrom(b, e, v)
             k == Lead(b, e, v)
         IN  /\ commands[i].op = "publish_alert" <=> i = k
             /\ commands[i].op = "set_record" <=> i = k + 1
             /\ commands[i].op = "get_sig" <=> i = k + 2
             /\ commands[i].op = "set_sig" <=> i = k + 3
             /\ commands[i].op = "publish_state" <=> i = k + 4
             /\ k \in {0, 1} /\ i \in Nat
<1> DEFINE commands == CommandsFrom(b, e, v)
           k == Lead(b, e, v)
<1>1. k \in {0, 1}
  BY DEF Lead
<1>2. /\ Len(commands) \in {k + 2, k + 4}
      /\ Len(commands) = k + 2 <=> b.sig = After(b, e, v)
  BY <1>1, Shape
<1>3. i \in Nat /\ i >= 1 /\ i <= Len(commands)
  BY <1>1, <1>2
<1>4. /\ k = 1 => commands[1].op = "publish_alert"
      /\ commands[k + 1].op = "set_record" /\ commands[k + 2].op = "get_sig"
      /\ Len(commands) = k + 4 => commands[k + 3].op = "set_sig"
                                  /\ commands[k + 4].op = "publish_state"
  <2>1. Len(commands) = k + 4 => b.sig # After(b, e, v)
    BY <1>1, <1>2
  <2>2. /\ k = 1 => commands[1] = Command("publish_alert", Atomic!AlertOf(Found(b, e, v)))
        /\ commands[k + 1] = Command("set_record", After(b, e, v))
        /\ commands[k + 2] = Command("get_sig", b.sig)
        /\ b.sig # After(b, e, v) =>
             /\ commands[k + 3] = Command("set_sig", After(b, e, v))
             /\ commands[k + 4] = Command("publish_state", After(b, e, v))
    BY Shape
  <2> HIDE DEF commands, k
  <2>3. QED
    BY <2>1, <2>2 DEF Command
<1> HIDE DEF commands, k
<1>5. i \in {k, k + 1, k + 2, k + 3, k + 4}
  BY <1>1, <1>2, <1>3
<1>6. CASE i = k
  BY <1>1, <1>3, <1>4, <1>6 DEF commands, k
<1>7. CASE i = k + 1
  BY <1>1, <1>3, <1>4, <1>7 DEF commands, k
<1>8. CASE i = k + 2
  BY <1>1, <1>3, <1>4, <1>8 DEF commands, k
<1>9. CASE i = k + 3
  BY <1>1, <1>2, <1>3, <1>4, <1>9 DEF commands, k
<1>10. CASE i = k + 4
  BY <1>1, <1>2, <1>3, <1>4, <1>10 DEF commands, k
<1>11. QED
  BY <1>5, <1>6, <1>7, <1>8, <1>9, <1>10

\* An attempt reads the signature the call began with, be it journaled or not
\* yet overwritten.
LEMMA ReadsTheOld ==
  ASSUME TailTypeOK, CallInv, call # None
  PROVE  SigRead = call.before.sig
<1>1. PICK b \in Snapshot, e \in Findings, n \in Nat, v \in 1 .. Len(StatusUnder) :
        /\ b = call.before /\ n = Len(call.journal)
        /\ Agreeing(b, e, v) /\ Reached(b, e, v, n)
  BY Pieces
<1> DEFINE cmds == CommandsFrom(b, e, v)
           k == Lead(b, e, v)
<1>2. DOMAIN call.journal = 1 .. n
  BY <1>1, CallIs, LenProperties DEF TailTypeOK
<1>3. k \in {0, 1} /\ Len(cmds) \in Nat /\ n <= Len(cmds)
      /\ Len(cmds) >= k + 2
      /\ cmds[k + 2] = Command("get_sig", b.sig)
  BY <1>1, Shape, LenProperties DEF Lead, Agreeing
<1>4. \A i \in 1 .. n : i \in 1 .. Len(cmds) /\ Agrees(cmds[i], call.journal[i])
  BY <1>1, <1>3 DEF Agreeing
<1>5. ASSUME NEW i \in 1 .. n, call.journal[i].op = "get_sig"
      PROVE  call.journal[i].value = b.sig
  <2>1. cmds[i].op = "get_sig" /\ ~IsPublish(cmds[i])
    BY <1>4, <1>5 DEF Agrees, IsPublish, PublishOps
  <2>2. i = k + 2
    BY <1>4, <2>1, Places
  <2>3. QED
    BY <1>3, <1>4, <2>1, <2>2 DEF Agrees, Command
<1>6. CASE SigReads = {}
  <2>1. ~ (n >= k + 2)
    <3> SUFFICES ASSUME n >= k + 2 PROVE FALSE
      OBVIOUS
    <3>1. k + 2 \in 1 .. n
      BY <1>3
    <3>2. call.journal[k + 2].op = "get_sig"
      BY <1>3, <1>4, <3>1 DEF Agrees, Command
    <3>3. call.journal[k + 2] \in SigReads
      BY <1>2, <3>1, <3>2 DEF SigReads, ToSet
    <3>4. QED
      BY <1>6, <3>3
  <2>2. sig = b.sig
    BY <1>1, <1>3, <2>1 DEF Reached
  <2>3. QED
    BY <1>1, <1>6, <2>2 DEF SigRead
<1>7. CASE SigReads # {}
  <2>1. PICK entry \in SigReads : SigRead = entry.value
    BY <1>7 DEF SigRead
  <2>2. PICK i \in 1 .. n : call.journal[i] = entry /\ entry.op = "get_sig"
    BY <1>2, <2>1 DEF SigReads, ToSet
  <2>3. QED
    BY <1>1, <1>5, <2>1, <2>2
<1>8. QED
  BY <1>6, <1>7

LEMMA ExplainedLater ==
  ASSUME NEW b \in Snapshot, NEW e, NEW v \in Nat, NEW w \in Nat, v <= w,
         NEW alert, Explained(b, e, v, alert)
  PROVE  Explained(b, e, w, alert)
<1>1. PICK u \in b.loads .. v : Alarming(b, e, u) /\ alert = Atomic!AlertOf(Found(b, e, u))
  BY DEF Explained
<1>2. b.loads \in Int
  BY Versions DEF Snapshot
<1>3. u \in b.loads .. w
  BY <1>1, <1>2
<1>4. QED
  BY <1>1, <1>3 DEF Explained

\* A replay that agrees with the journal has done what the earlier attempts
\* did, even when it looks another registry up.
LEMMA BeginKeeps ==
  ASSUME TailTypeOK, CallInv, Begin
  PROVE  TailTypeOK' /\ CallInv' /\ GoesOn
<1>1. PICK b \in Snapshot, e \in Findings, n \in Nat, v \in 1 .. Len(StatusUnder) :
        /\ b = call.before /\ e = call.event /\ n = Len(call.journal)
        /\ b.loads \in 1 .. Len(StatusUnder) /\ v \in b.loads .. loads
        /\ Agreeing(b, e, v) /\ Reached(b, e, v, n)
  BY Pieces DEF Begin
<1> DEFINE old == CommandsFrom(b, e, v)
           new == CommandsFrom(b, e, loads)
           k == Lead(b, e, v)
           j == Lead(b, e, loads)
<1>2. Commands(loads) = new
  BY <1>1, ReadsTheOld
     DEF Begin, Commands, CommandsFrom, Found, After, Alarming
<1>3. /\ attempt' = [commands |-> new, done |-> FALSE] /\ Replays(new)
      /\ attempt = None /\ call # None
      /\ UNCHANGED <<record, sig, loads, call, handed>>
  BY <1>2 DEF Begin
<1>4. loads \in 1 .. Len(StatusUnder) /\ loads \in Nat /\ v \in Nat /\ v <= loads
      /\ loads \in b.loads .. loads'
  BY <1>1, <1>3, Versions DEF TailTypeOK
<1>5. new \in Seq(Entry) /\ Len(new) \in Nat
  BY <1>4, Shape, LenProperties
<1>6. TailTypeOK'
  <2>1. attempt' \in Attempt
    BY <1>3, <1>5 DEF Attempt
  <2>2. QED
    BY <1>3, <2>1, NoneIsApart DEF TailTypeOK
<1>7. k \in {0, 1} /\ j \in {0, 1} /\ n <= Len(old) /\ n <= Len(new)
      /\ Len(old) \in Nat /\ Len(new) \in Nat
      /\ \A i \in 1 .. n : /\ Agrees(old[i], call.journal[i])
                           /\ Agrees(new[i], call.journal[i])
                           /\ i \in 1 .. Len(old) /\ i \in 1 .. Len(new)
  <2>1. DOMAIN call.journal = 1 .. n
    BY <1>1, <1>3, CallIs, LenProperties DEF TailTypeOK
  <2>2. Len(old) \in Nat
    BY Shape, LenProperties
  <2>3. QED
    BY <1>1, <1>3, <1>5, <2>1, <2>2 DEF Lead, Agreeing, Replays
<1>8. Agreeing(b, e, loads)'
  BY <1>1, <1>3, <1>7 DEF Agreeing
<1>9. n >= 1 => k = j
  <2> SUFFICES ASSUME n >= 1 PROVE k = j
    OBVIOUS
  <2>1. 1 \in 1 .. n
    OBVIOUS
  <2>2. old[1].op = new[1].op /\ 1 \in 1 .. Len(old) /\ 1 \in 1 .. Len(new)
    BY <1>7, <2>1 DEF Agrees
  <2>3. old[1].op = "publish_alert" <=> 1 = k
    BY <2>2, Places
  <2>4. new[1].op = "publish_alert" <=> 1 = j
    BY <1>4, <2>2, Places
  <2>5. QED
    BY <1>7, <2>2, <2>3, <2>4
<1>10. n > k => After(b, e, v) = After(b, e, loads)
  <2> SUFFICES ASSUME n > k PROVE After(b, e, v) = After(b, e, loads)
    OBVIOUS
  <2>1. k + 1 \in 1 .. n /\ k = j
    BY <1>7, <1>9
  <2>2. old[k + 1] = Command("set_record", After(b, e, v))
        /\ new[k + 1] = Command("set_record", After(b, e, loads))
    BY <1>4, <2>1, Shape
  <2>3. ~IsPublish(old[k + 1]) /\ ~IsPublish(new[k + 1])
    BY <2>2 DEF IsPublish, PublishOps, Command
  <2>4. old[k + 1].value = new[k + 1].value
    BY <1>7, <2>1, <2>3 DEF Agrees
  <2>5. QED
    BY <2>2, <2>4 DEF Command
<1>11. ~InFlight /\ ~InFlight'
  BY <1>3 DEF InFlight
<1>12. Explained(b, e, v, handed[ALERT_TOPIC]) => Explained(b, e, loads, handed[ALERT_TOPIC])
  BY <1>4, ExplainedLater
<1> HIDE DEF old, new
<1>13. Reached(b, e, loads, n)'
  <2>1. CASE n = 0
    BY <1>1, <1>3, <1>7, <1>11, <1>12, <2>1 DEF Reached
  <2>2. CASE n >= 1 /\ n <= k
    BY <1>1, <1>3, <1>7, <1>9, <1>11, <1>12, <2>2 DEF Reached
  <2>3. CASE n >= 1 /\ n > k
    BY <1>1, <1>3, <1>7, <1>9, <1>10, <1>11, <1>12, <2>3 DEF Reached
  <2>4. QED
    BY <1>7, <2>1, <2>2, <2>3
<1>14. QED
  BY <1>1, <1>3, <1>4, <1>6, <1>8, <1>13, Assembled DEF new, GoesOn, TailTypeOK

\* What the next command is, and where it stands.
LEMMA AttemptIs ==
  ASSUME TailTypeOK, CallInv, Running, Left
  PROVE  \E b \in Snapshot, e \in Findings, n \in Nat :
         \E v \in 1 .. Len(StatusUnder) :
           /\ b = call.before /\ e = call.event /\ n = Len(call.journal)
           /\ b.loads \in 1 .. Len(StatusUnder) /\ v \in b.loads .. loads
           /\ Agreeing(b, e, v) /\ Reached(b, e, v, n)
           /\ attempt.commands = CommandsFrom(b, e, v)
           /\ n + 1 \in 1 .. Len(CommandsFrom(b, e, v))
           /\ NextCommand = CommandsFrom(b, e, v)[n + 1]
           /\ NextCommand \in Entry
<1>1. attempt # None /\ call # None /\ call \in Call
  BY DEF Running, TailTypeOK
<1>2. PICK b \in Snapshot, e \in Findings, n \in Nat, v \in 1 .. Len(StatusUnder) :
        /\ b = call.before /\ e = call.event /\ n = Len(call.journal)
        /\ b.loads \in 1 .. Len(StatusUnder) /\ v \in b.loads .. loads
        /\ Agreeing(b, e, v) /\ Reached(b, e, v, n)
        /\ attempt.commands = CommandsFrom(b, e, v)
  BY <1>1, Pieces
<1>3. CommandsFrom(b, e, v) \in Seq(Entry) /\ Len(CommandsFrom(b, e, v)) \in Nat
  BY Shape, LenProperties
<1>4. n + 1 \in 1 .. Len(CommandsFrom(b, e, v))
      /\ NextCommand = CommandsFrom(b, e, v)[n + 1]
  BY <1>2, <1>3 DEF Left, NextCommand
<1>5. NextCommand \in Entry
  BY <1>3, <1>4, ElementOfSeq
<1>6. QED
  BY <1>2, <1>4, <1>5

LEMMA SetRecordKeeps ==
  ASSUME TailTypeOK, CallInv, SetRecord
  PROVE  TailTypeOK' /\ CallInv' /\ GoesOn
<1>1. /\ Running /\ Left /\ ~attempt.done /\ NextCommand.op = "set_record" /\ Journal
      /\ record' = NextCommand.value
      /\ UNCHANGED <<sig, loads, attempt, handed>>
  BY DEF SetRecord, Doing
<1>2. PICK b \in Snapshot, e \in Findings, n \in Nat, v \in 1 .. Len(StatusUnder) :
        /\ b = call.before /\ e = call.event /\ n = Len(call.journal)
        /\ b.loads \in 1 .. Len(StatusUnder) /\ v \in b.loads .. loads
        /\ Agreeing(b, e, v) /\ Reached(b, e, v, n)
        /\ attempt.commands = CommandsFrom(b, e, v)
        /\ n + 1 \in 1 .. Len(CommandsFrom(b, e, v))
        /\ NextCommand = CommandsFrom(b, e, v)[n + 1]
  BY <1>1, AttemptIs
<1>3. attempt # None /\ call # None
  BY <1>1 DEF Running, TailTypeOK
<1>4. /\ call' \in Call
      /\ call'.before = b /\ call'.event = e /\ Len(call'.journal) = n + 1
      /\ call'.alerts = call.alerts /\ call'.cuts = call.cuts
      /\ Agreeing(b, e, v)'
  BY <1>1, <1>2, <1>3, Journaled
<1>5. n = Lead(b, e, v) /\ Lead(b, e, v) \in {0, 1}
  BY <1>1, <1>2, Places
<1>6. record' = After(b, e, v)
  <2>1. NextCommand = Command("set_record", After(b, e, v))
    BY <1>2, <1>5, Shape
  <2>2. QED
    BY <1>1, <2>1 DEF Command
<1>7. TailTypeOK'
  BY <1>1, <1>4, <1>6, FoundType, NoneIsApart DEF TailTypeOK, Stored
<1>8. ~InFlight /\ ~InFlight'
  BY <1>1 DEF InFlight
<1>9. Reached(b, e, v, n + 1)'
  BY <1>1, <1>2, <1>4, <1>5, <1>6, <1>8 DEF Reached
<1>10. QED
  BY <1>1, <1>2, <1>4, <1>7, <1>9, Assembled DEF GoesOn

LEMMA GetSigKeeps ==
  ASSUME TailTypeOK, CallInv, GetSig
  PROVE  TailTypeOK' /\ CallInv' /\ GoesOn
<1>1. /\ Running /\ Left /\ ~attempt.done /\ NextCommand.op = "get_sig" /\ Journal
      /\ UNCHANGED <<record, sig, loads, attempt, handed>>
  BY DEF GetSig, Doing
<1>2. PICK b \in Snapshot, e \in Findings, n \in Nat, v \in 1 .. Len(StatusUnder) :
        /\ b = call.before /\ e = call.event /\ n = Len(call.journal)
        /\ b.loads \in 1 .. Len(StatusUnder) /\ v \in b.loads .. loads
        /\ Agreeing(b, e, v) /\ Reached(b, e, v, n)
        /\ attempt.commands = CommandsFrom(b, e, v)
        /\ n + 1 \in 1 .. Len(CommandsFrom(b, e, v))
        /\ NextCommand = CommandsFrom(b, e, v)[n + 1]
  BY <1>1, AttemptIs
<1>3. attempt # None /\ call # None
  BY <1>1 DEF Running, TailTypeOK
<1>4. /\ call' \in Call
      /\ call'.before = b /\ call'.event = e /\ Len(call'.journal) = n + 1
      /\ call'.alerts = call.alerts /\ call'.cuts = call.cuts
      /\ Agreeing(b, e, v)'
  BY <1>1, <1>2, <1>3, Journaled
<1>5. n = Lead(b, e, v) + 1 /\ Lead(b, e, v) \in {0, 1}
  BY <1>1, <1>2, Places
<1>6. TailTypeOK'
  BY <1>1, <1>4, NoneIsApart DEF TailTypeOK
<1>7. ~InFlight /\ ~InFlight'
  BY <1>1 DEF InFlight
<1>8. Reached(b, e, v, n + 1)'
  BY <1>1, <1>2, <1>4, <1>5, <1>7 DEF Reached
<1>9. QED
  BY <1>1, <1>2, <1>4, <1>6, <1>8, Assembled DEF GoesOn

LEMMA SetSigKeeps ==
  ASSUME TailTypeOK, CallInv, SetSig
  PROVE  TailTypeOK' /\ CallInv' /\ GoesOn
<1>1. /\ Running /\ Left /\ ~attempt.done /\ NextCommand.op = "set_sig" /\ Journal
      /\ sig' = NextCommand.value
      /\ UNCHANGED <<record, loads, attempt, handed>>
  BY DEF SetSig, Doing
<1>2. PICK b \in Snapshot, e \in Findings, n \in Nat, v \in 1 .. Len(StatusUnder) :
        /\ b = call.before /\ e = call.event /\ n = Len(call.journal)
        /\ b.loads \in 1 .. Len(StatusUnder) /\ v \in b.loads .. loads
        /\ Agreeing(b, e, v) /\ Reached(b, e, v, n)
        /\ attempt.commands = CommandsFrom(b, e, v)
        /\ n + 1 \in 1 .. Len(CommandsFrom(b, e, v))
        /\ NextCommand = CommandsFrom(b, e, v)[n + 1]
  BY <1>1, AttemptIs
<1>3. attempt # None /\ call # None
  BY <1>1 DEF Running, TailTypeOK
<1>4. /\ call' \in Call
      /\ call'.before = b /\ call'.event = e /\ Len(call'.journal) = n + 1
      /\ call'.alerts = call.alerts /\ call'.cuts = call.cuts
      /\ Agreeing(b, e, v)'
  BY <1>1, <1>2, <1>3, Journaled
<1>5. n = Lead(b, e, v) + 2 /\ Lead(b, e, v) \in {0, 1}
  BY <1>1, <1>2, Places
<1>6. b.sig # After(b, e, v)
  BY <1>2, <1>5, Shape
<1>7. sig' = After(b, e, v)
  <2>1. NextCommand = Command("set_sig", After(b, e, v))
    BY <1>2, <1>5, <1>6, Shape
  <2>2. QED
    BY <1>1, <2>1 DEF Command
<1>8. TailTypeOK'
  BY <1>1, <1>4, <1>7, FoundType, NoneIsApart DEF TailTypeOK, Stored
<1>9. ~InFlight /\ ~InFlight'
  BY <1>1 DEF InFlight
<1>10. Reached(b, e, v, n + 1)'
  BY <1>1, <1>2, <1>4, <1>5, <1>7, <1>9 DEF Reached
<1>11. QED
  BY <1>1, <1>2, <1>4, <1>8, <1>10, Assembled DEF GoesOn

\* ctx.run journals a publish that is done.
LEMMA AcknowledgeKeeps ==
  ASSUME TailTypeOK, CallInv, Acknowledge
  PROVE  TailTypeOK' /\ CallInv' /\ GoesOn
<1>1. /\ Running /\ attempt.done /\ Journal
      /\ attempt' = [attempt EXCEPT !.done = FALSE]
      /\ UNCHANGED <<record, sig, loads, handed>>
  BY DEF Acknowledge
<1>2. attempt # None /\ call # None /\ attempt \in Attempt /\ InFlight
  BY <1>1 DEF Running, TailTypeOK, InFlight
<1>3. Left
  <2>1. PICK b \in Snapshot, e \in Findings, n \in Nat, v \in 1 .. Len(StatusUnder) :
          /\ n = Len(call.journal) /\ Reached(b, e, v, n)
          /\ attempt.commands = CommandsFrom(b, e, v)
    BY <1>2, Pieces
  <2>2. QED
    BY <1>2, <2>1 DEF Left, Reached
<1>4. PICK b \in Snapshot, e \in Findings, n \in Nat, v \in 1 .. Len(StatusUnder) :
        /\ b = call.before /\ e = call.event /\ n = Len(call.journal)
        /\ b.loads \in 1 .. Len(StatusUnder) /\ v \in b.loads .. loads
        /\ Agreeing(b, e, v) /\ Reached(b, e, v, n)
        /\ attempt.commands = CommandsFrom(b, e, v)
        /\ n + 1 \in 1 .. Len(CommandsFrom(b, e, v))
  BY <1>1, <1>3, AttemptIs
<1>5. /\ call' \in Call
      /\ call'.before = b /\ call'.event = e /\ Len(call'.journal) = n + 1
      /\ call'.alerts = call.alerts /\ call'.cuts = call.cuts
      /\ Agreeing(b, e, v)'
  BY <1>1, <1>2, <1>3, <1>4, Journaled
<1>6. attempt' \in Attempt /\ attempt'.commands = attempt.commands /\ ~attempt'.done
  BY <1>1, <1>2 DEF Attempt
<1>7. TailTypeOK'
  BY <1>1, <1>5, <1>6, NoneIsApart DEF TailTypeOK
<1>8. ~InFlight'
  BY <1>6 DEF InFlight
<1>9. Lead(b, e, v) \in {0, 1}
  BY DEF Lead
<1>10. Reached(b, e, v, n + 1)'
  BY <1>1, <1>2, <1>4, <1>5, <1>8, <1>9 DEF Reached
<1>11. QED
  BY <1>1, <1>4, <1>5, <1>6, <1>7, <1>10, Assembled DEF GoesOn

\* The effect of ctx.run, journaled or not.
LEMMA PublishKeeps ==
  ASSUME TailTypeOK, CallInv, Publish
  PROVE  TailTypeOK' /\ CallInv' /\ GoesOn
<1>1. /\ Running /\ Left /\ ~attempt.done /\ NextCommand.op \in PublishOps
      /\ handed' = [handed EXCEPT ![TopicOf(NextCommand)] = NextCommand.value]
      /\ attempt' = [attempt EXCEPT !.done = TRUE]
      /\ call' = [call EXCEPT !.alerts = IF NextCommand.op = "publish_alert"
                                         THEN call.alerts + 1 ELSE call.alerts]
      /\ UNCHANGED <<record, sig, loads>>
  BY DEF Publish, Doing
<1>2. attempt # None /\ call # None /\ attempt \in Attempt /\ call \in Call
      /\ ~InFlight
  BY <1>1 DEF Running, TailTypeOK, InFlight
<1>3. PICK b \in Snapshot, e \in Findings, n \in Nat, v \in 1 .. Len(StatusUnder) :
        /\ b = call.before /\ e = call.event /\ n = Len(call.journal)
        /\ b.loads \in 1 .. Len(StatusUnder) /\ v \in b.loads .. loads
        /\ Agreeing(b, e, v) /\ Reached(b, e, v, n)
        /\ attempt.commands = CommandsFrom(b, e, v)
        /\ n + 1 \in 1 .. Len(CommandsFrom(b, e, v))
        /\ NextCommand = CommandsFrom(b, e, v)[n + 1] /\ NextCommand \in Entry
  BY <1>1, AttemptIs
<1> DEFINE k == Lead(b, e, v)
<1>4. /\ call' \in Call /\ call'.before = b /\ call'.event = e
      /\ call'.journal = call.journal /\ call'.cuts = call.cuts
      /\ call'.alerts = IF NextCommand.op = "publish_alert"
                        THEN call.alerts + 1 ELSE call.alerts
      /\ call.alerts \in Nat /\ call.cuts \in Nat
  <2>1. call.alerts \in Nat /\ call.cuts \in Nat
    BY <1>2, CallIs
  <2>2. CASE NextCommand.op = "publish_alert"
    <3>1. call' = [call EXCEPT !.alerts = call.alerts + 1] /\ call.alerts + 1 \in Nat
      BY <1>1, <2>1, <2>2
    <3>2. QED
      BY <1>2, <1>3, <2>1, <2>2, <3>1 DEF Call
  <2>3. CASE NextCommand.op # "publish_alert"
    <3>1. call' = [call EXCEPT !.alerts = call.alerts]
      BY <1>1, <2>3
    <3>2. QED
      BY <1>2, <1>3, <2>1, <2>3, <3>1 DEF Call
  <2>4. QED
    BY <2>2, <2>3
<1>5. /\ attempt' \in Attempt /\ attempt'.commands = attempt.commands
      /\ attempt'.done = TRUE
  BY <1>1, <1>2 DEF Attempt
<1>6. InFlight'
  BY <1>5, NoneIsApart DEF InFlight
<1>7. handed' \in [Topics -> Values]
  <2>1. NextCommand.value \in Values
    BY <1>3 DEF Entry
  <2>2. QED
    BY <1>1, <2>1 DEF TailTypeOK
<1>8. TailTypeOK'
  BY <1>1, <1>4, <1>5, <1>7, NoneIsApart DEF TailTypeOK
<1>9. Agreeing(b, e, v)'
  BY <1>3, <1>4 DEF Agreeing
<1>10. k \in {0, 1}
  BY DEF Lead
<1>11. CASE NextCommand.op = "publish_alert"
  <2>1. n = 0 /\ k = 1
    <3>1. n + 1 = k
      BY <1>3, <1>11, Places
    <3>2. QED
      BY <1>10, <3>1
  <2>2. NextCommand.value = Atomic!AlertOf(Found(b, e, v)) /\ Alarming(b, e, v)
    <3>1. NextCommand = Command("publish_alert", Atomic!AlertOf(Found(b, e, v)))
      BY <1>3, <2>1, Shape
    <3>2. QED
      BY <2>1, <3>1 DEF Command, Lead
  <2>3. handed'[ALERT_TOPIC] = NextCommand.value
        /\ handed'[STATE_TOPIC] = handed[STATE_TOPIC]
    BY <1>1, <1>11, EgressAssumption DEF TopicOf, TailTypeOK
  <2>4. Explained(b, e, v, handed[ALERT_TOPIC])'
    <3>1. v \in b.loads .. v
      BY <1>3
    <3>2. QED
      BY <2>2, <2>3, <3>1 DEF Explained
  <2>5. Reached(b, e, v, n)'
    BY <1>1, <1>2, <1>3, <1>4, <1>6, <1>11, <2>1, <2>3, <2>4 DEF Reached
  <2>6. QED
    BY <1>1, <1>3, <1>4, <1>5, <1>8, <1>9, <2>5, Assembled DEF GoesOn
<1>12. CASE NextCommand.op = "publish_state"
  <2>1. n = k + 3
    BY <1>3, <1>10, <1>12, Places
  <2>2. b.sig # After(b, e, v)
    BY <1>3, <1>10, <2>1, Shape
  <2>3. NextCommand.value = After(b, e, v)
    <3>1. NextCommand = Command("publish_state", After(b, e, v))
      BY <1>3, <1>10, <2>1, <2>2, Shape
    <3>2. QED
      BY <3>1 DEF Command
  <2>4. handed'[STATE_TOPIC] = NextCommand.value
        /\ handed'[ALERT_TOPIC] = handed[ALERT_TOPIC]
    BY <1>1, <1>12, EgressAssumption DEF TopicOf, TailTypeOK
  <2>5. Explained(b, e, v, handed[ALERT_TOPIC]) => Explained(b, e, v, handed[ALERT_TOPIC])'
    BY <2>4 DEF Explained
  <2>6. Reached(b, e, v, n)'
    BY <1>1, <1>2, <1>3, <1>4, <1>6, <1>10, <1>12, <2>1, <2>3, <2>4, <2>5 DEF Reached
  <2>7. QED
    BY <1>1, <1>3, <1>4, <1>5, <1>8, <1>9, <2>6, Assembled DEF GoesOn
<1>13. QED
  BY <1>1, <1>11, <1>12 DEF PublishOps

LEMMA RaisesKeeps ==
  ASSUME TailTypeOK, CallInv, PublishRaises
  PROVE  TailTypeOK' /\ CallInv' /\ GoesOn
<1>1. /\ Running /\ Left /\ ~attempt.done /\ attempt' = None
      /\ UNCHANGED <<record, sig, loads, call, handed>>
  BY DEF PublishRaises, Doing
<1>2. PICK b \in Snapshot, e \in Findings, n \in Nat, v \in 1 .. Len(StatusUnder) :
        /\ b = call.before /\ e = call.event /\ n = Len(call.journal)
        /\ v \in b.loads .. loads
        /\ Agreeing(b, e, v) /\ Reached(b, e, v, n)
  BY <1>1, AttemptIs
<1>3. ~InFlight /\ ~InFlight'
  BY <1>1 DEF InFlight
<1>4. TailTypeOK'
  BY <1>1 DEF TailTypeOK
<1>5. Agreeing(b, e, v)' /\ Reached(b, e, v, n)'
  BY <1>1, <1>2, <1>3 DEF Agreeing, Reached
<1>6. QED
  BY <1>1, <1>2, <1>4, <1>5, Assembled DEF GoesOn, Running, TailTypeOK

\* An attempt that is lost leaves what it has done; a publish that was not
\* journaled is one the next attempt will do again.
LEMMA CutOffKeeps ==
  ASSUME TailTypeOK, CallInv, CutOff, UNCHANGED <<record, sig, loads, handed>>
  PROVE  /\ TailTypeOK' /\ CallInv'
         /\ IF call = None THEN call' = None ELSE GoesOn
<1>1. /\ attempt' = None
      /\ call' = IF InFlight THEN [call EXCEPT !.cuts = call.cuts + 1] ELSE call
  BY DEF CutOff, InFlight
<1>2. CASE call = None
  <2>1. attempt = None /\ call' = None
    BY <1>1, <1>2 DEF TailTypeOK, InFlight
  <2>2. QED
    BY <1>1, <1>2, <2>1 DEF TailTypeOK, CallInv
<1>3. CASE call # None
  <2>1. PICK b \in Snapshot, e \in Findings, n \in Nat, v \in 1 .. Len(StatusUnder) :
          /\ b = call.before /\ e = call.event /\ n = Len(call.journal)
          /\ v \in b.loads .. loads
          /\ Agreeing(b, e, v) /\ Reached(b, e, v, n)
    BY <1>3, Pieces
  <2>2. call \in Call /\ call.alerts \in Nat /\ call.cuts \in Nat
    BY <1>3, CallIs DEF TailTypeOK
  <2>3. /\ call' \in Call /\ call'.before = b /\ call'.event = e
        /\ call'.journal = call.journal /\ call'.alerts = call.alerts
        /\ call'.cuts = IF InFlight THEN call.cuts + 1 ELSE call.cuts
    <3>1. CASE InFlight
      <4>1. call.cuts + 1 \in Nat
        BY <2>2
      <4>2. QED
        BY <1>1, <2>1, <2>2, <3>1, <4>1 DEF Call
    <3>2. CASE ~InFlight
      BY <1>1, <2>1, <2>2, <3>2
    <3>3. QED
      BY <3>1, <3>2
  <2>4. TailTypeOK'
    BY <1>1, <2>3 DEF TailTypeOK
  <2>5. ~InFlight'
    BY <1>1 DEF InFlight
  <2>6. Lead(b, e, v) \in {0, 1}
    BY DEF Lead
  <2>7. Agreeing(b, e, v)' /\ Reached(b, e, v, n)'
    BY <2>1, <2>2, <2>3, <2>5, <2>6 DEF Agreeing, Reached
  <2>8. QED
    BY <1>1, <1>3, <2>1, <2>3, <2>4, <2>7, Assembled DEF GoesOn
<1>4. QED
  BY <1>2, <1>3

LEMMA ReloadKeeps ==
  ASSUME TailTypeOK, CallInv, Reload
  PROVE  TailTypeOK' /\ CallInv'
<1>1. /\ loads' = loads + 1 /\ loads < Len(StatusUnder)
      /\ UNCHANGED <<record, sig, call, attempt, handed>>
  BY DEF Reload
<1>2. TailTypeOK'
  BY <1>1, Versions DEF TailTypeOK
<1>3. CASE call = None
  BY <1>1, <1>2, <1>3 DEF CallInv
<1>4. CASE call # None
  <2>1. PICK b \in Snapshot, e \in Findings, n \in Nat, v \in 1 .. Len(StatusUnder) :
          /\ b = call.before /\ e = call.event /\ n = Len(call.journal)
          /\ b.loads \in 1 .. Len(StatusUnder) /\ v \in b.loads .. loads
          /\ Agreeing(b, e, v) /\ Reached(b, e, v, n)
          /\ attempt # None => attempt.commands = CommandsFrom(b, e, v)
    BY <1>4, Pieces
  <2>2. v \in b.loads .. loads'
    BY <1>1, <2>1, Versions DEF TailTypeOK
  <2>3. Agreeing(b, e, v)' /\ Reached(b, e, v, n)'
    BY <1>1, <2>1 DEF Agreeing, Reached, InFlight
  <2>4. QED
    BY <1>1, <1>2, <2>1, <2>2, <2>3, Assembled
<1>5. QED
  BY <1>3, <1>4

\* A complete call has taken effect as one atomic handler.
Takes(c) ==
  \E v \in c.before.loads .. loads :
    LET after == After(c.before, c.event, v)
    IN  /\ record = after /\ sig = after
        /\ handed[STATE_TOPIC] = IF c.before.sig = after THEN c.before.state ELSE after
        /\ \/ Explained(c.before, c.event, v, handed[ALERT_TOPIC])
           \/ ~Alarming(c.before, c.event, v) /\ handed[ALERT_TOPIC] = c.before.alert

LEMMA CompleteTakes ==
  ASSUME TailTypeOK, CallInv, Complete
  PROVE  Takes(call)
<1>1. Running /\ ~Left /\ attempt # None /\ call # None
  BY DEF Complete, Running, TailTypeOK
<1>2. PICK b \in Snapshot, e \in Findings, n \in Nat, v \in 1 .. Len(StatusUnder) :
        /\ b = call.before /\ e = call.event /\ n = Len(call.journal)
        /\ b.loads \in 1 .. Len(StatusUnder) /\ v \in b.loads .. loads
        /\ Agreeing(b, e, v) /\ Reached(b, e, v, n)
        /\ attempt.commands = CommandsFrom(b, e, v)
  BY <1>1, Pieces
<1>3. Lead(b, e, v) \in {0, 1} /\ (Lead(b, e, v) = 1 <=> Alarming(b, e, v))
  BY DEF Lead
<1>4. n = IF b.sig = After(b, e, v) THEN Lead(b, e, v) + 2 ELSE Lead(b, e, v) + 4
  <2>1. Len(CommandsFrom(b, e, v))
          = IF b.sig = After(b, e, v) THEN Lead(b, e, v) + 2 ELSE Lead(b, e, v) + 4
    BY Shape
  <2>2. QED
    BY <1>1, <1>2, <1>3, <2>1 DEF Left, Agreeing
<1>5. /\ record = After(b, e, v) /\ sig = After(b, e, v)
      /\ handed[STATE_TOPIC] = IF b.sig = After(b, e, v) THEN b.state ELSE After(b, e, v)
      /\ \/ Explained(b, e, v, handed[ALERT_TOPIC])
         \/ ~Alarming(b, e, v) /\ handed[ALERT_TOPIC] = b.alert
  BY <1>2, <1>3, <1>4 DEF Reached
<1>6. QED
  BY <1>2, <1>5 DEF Takes

LEMMA CompleteKeeps ==
  ASSUME TailTypeOK, Complete
  PROVE  TailTypeOK' /\ CallInv'
BY DEF Complete, TailTypeOK, CallInv

LEMMA RestKeeps ==
  ASSUME TailTypeOK, CallInv, UNCHANGED <<record, sig, loads, call, attempt, handed>>
  PROVE  TailTypeOK' /\ CallInv' /\ Seen' = Seen
<1>1. TailTypeOK'
  BY DEF TailTypeOK
<1>2. Seen' = Seen
  BY DEF Seen, Before
<1>3. CASE call = None
  BY <1>1, <1>2, <1>3 DEF CallInv
<1>4. CASE call # None
  <2>1. PICK b \in Snapshot, e \in Findings, n \in Nat, v \in 1 .. Len(StatusUnder) :
          /\ b = call.before /\ e = call.event /\ n = Len(call.journal)
          /\ v \in b.loads .. loads
          /\ Agreeing(b, e, v) /\ Reached(b, e, v, n)
          /\ attempt # None => attempt.commands = CommandsFrom(b, e, v)
    BY <1>4, Pieces
  <2>2. Agreeing(b, e, v)' /\ Reached(b, e, v, n)'
    BY <2>1 DEF Agreeing, Reached, InFlight
  <2>3. QED
    BY <1>1, <1>2, <2>1, <2>2, Assembled
<1>5. QED
  BY <1>3, <1>4

-----------------------------------------------------------------------------
(* A step, seen from outside.                                               *)

LEMMA SameAlerts ==
  \A r : /\ Atomic!AfterAlert(r) = AfterAlert(r)
         /\ Atomic!Alerting(r) <=> Atomic!Detected(r) \/ Atomic!Resolved(r)
BY DEF Atomic!AfterAlert, AfterAlert, Atomic!Alerting, Atomic!Detected, Detected,
       Atomic!Resolved, Resolved,
       Atomic!CONFIG_STATUS_MAJOR_DISCREPANCY, CONFIG_STATUS_MAJOR_DISCREPANCY,
       Atomic!CONFIG_STATUS_IN_COMPLIANCE, CONFIG_STATUS_IN_COMPLIANCE

\* While a call goes on nothing of it is seen.
LEMMA NothingIsSeen ==
  TailTypeOK /\ call # None /\ GoesOn => Seen' = Seen
BY NoneIsApart DEF TailTypeOK, GoesOn, Seen

\* When it completes, all of it is.
LEMMA CompleteIsSeen ==
  ASSUME TailTypeOK, CallInv, Complete
  PROVE  Atomic!Handle(call.event)
<1> DEFINE b == call.before
           e == call.event
<1>1. call \in Call /\ call # None /\ call' = None
      /\ UNCHANGED <<record, sig, loads, handed>>
  BY DEF Complete, Running, TailTypeOK
<1>2. PICK v \in b.loads .. loads :
        /\ record = After(b, e, v) /\ sig = After(b, e, v)
        /\ handed[STATE_TOPIC] = IF b.sig = After(b, e, v) THEN b.state
                                 ELSE After(b, e, v)
        /\ \/ Explained(b, e, v, handed[ALERT_TOPIC])
           \/ ~Alarming(b, e, v) /\ handed[ALERT_TOPIC] = b.alert
  BY CompleteTakes DEF Takes
<1>3. Seen = b
  BY <1>1 DEF Seen
<1>4. /\ Seen'.record = record /\ Seen'.sig = sig /\ Seen'.loads = loads
      /\ Seen'.alert = handed[ALERT_TOPIC] /\ Seen'.state = handed[STATE_TOPIC]
  BY <1>1 DEF Seen, Before
<1>5. b.loads \in Nat /\ loads \in b.loads .. Len(StatusUnder)
  <2>1. b.loads \in 1 .. Len(StatusUnder) /\ loads \in 1 .. Len(StatusUnder)
    BY <1>1, CallIs, Versions DEF Snapshot, TailTypeOK
  <2>2. QED
    BY <1>2, <2>1, Versions
<1>6. Atomic!AfterAlert(Atomic!Analyzed(b.record, e, v)) = After(b, e, v)
  BY SameAlerts DEF After, Found
<1>7. \/ ~Atomic!Alerting(Atomic!Analyzed(b.record, e, v))
         /\ handed[ALERT_TOPIC] = b.alert
      \/ \E w \in b.loads .. v :
           /\ Atomic!Alerting(Atomic!Analyzed(b.record, e, w))
           /\ handed[ALERT_TOPIC] = Atomic!AlertOf(Atomic!Analyzed(b.record, e, w))
  BY <1>2 DEF Explained, Alarming, Found
<1> HIDE DEF b, e
<1>8. QED
  BY <1>2, <1>3, <1>4, <1>5, <1>6, <1>7 DEF Atomic!Handle, e

\* The safety of a call is inductive, and each step of it is one of the
\* atomic handler's, a reload, or nothing.
LEMMA NextCall ==
  ASSUME TailTypeOK, CallInv, [EgressNext]_egressVars
  PROVE  TailTypeOK' /\ CallInv' /\ [Atomic!Next]_(Atomic!atomicVars)
<1>0. Seen' = Seen => UNCHANGED Atomic!atomicVars
  BY DEF Atomic!atomicVars
<1>1. ASSUME NEW e \in Findings, Accept(e)
      PROVE  TailTypeOK' /\ CallInv' /\ [Atomic!Next]_(Atomic!atomicVars)
  <2>1. TailTypeOK' /\ CallInv' /\ call' \in Call /\ call'.before = Before
    BY <1>1, AcceptKeeps
  <2>2. Seen' = Seen
    BY <1>1, <2>1, NoneIsApart DEF Seen, Accept
  <2>3. QED
    BY <1>0, <2>1, <2>2
<1>2. CASE \/ Begin \/ SetRecord \/ GetSig \/ SetSig \/ Publish \/ PublishRaises
           \/ Acknowledge
  <2>1. TailTypeOK' /\ CallInv' /\ GoesOn
    BY <1>2, BeginKeeps, SetRecordKeeps, GetSigKeeps, SetSigKeeps, PublishKeeps,
       RaisesKeeps, AcknowledgeKeeps
  <2>2. call # None
    BY <1>2 DEF Begin, SetRecord, GetSig, SetSig, Publish, PublishRaises, Acknowledge,
                Doing, Running, TailTypeOK
  <2>3. QED
    BY <1>0, <2>1, <2>2, NothingIsSeen
<1>3. CASE Complete
  <2>1. TailTypeOK' /\ CallInv' /\ Atomic!Handle(call.event)
    BY <1>3, CompleteKeeps, CompleteIsSeen
  <2>2. call.event \in Findings
    BY <1>3, CallIs DEF Complete, Running, TailTypeOK
  <2>3. QED
    BY <2>1, <2>2 DEF Atomic!Next
<1>4. CASE LoseAttempt \/ ProcessDies
  <2>1. CutOff /\ UNCHANGED <<record, sig, loads, handed>>
    BY <1>4 DEF LoseAttempt, ProcessDies, DiesOf
  <2>2. /\ TailTypeOK' /\ CallInv'
        /\ IF call = None THEN call' = None ELSE GoesOn
    BY <2>1, CutOffKeeps
  <2>3. Seen' = Seen
    BY <2>1, <2>2, NothingIsSeen DEF Seen, Before
  <2>4. QED
    BY <1>0, <2>2, <2>3
<1>5. CASE Reload
  <2>1. TailTypeOK' /\ CallInv'
    BY <1>5, ReloadKeeps
  <2>2. CASE call = None
    <3>1. /\ Seen.loads = loads /\ Seen'.loads = loads'
          /\ UNCHANGED <<Seen.record, Seen.sig, Seen.alert, Seen.state>>
      BY <1>5, <2>2 DEF Reload, Seen, Before
    <3>2. Atomic!Reload
      BY <1>5, <3>1 DEF Reload, Atomic!Reload
    <3>3. QED
      BY <2>1, <3>2 DEF Atomic!Next
  <2>3. CASE call # None
    <3>1. GoesOn
      BY <1>5, <2>3 DEF Reload, GoesOn, TailTypeOK
    <3>2. QED
      BY <1>0, <2>1, <2>3, <3>1, NothingIsSeen
  <2>4. QED
    BY <2>2, <2>3
<1>6. CASE TimePasses \/ ProducerSettles \/ (Breaks /\ UNCHANGED tailVars)
           \/ UNCHANGED egressVars
  <2>1. UNCHANGED <<record, sig, loads, call, attempt, handed>>
    BY <1>6 DEF TimePasses, ProducerSettles, egressVars, tailVars
  <2>2. QED
    BY <1>0, <2>1, RestKeeps
<1>7. QED
  BY <1>1, <1>2, <1>3, <1>4, <1>5, <1>6 DEF EgressNext, Handler

\* For the producer each step is one of its own.
LEMMA ProducerSteps ==
  ASSUME TailTypeOK, CallInv, [EgressNext]_egressVars
  PROVE  ProducerNext
<1>1. CASE Publish
  <2>1. Running /\ Left /\ Enqueue(TopicOf(NextCommand), NextCommand.value)
    BY <1>1 DEF Publish, Doing
  <2>2. NextCommand.value \in Values
    BY <2>1, AttemptIs DEF Entry
  <2>3. TopicOf(NextCommand) \in Topics
    BY EgressAssumption DEF TopicOf
  <2>4. QED
    BY <2>1, <2>2, <2>3 DEF ProducerNext
<1>2. CASE PublishRaises
  BY <1>2 DEF PublishRaises, ProducerNext
<1>3. CASE (\E e \in Findings : Accept(e)) \/ Begin \/ SetRecord \/ GetSig \/ SetSig
           \/ Acknowledge \/ Complete \/ LoseAttempt \/ Reload \/ UNCHANGED egressVars
  <2>1. UNCHANGED <<processVars, worldVars>>
    BY <1>3 DEF Accept, Begin, SetRecord, GetSig, SetSig, Acknowledge, Complete,
                LoseAttempt, Reload, producerVars, egressVars
  <2>2. QED
    BY <2>1 DEF ProducerNext
<1>4. CASE ProcessDies
  BY <1>4 DEF ProcessDies, DiesOf, ProducerNext
<1>5. CASE TimePasses \/ ProducerSettles \/ Breaks
  BY <1>5 DEF TimePasses, ProducerSettles, ProducerNext
<1>6. QED
  BY <1>1, <1>2, <1>3, <1>4, <1>5 DEF EgressNext, Handler

-----------------------------------------------------------------------------
LEMMA InitTail ==
  EgressInit => TailTypeOK /\ CallInv /\ Atomic!Init
<1> SUFFICES ASSUME EgressInit PROVE TailTypeOK /\ CallInv /\ Atomic!Init
  OBVIOUS
<1>1. None \in Stored /\ None \in Values /\ 1 \in 1 .. Len(StatusUnder)
  BY Versions DEF Stored, Values
<1>2. TailTypeOK
  BY <1>1 DEF EgressInit, TailTypeOK
<1>3. CallInv
  BY DEF EgressInit, CallInv
<1>4. /\ Seen.record = None /\ Seen.sig = None /\ Seen.alert = None
      /\ Seen.state = None /\ Seen.loads = 1
  BY EgressAssumption DEF EgressInit, Seen, Before
<1>5. QED
  BY <1>2, <1>3, <1>4 DEF Atomic!Init

LEMMA InitProducer ==
  EgressInit => ProducerTypeOK /\ WedgeInv /\ OwedInv
<1> SUFFICES ASSUME EgressInit PROVE ProducerTypeOK /\ WedgeInv /\ OwedInv
  OBVIOUS
<1>1. <<>> \in Seq(Message) /\ 0 \in 0 .. STALL_WINDOW + 1
  BY EmptySeq, ProducerAssumption
<1>2. QED
  BY <1>1 DEF EgressInit, ProducerInit, ProducerTypeOK, WedgeInv, OwedInv, Within, Age

LEMMA CopiesAreCounted ==
  TailTypeOK /\ CallInv => CopiesAreAccountedFor
<1> SUFFICES ASSUME TailTypeOK, CallInv, call # None
             PROVE  call.alerts <= 1 + call.cuts
  BY DEF CopiesAreAccountedFor
<1>1. PICK b \in Snapshot, e \in Findings, n \in Nat, v \in 1 .. Len(StatusUnder) :
        Reached(b, e, v, n)
  BY Pieces
<1>2. call.alerts \in Nat /\ call.cuts \in Nat
  BY CallIs DEF TailTypeOK
<1>3. QED
  BY <1>1, <1>2 DEF Reached

\* A retry repeats no alert that was journaled: over any number of lost
\* attempts, crashes and reloads a call hands its alert over once, and once
\* more for each attempt that was cut off between the two halves of a publish.
THEOREM CopiesAreFew ==
  EgressSpec => []CopiesAreAccountedFor
<1>1. TailTypeOK /\ CallInv /\ [EgressNext]_egressVars => TailTypeOK' /\ CallInv'
  BY NextCall
<1>2. QED
  BY <1>1, InitTail, CopiesAreCounted, PTL DEF EgressSpec

\* Journaling, replay and the refusal of replays that disagree make a handler
\* that is executed in pieces, and repeatedly, one that takes effect at once.
THEOREM CallsTakeEffectAtOnce ==
  EgressSpec => TakesEffectAtOnce
<1>1. TailTypeOK /\ CallInv /\ [EgressNext]_egressVars
      => TailTypeOK' /\ CallInv' /\ [Atomic!Next]_(Atomic!atomicVars)
  BY NextCall
<1>2. QED
  BY <1>1, InitTail, PTL DEF EgressSpec, TakesEffectAtOnce, Atomic!Spec

LEMMA NextProducer ==
  ASSUME TailTypeOK, CallInv, ProducerTypeOK, [EgressNext]_egressVars
  PROVE  /\ ProducerTypeOK'
         /\ WedgeInv => WedgeInv'
         /\ OwedInv => OwedInv'
BY ProducerSteps, ProducerNextType, NextWedge, NextOwed

\* The liveness probe sees every outage longer than the window during which
\* handlers go on publishing.
THEOREM WedgesAreSeen ==
  EgressSpec => []WedgeIsSeen
<1>1. TailTypeOK /\ CallInv /\ [EgressNext]_egressVars => TailTypeOK' /\ CallInv'
  BY NextCall
<1>2. TailTypeOK /\ CallInv /\ ProducerTypeOK /\ WedgeInv /\ [EgressNext]_egressVars
      => ProducerTypeOK' /\ WedgeInv'
  BY NextProducer
<1>3. QED
  BY <1>1, <1>2, InitTail, InitProducer, WedgeIsNoted, PTL DEF EgressSpec

\* And it fails no idle producer: a stalled one has a message, a callback or
\* a refused publish outstanding.
THEOREM StallsAreOwed ==
  EgressSpec => []StalledOwesDelivery
<1>1. TailTypeOK /\ CallInv /\ [EgressNext]_egressVars => TailTypeOK' /\ CallInv'
  BY NextCall
<1>2. TailTypeOK /\ CallInv /\ ProducerTypeOK /\ OwedInv /\ [EgressNext]_egressVars
      => ProducerTypeOK' /\ OwedInv'
  BY NextProducer
<1>3. QED
  BY <1>1, <1>2, InitTail, InitProducer, StalledIsOwed, PTL DEF EgressSpec
=============================================================================
