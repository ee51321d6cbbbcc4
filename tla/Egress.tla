-------------------------------- MODULE Egress --------------------------------
(***************************************************************************)
(* One asset's handlers as Restate really runs them, on the process of     *)
(* Producer. A call is accepted once and executed in attempts. Each        *)
(* command of the tail (_persist_and_emit_transitions and                  *)
(* _emit_asset_cm_state in events/asset_cm.py) is journaled by Restate;    *)
(* an attempt that is lost, with the process or without, is followed by    *)
(* another that replays the journal and goes on behind it. Setting a key   *)
(* is one with journaling it. A publish under ctx.run is not: it happens   *)
(* first and is journaled afterwards.                                      *)
(*                                                                         *)
(* The registry is looked up afresh by every attempt and is not journaled. *)
(* A replay that comes to another command, or sets a key to another value, *)
(* than the journal holds is refused (VMException 570) and tried again.    *)
(***************************************************************************)
EXTENDS Producer, Alerts

CONSTANTS
  Findings, StatusUnder,  \* as in AtomicTail
  None,
  MaxCalls    \* bound: calls accepted

ALERT_TOPIC == "tactical-events"
STATE_TOPIC == "asset-cm-state"

ASSUME EgressAssumption ==
  /\ StatusUnder \in Seq([Findings -> Statuses]) /\ StatusUnder # <<>>
  /\ {ALERT_TOPIC, STATE_TOPIC} \subseteq Topics
  /\ MaxCalls \in Nat

VARIABLES
  record, sig,   \* the keys am_state and cm_state_emit_sig
  loads,         \* the registry loaded now
  call,          \* the call being executed, or None
  attempt,       \* its current attempt, or None
  handed,        \* history: topic -> the last message handed to the producer
  calls          \* counted for the bound

tailVars == <<record, sig, loads, call, attempt, handed, calls>>
egressVars == <<producerVars, tailVars>>

\* What was before the call: what an observer of its effects still sees.
Before == [record |-> record, sig |-> sig, alert |-> handed[ALERT_TOPIC],
           state |-> handed[STATE_TOPIC], loads |-> loads]
Seen == IF call = None THEN Before ELSE call.before

Atomic == INSTANCE AtomicTail
            WITH record <- Seen.record, sig <- Seen.sig, alert <- Seen.alert,
                 state <- Seen.state, loads <- Seen.loads

\* An entry of the journal, a call and an attempt at it.
Stored == Atomic!TailRecord \cup {None}
Values == Stored \cup [previous : Statuses, current : Statuses]
Entry == [op : {"publish_alert", "set_record", "get_sig", "set_sig", "publish_state"},
          value : Values]
Call == [event : Findings,
         before : [record : Stored, sig : Stored, alert : Values, state : Values,
                   loads : DOMAIN StatusUnder],
         journal : Seq(Entry), alerts : Nat, cuts : Nat]
Attempt == [commands : Seq(Entry), done : BOOLEAN]

ASSUME NoneIsApart == None \notin Call /\ None \notin Attempt

-----------------------------------------------------------------------------
(* The commands of a call, given the registry the attempt looked up.        *)

Command(op, value) == [op |-> op, value |-> value]

\* The journaled answer to reading the signature, once there is one.
SigReads == { entry \in ToSet(call.journal) : entry.op = "get_sig" }
SigRead == IF SigReads = {} THEN sig ELSE (CHOOSE entry \in SigReads : TRUE).value

Commands(v) ==
  LET found == Atomic!Analyzed(call.before.record, call.event, v)
      after == AfterAlert(found)
  IN  (IF Atomic!Alerting(found)
       THEN <<Command("publish_alert", Atomic!AlertOf(found))>> ELSE <<>>)
      \o <<Command("set_record", after), Command("get_sig", SigRead)>>
      \o (IF SigRead = after THEN <<>>
          ELSE <<Command("set_sig", after), Command("publish_state", after)>>)

PublishOps == {"publish_alert", "publish_state"}
IsPublish(command) == command.op \in PublishOps
TopicOf(command) == IF command.op = "publish_alert" THEN ALERT_TOPIC ELSE STATE_TOPIC

\* What a publish carries is not compared, what a key is set to is.
Agrees(command, entry) ==
  command.op = entry.op /\ (IsPublish(command) \/ command.value = entry.value)

Replays(commands) ==
  /\ Len(call.journal) <= Len(commands)
  /\ \A i \in DOMAIN call.journal : Agrees(commands[i], call.journal[i])

\* The command an attempt has come to, when there is one left.
Running == alive /\ attempt # None
Left == Len(call.journal) < Len(attempt.commands)
NextCommand == attempt.commands[Len(call.journal) + 1]
Doing(ops) == Running /\ ~attempt.done /\ Left /\ NextCommand.op \in ops

-----------------------------------------------------------------------------
Accept(e) ==
  /\ call = None /\ calls < MaxCalls
  /\ call' = [event |-> e, before |-> Before, journal |-> <<>>,
              alerts |-> 0, cuts |-> 0]
  /\ calls' = calls + 1
  /\ UNCHANGED <<producerVars, record, sig, loads, attempt, handed>>

\* Publishes outside ctx.run: every attempt does them again.
Begin_Mutant ==
  /\ alive /\ call # None /\ attempt = None
  /\ \E commands \in {Commands(loads)} :
       /\ Replays(commands)
       /\ attempt' = [commands |-> commands, done |-> FALSE]
  /\ call' = IF \E i \in DOMAIN call.journal : IsPublish(call.journal[i])
             THEN [call EXCEPT !.journal = SubSeq(@, 1, SelectInSeq(@, IsPublish) - 1)]
             ELSE call
  /\ UNCHANGED <<producerVars, record, sig, loads, handed, calls>>
\* A new attempt, up to the end of the journal.
Begin ==
  /\ alive /\ call # None /\ attempt = None
  /\ \E commands \in {Commands(loads)} :
       /\ Replays(commands)
       /\ attempt' = [commands |-> commands, done |-> FALSE]
  /\ UNCHANGED <<producerVars, record, sig, loads, call, handed, calls>>

Journal == call' = [call EXCEPT !.journal = Append(@, NextCommand)]

SetRecord ==
  /\ Doing({"set_record"})
  /\ record' = NextCommand.value
  /\ Journal
  /\ UNCHANGED <<producerVars, sig, loads, attempt, handed, calls>>

GetSig ==
  /\ Doing({"get_sig"})
  /\ Journal
  /\ UNCHANGED <<producerVars, record, sig, loads, attempt, handed, calls>>

SetSig ==
  /\ Doing({"set_sig"})
  /\ sig' = NextCommand.value
  /\ Journal
  /\ UNCHANGED <<producerVars, record, loads, attempt, handed, calls>>

\* ctx.run, the effect.
Publish ==
  /\ Doing(PublishOps)
  /\ Enqueue(TopicOf(NextCommand), NextCommand.value)
  /\ handed' = [handed EXCEPT ![TopicOf(NextCommand)] = NextCommand.value]
  /\ attempt' = [attempt EXCEPT !.done = TRUE]
  /\ call' = [call EXCEPT !.alerts = IF NextCommand.op = "publish_alert"
                                     THEN @ + 1 ELSE @]
  /\ UNCHANGED <<record, sig, loads, calls>>

\* ctx.run, the answer reaches the journal.
Acknowledge ==
  /\ Running /\ attempt.done
  /\ Journal
  /\ attempt' = [attempt EXCEPT !.done = FALSE]
  /\ UNCHANGED <<producerVars, record, sig, loads, handed, calls>>

\* The exception is swallowed: the run is journaled as if it had published.
PublishRaises_Mutant ==
  /\ Doing(PublishOps)
  /\ Refuse
  /\ attempt' = [attempt EXCEPT !.done = TRUE]
  /\ UNCHANGED <<record, sig, loads, call, handed, calls>>
\* The publish raised: the attempt ends, and Restate makes another.
PublishRaises ==
  /\ Doing(PublishOps)
  /\ Refuse
  /\ attempt' = None
  /\ UNCHANGED <<record, sig, loads, call, handed, calls>>

Complete ==
  /\ Running /\ ~Left
  /\ call' = None /\ attempt' = None
  /\ UNCHANGED <<producerVars, record, sig, loads, handed, calls>>

\* The attempt is gone; a publish it had done and not had journaled is cut off.
CutOff ==
  /\ attempt' = None
  /\ call' = IF attempt # None /\ attempt.done
             THEN [call EXCEPT !.cuts = @ + 1] ELSE call

\* Restate gives an attempt up while the process runs.
LoseAttempt ==
  /\ Running
  /\ CutOff
  /\ Fault
  /\ UNCHANGED <<processVars, worldVars, record, sig, loads, handed, calls>>

DiesOf(death) == death /\ CutOff /\ UNCHANGED <<record, sig, loads, handed, calls>>
ProcessDies == DiesOf(Death)

\* The producer goes on by itself.
ProducerSettles == Settles /\ UNCHANGED tailVars

\* SIGHUP.
Reload ==
  /\ alive /\ loads < Len(StatusUnder)
  /\ loads' = loads + 1
  /\ UNCHANGED <<producerVars, record, sig, call, attempt, handed, calls>>

\* No attempt takes a minute.
TimePasses ==
  /\ attempt = None
  /\ Tick
  /\ UNCHANGED tailVars

-----------------------------------------------------------------------------
EgressInit ==
  /\ ProducerInit
  /\ record = None /\ sig = None
  /\ loads = 1
  /\ call = None /\ attempt = None
  /\ handed = [topic \in Topics |-> None]
  /\ calls = 0

Handler ==
  \/ Begin \/ SetRecord \/ GetSig \/ SetSig \/ Publish \/ PublishRaises
  \/ Acknowledge \/ Complete

EgressNext ==
  \/ \E e \in Findings : Accept(e)
  \/ Handler
  \/ LoseAttempt \/ ProcessDies \/ Reload \/ TimePasses
  \/ ProducerSettles
  \/ Breaks /\ UNCHANGED tailVars

EgressSpec ==
  /\ EgressInit /\ [][EgressNext]_egressVars
  /\ WF_egressVars(Handler \/ TimePasses)
  /\ WF_egressVars(ProducerSettles \/ DiesOf(DieIfFatal))
=============================================================================
