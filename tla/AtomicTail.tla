------------------------------ MODULE AtomicTail ------------------------------
(***************************************************************************)
(* What one call of a handler promises, seen from outside: it takes effect *)
(* once and as a whole. It analyses the asset under a registry that was    *)
(* loaded while it ran, stores the record, hands the record to             *)
(* asset-cm-state when it changed, and hands an alert to tactical-events   *)
(* when the status crossed the line.                                       *)
(*                                                                         *)
(* A reload during the call is the one thing that shows: the alert may     *)
(* then speak of an earlier registry than the record does. Without one, v  *)
(* and w are equal and the alert is the alert of this very transition.     *)
(***************************************************************************)
EXTENDS Alerts, Sequences

CONSTANTS
  Findings,     \* what a handler may leave the asset with
  StatusUnder,  \* per registry, in the order of loading: finding -> status
  None          \* no record, no message

VARIABLES
  record,  \* am_state, as far as the tail reads it
  sig,     \* cm_state_emit_sig
  alert,   \* the last message handed to tactical-events
  state,   \* the last message handed to asset-cm-state
  loads    \* the registry loaded now

atomicVars == <<record, sig, alert, state, loads>>

TailRecord == [finding : Findings, status : Statuses, alerted : Statuses]

\* What the handler's own part and _reanalyze leave, given the stored record.
Analyzed(stored, e, v) ==
  [finding |-> e, status |-> StatusUnder[v][e],
   alerted |-> IF stored = None THEN CONFIG_STATUS_UNSPECIFIED ELSE stored.alerted]

Alerting(r) == Detected(r) \/ Resolved(r)
AlertOf(r) == [previous |-> r.alerted, current |-> r.status]

-----------------------------------------------------------------------------
Handle(e) ==
  /\ loads' \in loads .. Len(StatusUnder)
  /\ \E v \in loads .. loads' :
       LET r == Analyzed(record, e, v)
       IN  /\ record' = AfterAlert(r)
           /\ sig' = record'
           /\ state' = IF sig = record' THEN state ELSE record'
           /\ \/ ~Alerting(r) /\ alert' = alert
              \/ \E w \in loads .. v :
                   LET q == Analyzed(record, e, w)
                   IN  Alerting(q) /\ alert' = AlertOf(q)

Reload ==
  /\ loads < Len(StatusUnder)
  /\ loads' = loads + 1
  /\ UNCHANGED <<record, sig, alert, state>>

Init ==
  /\ record = None /\ sig = None /\ alert = None /\ state = None
  /\ loads = 1

Next == Reload \/ \E e \in Findings : Handle(e)

Spec == Init /\ [][Next]_atomicVars
=============================================================================
