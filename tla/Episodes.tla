------------------------------ MODULE Episodes ------------------------------
(***************************************************************************)
(* Human-raised discrepancies: the manual_discrepancy and                  *)
(* manual_discrepancy_resolved branches of _apply_event_to_record          *)
(* (events/asset_cm.py).                                                   *)
(*                                                                         *)
(* Every report of the same (component, fault code) belongs to one         *)
(* episode; its discrepancy_id is a hash of that pair, so the pair stands  *)
(* for the id. A report with neither keeps the legacy path: no key, no     *)
(* sources, one entry per report. The operators act on any record with the *)
(* fields manual (open entries), ctx (the configuration frozen when an     *)
(* episode opened), closed, baseline and mods.                             *)
(*                                                                         *)
(* Two entries never carry equal detected times here (the clock moves      *)
(* between two handlers), so sets stand for the code's lists.              *)
(***************************************************************************)
EXTENDS Analyzer

CONSTANTS
  Components,  \* components a maintainer may name
  Faults,      \* fault codes
  EventIds,    \* event ids of CM events
  Blank,       \* the empty string: no component, fault, event id or time
  None         \* Python's None: no record, no baseline

\* Reports that contributed to an episode. reported_by, source and wording
\* are carried unchanged by the code and are left out.
Source == [event : EventIds \cup {Blank}, at : Nat]

Manual == [component : Components \cup {Blank}, fault : Faults \cup {Blank},
           severity : Severities, detected : Nat, sources : SUBSET Source]

Context == [component : Components \cup {Blank}, fault : Faults \cup {Blank},
            detected : Nat, baseline : BaselineIds \cup {None},
            mods : ModCompliance]

\* A closed episode; `frozen` is None when nothing was frozen at open.
Closed == [component : Components \cup {Blank}, fault : Faults \cup {Blank},
           severity : Severities, detected : Nat, sources : SUBSET Source,
           cleared : Nat,
           frozen : {None} \cup [baseline : BaselineIds \cup {None},
                                 mods : ModCompliance]]

EpisodeId(x) == <<x.component, x.fault>>
Unkeyed(x) == x.component = Blank /\ x.fault = Blank
OpenEpisodes(manual, id) == { d \in manual : EpisodeId(d) = id /\ ~Unkeyed(d) }

-----------------------------------------------------------------------------
NewManual(e, sources, now) ==
  [component |-> e.component, fault |-> e.fault, severity |-> e.severity,
   detected |-> now, sources |-> sources]

\* A report with neither component nor fault code.
LegacyReport(r, e, now) ==
  [r EXCEPT !.manual = @ \cup {NewManual(e, {}, now)}]

\* The first report of an episode freezes the configuration it opened under.
OpenEpisode(r, e, now) ==
  [r EXCEPT
     !.manual = @ \cup {NewManual(e, {[event |-> e.event, at |-> now]}, now)},
     !.ctx = { c \in @ : EpisodeId(c) # EpisodeId(e) }
             \cup {[component |-> e.component, fault |-> e.fault,
                    detected |-> now, baseline |-> r.baseline,
                    mods |-> r.mods]}]

\* Only the report that opened the episode is recognised.
Redelivered_Mutant(d, e) ==
  e.event # Blank /\ \E s \in d.sources : s.event = e.event /\ s.at = d.detected
\* The same report delivered again: a non-empty event id already recorded.
Redelivered(d, e) == e.event # Blank /\ \E s \in d.sources : s.event = e.event

\* The last report replaces the earlier sources.
MergeReport_Forgets(r, d, e, now) ==
  [r EXCEPT !.manual = (@ \ {d}) \cup
     {[d EXCEPT !.sources = {[event |-> e.event, at |-> now]}]}]

\* A further report adds a source and may only raise the severity.
MergeReport(r, d, e, now) ==
  [r EXCEPT !.manual = (@ \ {d}) \cup
     {[d EXCEPT !.sources = @ \cup {[event |-> e.event, at |-> now]},
                !.severity = IF e.severity > @ THEN e.severity ELSE @]}]

\* One discrepancy per report.
ManualReport_Mutant(r, e, now) ==
  IF Unkeyed(e) THEN LegacyReport(r, e, now) ELSE OpenEpisode(r, e, now)

ManualReport(r, e, now) ==
  LET open == OpenEpisodes(r.manual, EpisodeId(e))
  IN  IF Unkeyed(e) THEN LegacyReport(r, e, now)
      ELSE IF open = {} THEN OpenEpisode(r, e, now)
      ELSE LET d == CHOOSE d \in open : TRUE
           IN  IF Redelivered(d, e) THEN r ELSE MergeReport(r, d, e, now)

\* What was frozen when d opened, if anything was.
FrozenFor(r, d) ==
  LET held == { c \in r.ctx : EpisodeId(c) = EpisodeId(d) }
  IN  IF held = {} THEN None
      ELSE LET c == CHOOSE c \in held : TRUE
           IN  [baseline |-> c.baseline, mods |-> c.mods]

\* The frozen context stays behind.
CloseEpisode_KeepsContext(r, d, e, now) == [r EXCEPT !.manual = @ \ {d}]
\* The episode is copied to the closed ones and left open.
CloseEpisode_LeavesOpen(r, d, e, now) ==
  [r EXCEPT !.closed = @ \cup
     {[component |-> d.component, fault |-> d.fault, severity |-> d.severity,
       detected |-> d.detected, sources |-> d.sources, cleared |-> now,
       frozen |-> FrozenFor(r, d)]}]

\* cleared_at is the time the event says it was recorded at, else now.
CloseEpisode(r, d, e, now) ==
  [r EXCEPT
     !.manual = @ \ {d},
     !.ctx = { c \in @ : EpisodeId(c) # EpisodeId(d) },
     !.closed = @ \cup
       {[component |-> d.component, fault |-> d.fault,
         severity |-> d.severity, detected |-> d.detected,
         sources |-> d.sources,
         cleared |-> IF e.recordedAt = Blank THEN now ELSE e.recordedAt,
         frozen |-> FrozenFor(r, d)]}]

\* Only episodes with a fault code can be resolved.
ManualResolve(r, e, now) ==
  LET open == OpenEpisodes(r.manual, EpisodeId(e))
  IN  IF e.fault = Blank \/ open = {} THEN r
      ELSE CloseEpisode(r, CHOOSE d \in open : TRUE, e, now)
=============================================================================
