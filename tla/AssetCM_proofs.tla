---------------------------- MODULE AssetCM_proofs ----------------------------
(***************************************************************************)
(* Proofs about one AssetCM object, for every set of slots, mods,          *)
(* baselines, events and every value of the timing constants.              *)
(*                                                                         *)
(* First what the pure operators return, then what the common tail of the  *)
(* handlers (Commit) does, then the invariants, one step per action.       *)
(***************************************************************************)
EXTENDS AssetCMProperties, Analyzer_proofs, WellFoundedInduction

-----------------------------------------------------------------------------
(* The analyzer.                                                            *)

\* A loaded baseline is a baseline, and a lookup by id returns one with that
\* id (_baseline_by_id).
LEMMA BaselineByIdType ==
  ASSUME registry \in Registry, NEW id
  PROVE  /\ BaselineById(id) \in Baseline \cup {None}
         /\ BaselineById(id) # None => BaselineById(id).id = id
<1>1. CASE LoadedAs(id) = {}
  BY <1>1 DEF BaselineById
<1>2. CASE LoadedAs(id) # {}
  <2> DEFINE less == OpToRel(<, Nat)
  <2>1. LoadedAs(id) \subseteq Nat
    BY VariantsAssumption DEF LoadedAs
  <2>2. \A v, w \in Nat : w < v => <<w, v>> \in less
    BY DEF OpToRel
  <2>3. IsWellFoundedOn(less, Nat)
    BY NatLessThanWellFounded
  <2> HIDE DEF less
  <2>4. \E v \in LoadedAs(id) : \A w \in LoadedAs(id) : ~ (<<w, v>> \in less)
    BY <1>2, <2>1, <2>3, WFMin
  <2>5. \E v \in LoadedAs(id) : \A w \in LoadedAs(id) : v <= w
    <3>1. PICK v \in LoadedAs(id) : \A w \in LoadedAs(id) : ~ (<<w, v>> \in less)
      BY <2>4, Zenon
    <3>2. ASSUME NEW w \in LoadedAs(id)
          PROVE  v <= w
      <4>1. v \in Nat /\ w \in Nat
        BY <2>1
      <4>2. ~ (w < v)
        BY <2>2, <3>1, <4>1
      <4>3. QED
        BY <4>1, <4>2
    <3>3. QED
      BY <3>2
  <2>6. PICK v \in LoadedAs(id) : BaselineById(id) = registry[v]
    BY <1>2, <2>5 DEF BaselineById
  <2>7. QED
    BY <2>6 DEF LoadedAs, Registry
<1>3. QED
  BY <1>1, <1>2

-----------------------------------------------------------------------------
(* What the handlers read of the messages.                                  *)

LEMMA SilverEventsType ==
  SilverEvents \subseteq [removed : BOOLEAN, variant : Variants \cup {Blank},
                          edge : Edges \cup {Blank}, label : Labels \cup {Blank}]
<1>1. ASSUME NEW m \in SilverMessages
      PROVE  SilverEvent(m) \in [removed : BOOLEAN, variant : Variants \cup {Blank},
               edge : Edges \cup {Blank}, label : Labels \cup {Blank}]
  <2>1. CASE m = None
    BY <2>1 DEF SilverEvent
  <2>2. CASE m # None
    BY <2>2, SilverAssumption DEF SilverEvent, SilverMessage
  <2>3. QED
    BY <2>1, <2>2
<1>2. QED
  BY <1>1 DEF SilverEvents

\* A decoded CM event is a CM message whose severity, if any, is one of the
\* four.
LEMMA CmEventsType ==
  ASSUME NEW e \in CmEvents
  PROVE  /\ e \in CmMessage
         /\ e.type = "manual_discrepancy" => e.severity \in Severities
<1>1. PICK m \in CmMessages : e = CmEvent(m)
  BY DEF CmEvents
<1>2. CASE m = None
  BY <1>1, <1>2 DEF CmEvent, CmMessage
<1>3. CASE m # None /\ m.type # "manual_discrepancy"
  BY <1>1, <1>3, CmAssumption DEF CmEvent
<1>4. CASE m # None /\ m.type = "manual_discrepancy"
  <2>1. m \in [type : {"manual_discrepancy"}, component : Components \cup {Blank},
               fault : Faults \cup {Blank}, severity : Severities \cup {Blank},
               event : EventIds \cup {Blank}]
    BY <1>4, CmAssumption DEF CmMessage
  <2>2. e = [m EXCEPT !.severity = IF m.severity = Blank THEN SEVERITY_MINOR
                                   ELSE m.severity]
    BY <1>1, <1>4 DEF CmEvent
  <2>3. SEVERITY_MINOR \in Severities
    BY DEF Severities, SEVERITY_INFO, SEVERITY_MINOR, SEVERITY_CRITICAL
  <2>4. e \in [type : {"manual_discrepancy"}, component : Components \cup {Blank},
               fault : Faults \cup {Blank}, severity : Severities \cup {Blank},
               event : EventIds \cup {Blank}]
        /\ e.severity \in Severities
    BY <2>1, <2>2, <2>3
  <2>5. QED
    BY <2>4 DEF CmMessage
<1>5. QED
  BY <1>2, <1>3, <1>4

-----------------------------------------------------------------------------
(* Records.                                                                 *)

LEMMA EmptyRecordType ==
  EmptyRecord \in Record
BY DEF EmptyRecord, Record, Installed, ModCompliance, ModStates, MOD_UNTRACKED,
       Statuses, CONFIG_STATUS_UNSPECIFIED, CONFIG_STATUS_NOT_MISSION_CAPABLE,
       Lifecycles, LIFECYCLE_REGISTERED

\* Carrying detection times keeps a finding a finding.
LEMMA CarriedType ==
  ASSUME NEW d \in Finding, NEW previous \in SUBSET Finding
  PROVE  /\ Carried(d, previous) \in Finding
         /\ Carried(d, previous).severity = d.severity
BY DEF Carried, Finding

\* Reading a stored record back loses nothing.
LEMMA LoadedIs ==
  ASSUME NEW r \in Record
  PROVE  Loaded(r) = r
BY DEF Loaded, Record

\* What a record says beside findings, status and as_of_ns.
Rest(r) ==
  <<r.baseline, r.installed, r.mods, r.lifecycle, r.observed, r.alerted,
    r.manual, r.edge, r.label, r.closed, r.ctx>>

\* What the message carries through the analysis.
LEMMA RoundTrip ==
  ASSUME now \in Nat, NEW r \in Record, NEW out,
         out = proto_to_record([record_to_proto(r) EXCEPT !.discs = {}, !.asOf = now])
  PROVE  /\ out \in Record
         /\ out.baseline = r.baseline
         /\ out.installed = r.installed
         /\ out.mods = r.mods
         /\ out.lifecycle = r.lifecycle
         /\ out.observed = r.observed
         /\ out.alerted = r.alerted
         /\ out.asOf = now
<1> DEFINE q == [record_to_proto(r) EXCEPT !.discs = {}, !.asOf = now]
<1>1. /\ q.baseline = r.baseline /\ q.installed = r.installed
      /\ q.mods = r.mods /\ q.status = r.status /\ q.discs = {}
      /\ q.lifecycle = r.lifecycle /\ q.observed = r.observed
      /\ q.alerted = r.alerted /\ q.asOf = now
  BY DEF record_to_proto
<1> HIDE DEF q
<1>2. out = proto_to_record(q)
  BY DEF q
<1>3. QED
  BY <1>1, <1>2 DEF proto_to_record, Record

\* What is put back afterwards.
LEMMA PutBack ==
  ASSUME NEW r \in Record, NEW out \in Record
  PROVE  /\ Preserved(out, r) \in Record
         /\ Preserved(out, r).baseline = out.baseline
         /\ Preserved(out, r).installed = out.installed
         /\ Preserved(out, r).mods = out.mods
         /\ Preserved(out, r).discs = out.discs
         /\ Preserved(out, r).status = out.status
         /\ Preserved(out, r).lifecycle = out.lifecycle
         /\ Preserved(out, r).observed = out.observed
         /\ Preserved(out, r).alerted = out.alerted
         /\ Preserved(out, r).asOf = out.asOf
         /\ Preserved(out, r).manual = r.manual
         /\ Preserved(out, r).edge = r.edge
         /\ Preserved(out, r).label = r.label
         /\ Preserved(out, r).closed = r.closed
         /\ Preserved(out, r).ctx = r.ctx
BY DEF Preserved, Record

\* The way through the message costs a record nothing but what analysis
\* replaces.
LEMMA ReanalyzeShape ==
  ASSUME now \in Nat, NEW r \in Record,
         NEW found, found = ComputeDiscrepancies(BaselineById(r.baseline),
                                                 r.installed, r.mods, now),
         { Carried(d, r.discs) : d \in found } \in SUBSET Finding,
         OverallStatus(found \cup r.manual) \in Statuses,
         r.baseline # None, BaselineById(r.baseline) # None
  PROVE  /\ Reanalyze(r) \in Record
         /\ Rest(Reanalyze(r)) = Rest(r)
         /\ Reanalyze(r).discs = { Carried(d, r.discs) : d \in found }
         /\ Reanalyze(r).status = OverallStatus(found \cup r.manual)
         /\ Reanalyze(r).asOf = now
<1> DEFINE carried == { Carried(d, r.discs) : d \in found }
           status == OverallStatus(found \cup r.manual)
           out == proto_to_record([record_to_proto(r) EXCEPT !.discs = {}, !.asOf = now])
           told == [out EXCEPT !.discs = carried, !.status = status]
<1>1. record_to_proto(r).installed = r.installed /\ record_to_proto(r).mods = r.mods
  BY DEF record_to_proto
<1>2. Reanalyze(r) = Preserved(told, r)
  BY <1>1 DEF Reanalyze
<1> HIDE DEF out, carried, status
<1>3. /\ out \in Record
      /\ out.baseline = r.baseline /\ out.installed = r.installed
      /\ out.mods = r.mods /\ out.lifecycle = r.lifecycle
      /\ out.observed = r.observed /\ out.alerted = r.alerted
      /\ out.asOf = now
  BY RoundTrip DEF out
<1>4. carried \in SUBSET Finding /\ status \in Statuses
  BY DEF carried, status
<1>5. /\ told \in Record
      /\ told.baseline = out.baseline /\ told.installed = out.installed
      /\ told.mods = out.mods /\ told.lifecycle = out.lifecycle
      /\ told.observed = out.observed /\ told.alerted = out.alerted
      /\ told.asOf = out.asOf /\ told.discs = carried /\ told.status = status
  BY <1>3, <1>4 DEF Record
<1> HIDE DEF told
<1>6. QED
  BY <1>2, <1>3, <1>5, PutBack DEF Rest, carried, status

\* What an analysis that finds its baseline arrives at.
LEMMA ReanalyzeIs ==
  ASSUME registry \in Registry, now \in Nat, NEW r \in Record,
         r.baseline # None, BaselineById(r.baseline) # None,
         NEW found, found = ComputeDiscrepancies(BaselineById(r.baseline),
                                                 r.installed, r.mods, now)
  PROVE  /\ Reanalyze(r) \in Record
         /\ Rest(Reanalyze(r)) = Rest(r)
         /\ Reanalyze(r).discs = { Carried(d, r.discs) : d \in found }
         /\ Reanalyze(r).status = OverallStatus(found \cup r.manual)
         /\ Reanalyze(r).asOf = now
<1> DEFINE carried == { Carried(d, r.discs) : d \in found }
           status == OverallStatus(found \cup r.manual)
<1>1. BaselineById(r.baseline) \in Baseline
  BY BaselineByIdType
<1>2. r.installed \in Installed /\ r.mods \in ModCompliance
      /\ r.discs \in SUBSET Finding
  BY DEF Record
<1>3. found \subseteq Finding
  BY <1>1, <1>2, ComputeDiscrepanciesType
<1>4. carried \in SUBSET Finding
  BY <1>2, <1>3, CarriedType
<1>5. status \in Statuses
  BY OverallStatusType DEF Statuses, CONFIG_STATUS_UNSPECIFIED,
     CONFIG_STATUS_IN_COMPLIANCE, CONFIG_STATUS_NOT_MISSION_CAPABLE
<1>6. QED
  BY <1>4, <1>5, ReanalyzeShape

LEMMA ReanalyzeType ==
  ASSUME registry \in Registry, now \in Nat, NEW r \in Record
  PROVE  Reanalyze(r) \in Record
<1>1. CASE r.baseline = None \/ BaselineById(r.baseline) = None
  BY <1>1 DEF Reanalyze
<1>2. CASE ~ (r.baseline = None \/ BaselineById(r.baseline) = None)
  BY <1>2, ReanalyzeIs
<1>3. QED
  BY <1>1, <1>2

-----------------------------------------------------------------------------
(* Episodes.                                                                *)

ReportEvent == [type : {"manual_discrepancy"}, component : Components \cup {Blank},
                fault : Faults \cup {Blank}, severity : Severities,
                event : EventIds \cup {Blank}]
ResolutionEvent == [type : {"manual_discrepancy_resolved"},
                    component : Components \cup {Blank},
                    fault : Faults \cup {Blank}, recordedAt : Nat \cup {Blank}]

\* A report leaves a well-formed record, whichever of the three paths it takes.
LEMMA ManualReportType ==
  ASSUME NEW r \in Record, NEW e \in ReportEvent, NEW t \in Nat
  PROVE  ManualReport(r, e, t) \in Record
<1> DEFINE source == [event |-> e.event, at |-> t]
           open == OpenEpisodes(r.manual, EpisodeId(e))
<1>1. source \in Source /\ r.manual \subseteq Manual /\ r.ctx \subseteq Context
  BY DEF ReportEvent, Source, Record
<1>2. ASSUME NEW sources \in SUBSET Source
      PROVE  NewManual(e, sources, t) \in Manual
  BY <1>2 DEF NewManual, Manual, ReportEvent
<1>3. LegacyReport(r, e, t) \in Record
  <2>1. NewManual(e, {}, t) \in Manual
    BY <1>2
  <2>2. QED
    BY <1>1, <2>1 DEF LegacyReport, Record
<1>4. OpenEpisode(r, e, t) \in Record
  <2> DEFINE entry == NewManual(e, {source}, t)
             kept == { c \in r.ctx : EpisodeId(c) # EpisodeId(e) }
             frozen == [component |-> e.component, fault |-> e.fault,
                        detected |-> t, baseline |-> r.baseline, mods |-> r.mods]
  <2>1. entry \in Manual
    BY <1>1, <1>2
  <2>2. frozen \in Context
    BY DEF Context, ReportEvent, Record
  <2>3. kept \cup {frozen} \in SUBSET Context /\ r.manual \cup {entry} \in SUBSET Manual
    BY <1>1, <2>1, <2>2
  <2>4. OpenEpisode(r, e, t) = [r EXCEPT !.manual = r.manual \cup {entry},
                                         !.ctx = kept \cup {frozen}]
    BY DEF OpenEpisode, Record
  <2> HIDE DEF entry, kept, frozen
  <2>5. QED
    BY <2>3, <2>4 DEF Record
<1>5. ASSUME NEW d \in Manual
      PROVE  MergeReport(r, d, e, t) \in Record
  <2> DEFINE merged == [d EXCEPT !.sources = d.sources \cup {source},
                                 !.severity = IF e.severity > d.severity
                                              THEN e.severity ELSE d.severity]
  <2>1. merged \in Manual
    BY <1>1 DEF Manual, ReportEvent
  <2>2. (r.manual \ {d}) \cup {merged} \in SUBSET Manual
    BY <1>1, <2>1
  <2>3. MergeReport(r, d, e, t) = [r EXCEPT !.manual = (r.manual \ {d}) \cup {merged}]
    BY DEF MergeReport, Record, Manual
  <2> HIDE DEF merged
  <2>4. QED
    BY <2>2, <2>3 DEF Record
<1>6. open # {} => (CHOOSE d \in open : TRUE) \in Manual
  BY <1>1 DEF OpenEpisodes
<1>7. QED
  BY <1>3, <1>4, <1>5, <1>6 DEF ManualReport

\* So does a resolution.
LEMMA ManualResolveType ==
  ASSUME NEW r \in Record, NEW e \in ResolutionEvent, NEW t \in Nat
  PROVE  ManualResolve(r, e, t) \in Record
<1> DEFINE open == OpenEpisodes(r.manual, EpisodeId(e))
<1>1. r.manual \subseteq Manual /\ r.ctx \subseteq Context /\ r.closed \subseteq Closed
  BY DEF Record
<1>2. ASSUME NEW d \in Manual
      PROVE  CloseEpisode(r, d, e, t) \in Record
  <2> DEFINE held == { c \in r.ctx : EpisodeId(c) = EpisodeId(d) }
             kept == { c \in r.ctx : EpisodeId(c) # EpisodeId(d) }
             entry == [component |-> d.component, fault |-> d.fault,
                       severity |-> d.severity, detected |-> d.detected,
                       sources |-> d.sources,
                       cleared |-> IF e.recordedAt = Blank THEN t ELSE e.recordedAt,
                       frozen |-> FrozenFor(r, d)]
  <2>1. held # {} => (CHOOSE c \in held : TRUE) \in Context
    BY <1>1
  <2>2. FrozenFor(r, d) \in {None} \cup [baseline : BaselineIds \cup {None},
                                         mods : ModCompliance]
    BY <2>1 DEF FrozenFor, Context
  <2>3. entry \in Closed
    BY <2>2 DEF Closed, Manual, ResolutionEvent
  <2>4. CloseEpisode(r, d, e, t) =
          [r EXCEPT !.manual = r.manual \ {d}, !.ctx = kept,
                    !.closed = r.closed \cup {entry}]
    BY DEF CloseEpisode, Record
  <2>5. /\ r.manual \ {d} \in SUBSET Manual
        /\ kept \in SUBSET Context
        /\ r.closed \cup {entry} \in SUBSET Closed
    BY <1>1, <2>3
  <2> HIDE DEF kept, entry
  <2>6. QED
    BY <2>4, <2>5 DEF Record
<1>3. open # {} => (CHOOSE d \in open : TRUE) \in Manual
  BY <1>1 DEF OpenEpisodes
<1>4. QED
  BY <1>2, <1>3 DEF ManualResolve

-----------------------------------------------------------------------------
(* What each handler does to the record before the common tail.             *)

LEMMA AssignBaselineType ==
  ASSUME registry \in Registry, NEW r \in Record, NEW id \in BaselineIds
  PROVE  AssignBaseline(r, id) \in Record
<1> DEFINE b == BaselineById(id)
<1>1. CASE id = r.baseline \/ b = None
  BY <1>1 DEF AssignBaseline, Record
<1>2. CASE id # r.baseline /\ b # None
  <2>1. b \in Baseline
    BY <1>2, BaselineByIdType
  <2>2. /\ b.id \in BaselineIds
        /\ BaselineInstalled(b) \in Installed
        /\ BaselineMods(b) \in ModCompliance
    BY <2>1, BaselineDefaultsType DEF Baseline
  <2>3. AssignBaseline(r, id) = [r EXCEPT !.baseline = b.id,
          !.installed = BaselineInstalled(b), !.mods = BaselineMods(b)]
    BY <1>2 DEF AssignBaseline
  <2> HIDE DEF b
  <2>4. QED
    BY <2>2, <2>3 DEF Record
<1>3. QED
  BY <1>1, <1>2

\* Every branch of _apply_event_to_record returns a record.
LEMMA ApplyEventType ==
  ASSUME registry \in Registry, now \in Nat, NEW r \in Record, NEW e \in CmEvents
  PROVE  ApplyEvent(r, e) \in Record
<1>1. CASE e \in [type : {"part_replaced"}, slot : Slots, ci : CIs]
  <2> DEFINE part == [ci |-> e.ci, at |-> now]
  <2>1. /\ e.slot \in Slots /\ e.type = "part_replaced"
        /\ part \in [ci : CIs \cup {Unverified, NotInstalled}, at : Nat]
    BY <1>1
  <2>2. [r.installed EXCEPT ![e.slot] = part] \in Installed
    BY <2>1 DEF Record, Installed
  <2>3. ApplyEvent(r, e) = [r EXCEPT !.installed = [r.installed EXCEPT ![e.slot] = part]]
    BY <2>1 DEF ApplyEvent
  <2>4. QED
    BY <2>2, <2>3 DEF Record
<1>2. CASE e \in [type : {"mod_applied"}, mod : Mods, appliedAt : Nat \cup {Blank}]
  <2> DEFINE mod == [state |-> MOD_STATE_APPLIED,
                     at |-> IF e.appliedAt = Blank THEN now ELSE e.appliedAt]
  <2>1. /\ e.mod \in Mods /\ e.type = "mod_applied"
        /\ mod \in [state : ModStates, at : Nat]
    BY <1>2 DEF ModStates
  <2>2. [r.mods EXCEPT ![e.mod] = mod] \in ModCompliance
    BY <2>1 DEF Record, ModCompliance
  <2>3. ApplyEvent(r, e) = [r EXCEPT !.mods = [r.mods EXCEPT ![e.mod] = mod]]
    BY <2>1 DEF ApplyEvent
  <2>4. QED
    BY <2>2, <2>3 DEF Record
<1>3. CASE e \in [type : {"inspection_completed"}, passed : BOOLEAN]
  <2>1. ApplyEvent(r, e) = IF e.passed THEN [r EXCEPT !.observed = now] ELSE r
    BY <1>3 DEF ApplyEvent
  <2>2. QED
    BY <2>1 DEF Record
<1>4. CASE e \in [type : {"serial_corrected", "none"}]
  BY <1>4 DEF ApplyEvent
<1>5. CASE e \in [type : {"baseline_assigned"}, baseline : BaselineIds]
  BY <1>5, AssignBaselineType DEF ApplyEvent
<1>6. CASE e \in ReportEvent
  BY <1>6, ManualReportType DEF ApplyEvent, ReportEvent
<1>7. CASE e \in ResolutionEvent
  BY <1>7, ManualResolveType DEF ApplyEvent, ResolutionEvent
<1>8. e \in CmMessage /\ (e.type = "manual_discrepancy" => e.severity \in Severities)
  BY CmEventsType
<1>9. e \in [type : {"manual_discrepancy"}, component : Components \cup {Blank},
            fault : Faults \cup {Blank}, severity : Severities \cup {Blank},
            event : EventIds \cup {Blank}]
      => e \in ReportEvent
  BY <1>8 DEF ReportEvent
<1>10. QED
  BY <1>1, <1>2, <1>3, <1>4, <1>5, <1>6, <1>7, <1>8, <1>9
     DEF CmMessage, ResolutionEvent

\* The lookup of a first-seen asset's baseline.
LEMMA FirstSeenBaselineType ==
  ASSUME registry \in Registry, NEW e \in SilverEvents, NEW declared \in Declarations
  PROVE  FirstSeenBaseline(e, declared) \in Baseline \cup {None}
<1>1. BaselineById(declared) \in Baseline \cup {None}
  BY BaselineByIdType
<1>2. e.variant \in Variants \cup {Blank}
  BY SilverEventsType
<1>3. e.variant # Blank => registry[e.variant] \in Baseline \cup {None}
  BY <1>2 DEF Registry
<1>4. QED
  BY <1>1, <1>3 DEF FirstSeenBaseline

\* Refreshing keeps a record well formed.
LEMMA RefreshedType ==
  ASSUME now \in Nat, NEW r \in Record, NEW e \in SilverEvents
  PROVE  Refreshed(r, e) \in Record
<1>1. e.edge \in Edges \cup {Blank} /\ e.label \in Labels \cup {Blank}
  BY SilverEventsType
<1>2. LIFECYCLE_ACTIVE \in Lifecycles
  BY DEF Lifecycles
<1>3. QED
  BY <1>1, <1>2 DEF Refreshed, Record

\* A first-seen asset starts from a well-formed record. Without a row in the
\* tier store, restoring adds nothing to it.
LEMMA InitializedType ==
  ASSUME now \in Nat, NEW b \in Baseline
  PROVE  /\ InitializedRecord(b) \in Record
         /\ RestoredRecord(InitializedRecord(b), None, None) = InitializedRecord(b)
<1> DEFINE found == ComputeDiscrepancies(b, BaselineInstalled(b), BaselineMods(b), now)
           status == OverallStatus(found)
           r == InitializedRecord(b)
<1>1. BaselineInstalled(b) \in Installed /\ BaselineMods(b) \in ModCompliance
  BY BaselineDefaultsType
<1>2. found \subseteq Finding
  BY <1>1, ComputeDiscrepanciesType
<1>3. status \in Statuses
  BY OverallStatusType DEF Statuses, CONFIG_STATUS_UNSPECIFIED,
     CONFIG_STATUS_IN_COMPLIANCE, CONFIG_STATUS_NOT_MISSION_CAPABLE
<1>4. b.id \in BaselineIds /\ LIFECYCLE_ACTIVE \in Lifecycles
  BY DEF Baseline, Lifecycles
<1>5. r = [EmptyRecord EXCEPT
             !.baseline = b.id, !.installed = BaselineInstalled(b),
             !.mods = BaselineMods(b), !.discs = found, !.status = status,
             !.asOf = now, !.lifecycle = LIFECYCLE_ACTIVE, !.observed = now]
  BY DEF InitializedRecord
<1>6. r \in Record
  <2> HIDE DEF found, status, r
  <2>1. QED
    BY <1>1, <1>2, <1>3, <1>4, <1>5, EmptyRecordType DEF Record
<1>7. ASSUME NEW x \in Record
      PROVE  RestoredRecord(x, None, None) = x
  BY DEF RestoredRecord, Record
<1>8. QED
  BY <1>6, <1>7

LEMMA RegisteredType ==
  ASSUME now \in Nat, NEW e \in SilverEvents
  PROVE  RegisteredRecord(e) \in Record
<1>1. e.edge \in Edges \cup {Blank}
  BY SilverEventsType
<1>2. QED
  BY <1>1, EmptyRecordType DEF RegisteredRecord, Record

LEMMA AgedType ==
  ASSUME NEW r \in Record
  PROVE  Aged(r) \in Record
BY DEF Aged, Record, Lifecycles

-----------------------------------------------------------------------------
(* The common tail of the handlers.                                         *)

LEMMA PayloadType ==
  ASSUME NEW r \in Record
  PROVE  PayloadOf(r) \in Payload /\ Signature(PayloadOf(r)) \in Payload
BY DEF PayloadOf, Signature, Payload, Record

LEMMA AfterAlertType ==
  ASSUME NEW r \in Record
  PROVE  AfterAlert(r) \in Record
BY DEF AfterAlert, Record

\* What Commit is made of: the analyzed record is alerted on, stored and
\* published, and then the next recheck is scheduled.
LEMMA CommitSteps ==
  ASSUME NEW r, NEW pending, Commit(r, pending)
  PROVE  /\ amState' = AfterAlert(Reanalyze(r))
         /\ SendAlert(Reanalyze(r))
         /\ Emit(AfterAlert(Reanalyze(r)))
         /\ Schedule(AfterAlert(Reanalyze(r)), pending)
BY DEF Commit, Persist

\* Every recheck target is a moment still ahead.
LEMMA RecheckTargetsType ==
  ASSUME registry \in Registry, now \in Nat, NEW r \in Record
  PROVE  \A target \in RecheckTargets(r) : target \in Nat /\ target > now
<1> DEFINE b == BaselineById(r.baseline)
           due == { m \in b.required :
                      /\ r.mods[m].state \in {MOD_STATE_PENDING, MOD_STATE_UNSPECIFIED}
                      /\ b.due[m] > 0
                      /\ b.due[m] * Second > now }
<1>1. ASSUME NEW target \in DueTargets(r)
      PROVE  target \in Nat /\ target > now
  <2>1. b \in Baseline
    BY BaselineByIdType DEF DueTargets
  <2>2. PICK m \in due : target = b.due[m] * Second
    BY DEF DueTargets
  <2>3. b.due[m] \in Nat
    BY <2>1 DEF Baseline
  <2>4. b.due[m] * Second \in Nat
    BY <2>3, SecondAssumption
  <2>5. QED
    BY <2>2, <2>4
<1>2. ASSUME NEW target \in StaleTargets(r)
      PROVE  target \in Nat /\ target > now
  <2>1. Window \in Nat
    BY TimingAssumption, SecondAssumption DEF Window
  <2>2. r.observed \in Nat
    BY DEF Record
  <2>3. QED
    BY <2>1, <2>2 DEF StaleTargets
<1>3. QED
  BY <1>1, <1>2 DEF RecheckTargets

\* The delay is a number of whole seconds.
LEMMA DelayType ==
  ASSUME now \in Nat, NEW target \in Nat
  PROVE  Delay(target) \in Nat
<1>1. (target - now) \div Second \in Int
  BY SecondAssumption
<1>2. (IF (target - now) \div Second > RECHECK_MIN_DELAY_S
       THEN (target - now) \div Second ELSE RECHECK_MIN_DELAY_S) \in Nat
  BY <1>1, TimingAssumption
<1>3. ASSUME NEW n \in Nat
      PROVE  n * Second \in Nat
  BY SecondAssumption
<1>4. QED
  BY <1>2, <1>3 DEF Delay

\* Scheduling either keeps what is pending or adds one call for a target.
LEMMA ScheduleCases ==
  ASSUME NEW r, NEW pending, Schedule(r, pending)
  PROVE  \/ nextRecheck' = nextRecheck /\ timers' = pending
         \/ \E target \in RecheckTargets(r) :
              /\ ~Debounced(target)
              /\ nextRecheck' = target
              /\ timers' = pending \cup
                   {[fires |-> now + Delay(target), target |-> target]}
BY DEF Schedule

LEMMA ScheduleType ==
  ASSUME TypeOK, NEW r \in Record, NEW pending \in SUBSET Timer, Schedule(r, pending)
  PROVE  nextRecheck' \in Nat /\ timers' \in SUBSET Timer
<1>1. CASE nextRecheck' = nextRecheck /\ timers' = pending
  BY <1>1 DEF TypeOK
<1>2. ASSUME NEW target \in RecheckTargets(r), nextRecheck' = target,
             timers' = pending \cup {[fires |-> now + Delay(target), target |-> target]}
      PROVE  nextRecheck' \in Nat /\ timers' \in SUBSET Timer
  <2>1. target \in Nat
    BY RecheckTargetsType DEF TypeOK
  <2>2. now + Delay(target) \in Nat
    BY <2>1, DelayType DEF TypeOK
  <2>3. [fires |-> now + Delay(target), target |-> target] \in Timer
    BY <2>1, <2>2 DEF Timer
  <2>4. QED
    BY <1>2, <2>1, <2>3
<1>3. QED
  BY <1>1, <1>2, ScheduleCases

LEMMA EmitType ==
  ASSUME TypeOK, NEW r \in Record, Emit(r)
  PROVE  emitSig' \in Payload /\ cmState' \in Payload \cup {None}
BY PayloadType DEF TypeOK, Emit

LEMMA SendAlertType ==
  ASSUME TypeOK, NEW r \in Record, SendAlert(r)
  PROVE  lastAlert' \in Alert \cup {None}
<1>1. r.alerted \in Statuses /\ r.status \in Statuses
  BY DEF Record
<1>2. QED
  BY <1>1 DEF SendAlert, TypeOK, Alert

\* The tail keeps every variable it writes well formed.
LEMMA CommitType ==
  ASSUME TypeOK, NEW r \in Record, NEW pending \in SUBSET Timer, Commit(r, pending)
  PROVE  /\ amState' \in Record
         /\ nextRecheck' \in Nat
         /\ emitSig' \in Payload
         /\ timers' \in SUBSET Timer
         /\ cmState' \in Payload \cup {None}
         /\ lastAlert' \in Alert \cup {None}
<1>1. Reanalyze(r) \in Record
  BY ReanalyzeType DEF TypeOK
<1>2. AfterAlert(Reanalyze(r)) \in Record
  BY <1>1, AfterAlertType
<1>3. QED
  BY <1>1, <1>2, CommitSteps, EmitType, SendAlertType, ScheduleType

-----------------------------------------------------------------------------
(* Type correctness.                                                        *)

LEMMA InitType ==
  Init => TypeOK
BY RegistriesAssumption DEF Init, TypeOK

\* One step per action: each handler hands the tail a record.
LEMMA NextType ==
  TypeOK /\ [Next]_vars => TypeOK'
<1> SUFFICES ASSUME TypeOK, [Next]_vars PROVE TypeOK'
  OBVIOUS
<1> USE DEF TypeOK
<1>1. (ClockMoves => now' \in Nat) /\ (Tick => now' \in Nat)
  BY DEF ClockMoves, Tick
<1>2. ASSUME NEW e \in SilverEvents, NEW declared \in Declarations,
             Observe(e, declared, None, None)
      PROVE  TypeOK'
  <2>1. CASE RemovalOfUnknown(e)
    BY <1>1, <1>2, <2>1 DEF Observe, RemovalOfUnknown, Dropped, store, output
  <2>2. CASE Register(e, declared)
    <3>1. RegisteredRecord(e) \in Record
      BY RegisteredType
    <3>2. emitSig' \in Payload /\ cmState' \in Payload \cup {None}
      BY <2>2, <3>1, EmitType DEF Register
    <3>3. QED
      BY <1>1, <1>2, <2>2, <3>1, <3>2 DEF Observe, Register
  <2>3. CASE FirstSeen(e, declared, None, None)
    <3> DEFINE b == FirstSeenBaseline(e, declared)
               r == Refreshed(RestoredRecord(InitializedRecord(b), None, None), e)
    <3>1. r \in Record
      BY <2>3, FirstSeenBaselineType, InitializedType, RefreshedType DEF FirstSeen
    <3>2. Commit(r, timers)
      BY <2>3 DEF FirstSeen
    <3> HIDE DEF r
    <3>3. QED
      BY <1>1, <1>2, <2>3, <3>1, <3>2, CommitType DEF Observe, FirstSeen
  <2>4. CASE Known(e)
    <3>1. Refreshed(amState, e) \in Record
      BY <2>4, RefreshedType DEF Known
    <3>2. Loaded(amState) = amState
      BY <2>4, LoadedIs DEF Known
    <3>3. QED
      BY <1>1, <1>2, <2>4, <3>1, <3>2, CommitType DEF Observe, Known
  <2>5. QED
    BY <1>2, <2>1, <2>2, <2>3, <2>4 DEF Observe
<1>3. ASSUME NEW e \in CmEvents, ApplyCmEvent(e)
      PROVE  TypeOK'
  <2>1. CASE amState = None /\ Dropped
    BY <1>1, <1>3, <2>1 DEF ApplyCmEvent, Dropped, store, output
  <2>2. CASE amState # None /\ Commit(ApplyEvent(amState, e), timers)
             /\ UNCHANGED <<registry, telemetryAt>>
    <3>1. ApplyEvent(amState, e) \in Record
      BY <2>2, ApplyEventType
    <3>2. QED
      BY <1>1, <1>3, <2>2, <3>1, CommitType DEF ApplyCmEvent
  <2>3. QED
    BY <1>1, <1>3, <2>1, <2>2, LoadedIs DEF ApplyCmEvent, TypeOK
<1>4. ASSUME NEW timer \in timers, RecheckCompliance(timer)
      PROVE  TypeOK'
  <2>1. timers \ {timer} \in SUBSET Timer
    OBVIOUS
  <2>2. CASE amState = None
    BY <1>1, <1>4, <2>1, <2>2 DEF RecheckCompliance, store
  <2>3. CASE amState # None
    <3>1. Aged(amState) \in Record
      BY <2>3, AgedType
    <3>2. Commit(Aged(amState), timers \ {timer}) /\ UNCHANGED <<registry, telemetryAt>>
      BY <1>4, <2>3, LoadedIs DEF RecheckCompliance
    <3>3. QED
      BY <1>1, <1>4, <2>1, <3>1, <3>2, CommitType DEF RecheckCompliance
  <2>4. QED
    BY <2>2, <2>3
<1>5. CASE Decommission
  <2> DEFINE r == [amState EXCEPT !.lifecycle = LIFECYCLE_DECOMMISSIONED]
  <2>1. CASE amState = None /\ Dropped
    BY <1>1, <1>5, <2>1 DEF Decommission, Dropped, store, output
  <2>2. CASE amState # None
    <3>1. r \in Record
      BY <2>2 DEF Record, Lifecycles
    <3>2. amState' = r /\ Emit(r)
          /\ UNCHANGED <<registry, nextRecheck, timers, lastAlert, telemetryAt>>
      <4>1. Loaded(amState) = amState
        BY <2>2, LoadedIs
      <4>2. QED
        BY <1>5, <2>2, <4>1 DEF Decommission
    <3> HIDE DEF r
    <3>3. QED
      BY <1>1, <1>5, <3>1, <3>2, EmitType DEF Decommission
  <2>3. QED
    BY <1>5, <2>1, <2>2 DEF Decommission
<1>6. CASE Reload
  BY <1>6, RegistriesAssumption DEF Reload, store, output
<1>7. CASE Tick
  BY <1>1, <1>7 DEF Tick, store, output
<1>8. CASE UNCHANGED vars
  BY <1>8 DEF vars
<1>9. QED
  BY <1>2, <1>3, <1>4, <1>5, <1>6, <1>7, <1>8 DEF Next, Recheck

\* Every reachable state is well formed, for all slots, mods, baselines,
\* events and timing constants: no handler ever stores or publishes anything
\* of another shape.
THEOREM TypeCorrect ==
  Spec => []TypeOK
<1>1. QED
  BY InitType, NextType, PTL DEF Spec
=============================================================================
