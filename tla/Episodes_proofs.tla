---------------------------- MODULE Episodes_proofs ----------------------------
(***************************************************************************)
(* What a report and a resolution do to the episodes of a record, for      *)
(* every record, event and time: the invariant of the open entries, the    *)
(* frozen contexts and the closed episodes, and what one such step keeps.  *)
(* These lemmas are about the operators of Episodes alone; TierStore_proofs *)
(* carries them to every state of an object that loses and restores its    *)
(* record.                                                                 *)
(***************************************************************************)
EXTENDS AssetCM_proofs

\* What holds of open entries that were all observed before t, and may be held
\* by a record, by a message or by a row of the store: one entry per keyed
\* episode, and no report counted twice.
OpenInv(manual, t) ==
  /\ \A a, b \in manual : EpisodeId(a) = EpisodeId(b) /\ ~Unkeyed(a) => a = b
  /\ \A d \in manual : \A a, b \in d.sources :
       a.event = b.event /\ a.event # Blank => a = b
  /\ \A d \in manual : d.detected < t

\* Every frozen context belongs to an entry that is open now.
ContextInv(r) ==
  /\ \A c \in r.ctx : ~Unkeyed(c)
  /\ \A c \in r.ctx : \E d \in r.manual :
       EpisodeId(d) = EpisodeId(c) /\ d.detected = c.detected
  /\ \A a, b \in r.ctx : EpisodeId(a) = EpisodeId(b) => a = b

\* A closed episode was observed before the open one with its key, if there is
\* one, and no two closed ones share key and time.
ClosedInv(r, t) ==
  /\ \A x \in r.closed : ~Unkeyed(x) /\ x.detected < t
  /\ \A x \in r.closed, d \in r.manual :
       EpisodeId(x) = EpisodeId(d) => x.detected < d.detected
  /\ \A x, y \in r.closed :
       EpisodeId(x) = EpisodeId(y) /\ x.detected = y.detected => x = y

EpisodesInv(r, t) == OpenInv(r.manual, t) /\ ContextInv(r) /\ ClosedInv(r, t)

\* The episodes of two records are the same.
SameEpisodes(r, x) == x.manual = r.manual /\ x.ctx = r.ctx /\ x.closed = r.closed

-----------------------------------------------------------------------------
(* What the two operators do, path by path.                                 *)

Entry(e, t) == NewManual(e, {[event |-> e.event, at |-> t]}, t)

Frozen(r, e, t) ==
  [component |-> e.component, fault |-> e.fault, detected |-> t,
   baseline |-> r.baseline, mods |-> r.mods]

\* The entry a report is merged into, afterwards.
Merged(d, e, t) ==
  [d EXCEPT !.sources = d.sources \cup {[event |-> e.event, at |-> t]},
            !.severity = IF e.severity > d.severity THEN e.severity ELSE d.severity]

Opens(r, x, e, t) ==
  /\ ~Unkeyed(e) /\ OpenEpisodes(r.manual, EpisodeId(e)) = {}
  /\ x.manual = r.manual \cup {Entry(e, t)}
  /\ x.ctx = { c \in r.ctx : EpisodeId(c) # EpisodeId(e) } \cup {Frozen(r, e, t)}

Merges(r, x, d, e, t) ==
  /\ ~Unkeyed(d) /\ ~Redelivered(d, e)
  /\ x.manual = (r.manual \ {d}) \cup {Merged(d, e, t)}
  /\ x.ctx = r.ctx

\* A report adds a legacy entry, opens an episode, is recognised as known, or
\* is merged into an open episode.
LEMMA ReportCases ==
  ASSUME NEW r \in Record, NEW e \in ReportEvent, NEW t \in Nat,
         NEW x, x = ManualReport(r, e, t)
  PROVE  /\ x.closed = r.closed
         /\ \/ /\ Unkeyed(e) /\ x.ctx = r.ctx
               /\ x.manual = r.manual \cup {NewManual(e, {}, t)}
            \/ Opens(r, x, e, t)
            \/ x = r
            \/ \E d \in r.manual : Merges(r, x, d, e, t)
<1> DEFINE open == OpenEpisodes(r.manual, EpisodeId(e))
<1>1. CASE Unkeyed(e)
  <2>1. x = LegacyReport(r, e, t)
    BY <1>1 DEF ManualReport
  <2>2. QED
    BY <1>1, <2>1 DEF LegacyReport, Record
<1>2. CASE ~Unkeyed(e) /\ open = {}
  <2>1. x = OpenEpisode(r, e, t)
    BY <1>2 DEF ManualReport
  <2>2. QED
    BY <1>2, <2>1 DEF OpenEpisode, Opens, Entry, Frozen, Record
<1>3. CASE ~Unkeyed(e) /\ open # {}
  <2>1. PICK d \in open : x = IF Redelivered(d, e) THEN r ELSE MergeReport(r, d, e, t)
    BY <1>3 DEF ManualReport
  <2>2. d \in r.manual /\ ~Unkeyed(d)
    BY DEF OpenEpisodes
  <2>3. CASE Redelivered(d, e)
    BY <2>1, <2>3
  <2>4. CASE ~Redelivered(d, e)
    <3>1. x = MergeReport(r, d, e, t)
      BY <2>1, <2>4
    <3>2. x.closed = r.closed /\ Merges(r, x, d, e, t)
      BY <2>2, <2>4, <3>1 DEF MergeReport, Merges, Merged, Record, Manual
    <3>3. QED
      BY <2>2, <3>2
  <2>5. QED
    BY <2>3, <2>4
<1>4. QED
  BY <1>1, <1>2, <1>3

\* The closed episode that d becomes.
Closes(r, x, d, y) ==
  /\ ~Unkeyed(d)
  /\ x.manual = r.manual \ {d}
  /\ x.ctx = { c \in r.ctx : EpisodeId(c) # EpisodeId(d) }
  /\ x.closed = r.closed \cup {y}
  /\ y.component = d.component /\ y.fault = d.fault
  /\ y.detected = d.detected /\ y.sources = d.sources
  /\ y.frozen = FrozenFor(r, d)

\* A resolution closes one open episode or does nothing.
LEMMA ResolveCases ==
  ASSUME NEW r \in Record, NEW e \in ResolutionEvent, NEW t \in Nat,
         NEW x, x = ManualResolve(r, e, t)
  PROVE  x = r \/ \E d \in r.manual : \E y : Closes(r, x, d, y)
<1> DEFINE open == OpenEpisodes(r.manual, EpisodeId(e))
<1>1. CASE e.fault = Blank \/ open = {}
  BY <1>1 DEF ManualResolve
<1>2. CASE ~ (e.fault = Blank \/ open = {})
  <2>1. PICK d \in open : x = CloseEpisode(r, d, e, t)
    BY <1>2 DEF ManualResolve
  <2>2. d \in r.manual /\ ~Unkeyed(d)
    BY DEF OpenEpisodes
  <2> DEFINE y == [component |-> d.component, fault |-> d.fault,
                   severity |-> d.severity, detected |-> d.detected,
                   sources |-> d.sources,
                   cleared |-> IF e.recordedAt = Blank THEN t ELSE e.recordedAt,
                   frozen |-> FrozenFor(r, d)]
  <2>3. Closes(r, x, d, y)
    BY <2>1, <2>2 DEF CloseEpisode, Closes, Record
  <2>4. QED
    BY <2>2, <2>3
<1>3. QED
  BY <1>1, <1>2

-----------------------------------------------------------------------------
(* The invariant, one operator at a time.                                   *)

\* Time passing breaks nothing.
LEMMA OpenLater ==
  ASSUME NEW manual \in SUBSET Manual, NEW t \in Nat, NEW u \in Nat, t <= u,
         OpenInv(manual, t)
  PROVE  OpenInv(manual, u)
<1>1. \A d \in manual : d.detected \in Nat
  BY DEF Manual
<1>2. \A d \in manual : d.detected < u
  BY <1>1 DEF OpenInv
<1>3. QED
  BY <1>2 DEF OpenInv

LEMMA EpisodesLater ==
  ASSUME NEW r \in Record, NEW t \in Nat, NEW u \in Nat, t <= u, EpisodesInv(r, t)
  PROVE  EpisodesInv(r, u)
<1>1. r.manual \in SUBSET Manual /\ \A x \in r.closed : x.detected \in Nat
  BY DEF Record, Closed
<1>2. OpenInv(r.manual, u)
  BY <1>1, OpenLater DEF EpisodesInv
<1>3. \A x \in r.closed : x.detected < u
  BY <1>1 DEF EpisodesInv, ClosedInv
<1>4. QED
  BY <1>2, <1>3 DEF EpisodesInv, ClosedInv

\* An entry observed at t joins entries observed before, if none of them has
\* its key or it has none.
LEMMA OpenJoins ==
  ASSUME NEW manual \in SUBSET Manual, NEW t \in Nat, OpenInv(manual, t),
         NEW d, d.detected = t, NEW s, d.sources \subseteq {s},
         Unkeyed(d) \/ \A x \in manual : EpisodeId(x) # EpisodeId(d)
  PROVE  OpenInv(manual \cup {d}, t + 1)
<1>1. \A x \in manual : x.detected \in Nat
  BY DEF Manual
<1>2. \A x \in manual \cup {d} : x.detected < t + 1
  BY <1>1 DEF OpenInv
<1>3. \A x, y : EpisodeId(x) = EpisodeId(y) => (Unkeyed(x) <=> Unkeyed(y))
  BY DEF EpisodeId, Unkeyed
<1>4. ASSUME NEW a \in manual \cup {d}, NEW b \in manual \cup {d},
             EpisodeId(a) = EpisodeId(b), ~Unkeyed(a)
      PROVE  a = b
  BY <1>3, <1>4 DEF OpenInv
<1>5. ASSUME NEW x \in manual \cup {d}, NEW a \in x.sources, NEW b \in x.sources,
             a.event = b.event, a.event # Blank
      PROVE  a = b
  BY <1>5 DEF OpenInv
<1>6. QED
  BY <1>2, <1>4, <1>5 DEF OpenInv

\* What merging leaves of an entry: its key and its time; the sources grow by
\* one, and the severity does not fall.
LEMMA MergedFields ==
  ASSUME NEW d \in Manual, NEW e \in ReportEvent, NEW t
  PROVE  /\ EpisodeId(Merged(d, e, t)) = EpisodeId(d)
         /\ Unkeyed(Merged(d, e, t)) <=> Unkeyed(d)
         /\ Merged(d, e, t).detected = d.detected
         /\ Merged(d, e, t).sources = d.sources \cup {[event |-> e.event, at |-> t]}
         /\ Merged(d, e, t).severity >= d.severity
<1>1. d.severity \in Nat /\ e.severity \in Nat
  BY DEF Manual, ReportEvent, Severities, SEVERITY_INFO, SEVERITY_CRITICAL
<1>2. QED
  BY <1>1 DEF Merged, Manual, EpisodeId, Unkeyed

\* A report that was not recognised as known has an event id of its own.
LEMMA OpenMerges ==
  ASSUME NEW manual \in SUBSET Manual, NEW t \in Nat, OpenInv(manual, t),
         NEW d \in manual, ~Unkeyed(d), NEW e \in ReportEvent, ~Redelivered(d, e)
  PROVE  OpenInv((manual \ {d}) \cup {Merged(d, e, t)}, t + 1)
<1> DEFINE m == Merged(d, e, t)
           source == [event |-> e.event, at |-> t]
<1>1. /\ EpisodeId(m) = EpisodeId(d) /\ m.detected = d.detected
      /\ m.sources = d.sources \cup {source}
      /\ source.event = e.event
  BY MergedFields
<1>2. \A x \in manual : x.detected \in Nat
  BY DEF Manual
<1>3. e.event # Blank => \A s \in d.sources : s.event # e.event
  BY DEF Redelivered
<1> HIDE DEF m, source
<1>4. ASSUME NEW a \in (manual \ {d}) \cup {m}, NEW b \in (manual \ {d}) \cup {m},
             EpisodeId(a) = EpisodeId(b), ~Unkeyed(a)
      PROVE  a = b
  <2>1. \A x \in manual \ {d} : EpisodeId(x) # EpisodeId(d)
    BY DEF OpenInv
  <2>2. QED
    BY <1>1, <1>4, <2>1 DEF OpenInv
<1>5. ASSUME NEW x \in (manual \ {d}) \cup {m}, NEW a \in x.sources, NEW b \in x.sources,
             a.event = b.event, a.event # Blank
      PROVE  a = b
  BY <1>1, <1>3, <1>5 DEF OpenInv
<1>6. \A x \in (manual \ {d}) \cup {m} : x.detected < t + 1
  BY <1>1, <1>2 DEF OpenInv
<1>7. QED
  BY <1>4, <1>5, <1>6 DEF OpenInv, m

\* A report keeps the invariant, whichever path it takes.
LEMMA ReportKeepsEpisodes ==
  ASSUME NEW r \in Record, NEW e \in ReportEvent, NEW t \in Nat, EpisodesInv(r, t),
         NEW x \in Record, x = ManualReport(r, e, t)
  PROVE  EpisodesInv(x, t + 1)
<1>1. r.manual \in SUBSET Manual /\ OpenInv(r.manual, t)
  BY DEF Record, EpisodesInv
<1>2. /\ \A d \in r.manual : d.detected \in Nat /\ d.detected < t
      /\ \A y \in r.closed : y.detected \in Nat /\ y.detected < t /\ ~Unkeyed(y)
  BY DEF Record, Manual, Closed, EpisodesInv, OpenInv, ClosedInv
<1>3. x.closed = r.closed
  BY ReportCases
<1>4. \A a, b : EpisodeId(a) = EpisodeId(b) => (Unkeyed(a) <=> Unkeyed(b))
  BY DEF EpisodeId, Unkeyed
\* Whatever joins at t was observed after everything that is closed.
<1>5. ASSUME NEW d, d.detected = t, x.manual = r.manual \cup {d}
      PROVE  ClosedInv(x, t + 1)
  <2>1. \A y \in x.closed, z \in x.manual :
          EpisodeId(y) = EpisodeId(z) => y.detected < z.detected
    BY <1>2, <1>3, <1>5 DEF EpisodesInv, ClosedInv
  <2>2. \A y \in x.closed : ~Unkeyed(y) /\ y.detected < t + 1
    BY <1>2, <1>3
  <2>3. QED
    BY <1>3, <2>1, <2>2 DEF EpisodesInv, ClosedInv
<1>6. CASE Unkeyed(e) /\ x.ctx = r.ctx /\ x.manual = r.manual \cup {NewManual(e, {}, t)}
  <2> DEFINE d == NewManual(e, {}, t)
  <2>1. d.detected = t /\ d.sources = {} /\ Unkeyed(d)
    BY <1>6 DEF NewManual, Unkeyed
  <2> HIDE DEF d
  <2>2. x.manual = r.manual \cup {d}
    BY <1>6 DEF d
  <2>3. OpenInv(x.manual, t + 1)
    BY <1>1, <2>1, <2>2, OpenJoins
  <2>4. ContextInv(x)
    BY <1>6, <2>2 DEF EpisodesInv, ContextInv
  <2>5. QED
    BY <1>5, <2>1, <2>2, <2>3, <2>4 DEF EpisodesInv
<1>7. CASE Opens(r, x, e, t)
  <2> DEFINE d == Entry(e, t)
             f == Frozen(r, e, t)
             source == [event |-> e.event, at |-> t]
  <2>1. d.detected = t /\ d.sources = {source} /\ EpisodeId(d) = EpisodeId(e)
    BY DEF Entry, NewManual, EpisodeId
  <2>2. f.detected = t /\ EpisodeId(f) = EpisodeId(e)
    BY DEF Frozen, EpisodeId
  <2>3. /\ ~Unkeyed(e) /\ x.manual = r.manual \cup {d}
        /\ x.ctx = { c \in r.ctx : EpisodeId(c) # EpisodeId(e) } \cup {f}
    BY <1>7 DEF Opens
  <2> HIDE DEF d, f, source
  <2>4. \A y \in r.manual : EpisodeId(y) # EpisodeId(d)
    BY <1>4, <1>7, <2>1, <2>3 DEF Opens, OpenEpisodes
  <2>5. OpenInv(x.manual, t + 1)
    <3>1. d.sources \subseteq {source}
      BY <2>1
    <3>2. OpenInv(r.manual \cup {d}, t + 1)
      BY <1>1, <2>1, <2>4, <3>1, OpenJoins
    <3>3. QED
      BY <2>3, <3>2
  <2>6. ContextInv(x)
    <3>1. \A c \in x.ctx : ~Unkeyed(c)
      BY <1>4, <2>2, <2>3 DEF EpisodesInv, ContextInv
    <3>2. \A c \in x.ctx : \E y \in x.manual :
            EpisodeId(y) = EpisodeId(c) /\ y.detected = c.detected
      BY <2>1, <2>2, <2>3 DEF EpisodesInv, ContextInv
    <3>3. \A a, b \in x.ctx : EpisodeId(a) = EpisodeId(b) => a = b
      BY <2>2, <2>3 DEF EpisodesInv, ContextInv
    <3>4. QED
      BY <3>1, <3>2, <3>3 DEF ContextInv
  <2>7. QED
    BY <1>5, <2>1, <2>3, <2>5, <2>6 DEF EpisodesInv
<1>8. CASE x = r
  <2>1. t + 1 \in Nat /\ t <= t + 1
    OBVIOUS
  <2>2. QED
    BY <1>8, <2>1, EpisodesLater
<1>9. ASSUME NEW d \in r.manual, Merges(r, x, d, e, t)
      PROVE  EpisodesInv(x, t + 1)
  <2> DEFINE m == Merged(d, e, t)
  <2>1. /\ EpisodeId(m) = EpisodeId(d) /\ m.detected = d.detected
        /\ x.manual = (r.manual \ {d}) \cup {m} /\ x.ctx = r.ctx
        /\ ~Unkeyed(d) /\ ~Redelivered(d, e)
    BY <1>1, <1>9, MergedFields DEF Merges
  <2>2. OpenInv(x.manual, t + 1)
    BY <1>1, <2>1, OpenMerges
  <2> HIDE DEF m
  <2>3. ContextInv(x)
    BY <2>1 DEF EpisodesInv, ContextInv
  <2>4. ClosedInv(x, t + 1)
    <3>1. \A y \in x.closed : ~Unkeyed(y) /\ y.detected < t + 1
      BY <1>2, <1>3
    <3>2. \A y \in x.closed, z \in x.manual :
            EpisodeId(y) = EpisodeId(z) => y.detected < z.detected
      BY <1>3, <2>1 DEF EpisodesInv, ClosedInv
    <3>3. QED
      BY <1>3, <3>1, <3>2 DEF EpisodesInv, ClosedInv
  <2>5. QED
    BY <2>2, <2>3, <2>4 DEF EpisodesInv
<1>10. QED
  BY <1>6, <1>7, <1>8, <1>9, ReportCases

\* So does a resolution.
LEMMA ResolveKeepsEpisodes ==
  ASSUME NEW r \in Record, NEW e \in ResolutionEvent, NEW t \in Nat, EpisodesInv(r, t),
         NEW x \in Record, x = ManualResolve(r, e, t)
  PROVE  EpisodesInv(x, t + 1)
<1>0. t + 1 \in Nat /\ t <= t + 1
  OBVIOUS
<1>1. CASE x = r
  BY <1>0, <1>1, EpisodesLater
<1>2. ASSUME NEW d \in r.manual, NEW y, Closes(r, x, d, y)
      PROVE  EpisodesInv(x, t)
  <2>1. /\ EpisodeId(y) = EpisodeId(d) /\ ~Unkeyed(y) /\ y.detected = d.detected
    BY <1>2 DEF Closes, EpisodeId, Unkeyed
  <2>2. /\ x.manual = r.manual \ {d} /\ x.closed = r.closed \cup {y}
        /\ x.ctx = { c \in r.ctx : EpisodeId(c) # EpisodeId(d) } /\ ~Unkeyed(d)
    BY <1>2 DEF Closes
  <2>3. OpenInv(x.manual, t)
    BY <2>2 DEF EpisodesInv, OpenInv
  <2>4. ContextInv(x)
    <3>1. \A c \in x.ctx : \E z \in x.manual :
            EpisodeId(z) = EpisodeId(c) /\ z.detected = c.detected
      BY <2>2 DEF EpisodesInv, ContextInv
    <3>2. QED
      BY <2>2, <3>1 DEF EpisodesInv, ContextInv
  <2>5. ClosedInv(x, t)
    <3>1. d.detected \in Nat /\ \A z \in r.closed : z.detected \in Nat
      BY DEF Record, Manual, Closed
    <3>2. \A z \in r.closed : EpisodeId(z) = EpisodeId(y) => z.detected < y.detected
      BY <2>1 DEF EpisodesInv, ClosedInv
    <3>3. \A z \in x.manual : EpisodeId(z) # EpisodeId(y)
      BY <2>1, <2>2 DEF EpisodesInv, OpenInv
    <3>4. y.detected < t
      BY <2>1 DEF EpisodesInv, OpenInv
    <3>5. \A z \in x.closed : ~Unkeyed(z) /\ z.detected < t
      BY <2>1, <2>2, <3>4 DEF EpisodesInv, ClosedInv
    <3>6. \A z \in x.closed, w \in x.manual :
            EpisodeId(z) = EpisodeId(w) => z.detected < w.detected
      BY <2>2, <3>3 DEF EpisodesInv, ClosedInv
    <3>7. \A z, w \in x.closed :
            EpisodeId(z) = EpisodeId(w) /\ z.detected = w.detected => z = w
      BY <2>1, <2>2, <3>1, <3>2 DEF EpisodesInv, ClosedInv
    <3>8. QED
      BY <3>5, <3>6, <3>7 DEF ClosedInv
  <2>6. QED
    BY <2>3, <2>4, <2>5 DEF EpisodesInv
<1>3. QED
  BY <1>0, <1>1, <1>2, ResolveCases, EpisodesLater

-----------------------------------------------------------------------------
(* What one step keeps: r is the record before it, x the record after it.   *)

\* An episode that x opens is frozen as r stands, and what r has frozen stays
\* or moves into a closed episode.
FrozenStep(r, x) ==
  /\ \A d \in x.manual :
       \/ Unkeyed(d)
       \/ \E old \in r.manual :
            EpisodeId(old) = EpisodeId(d) /\ old.detected = d.detected
       \/ [component |-> d.component, fault |-> d.fault,
           detected |-> d.detected, baseline |-> r.baseline,
           mods |-> r.mods] \in x.ctx
  /\ \A c \in r.ctx :
       \/ c \in x.ctx
       \/ \E y \in x.closed :
            /\ EpisodeId(y) = EpisodeId(c) /\ y.detected = c.detected
            /\ y.frozen = [baseline |-> c.baseline, mods |-> c.mods]

\* What is closed stays closed, and what is open stays open with all its
\* sources and no lower severity, or closes with them.
HistoryStep(r, x) ==
  /\ r.closed \subseteq x.closed
  /\ \A d \in r.manual :
       \/ \E d2 \in x.manual :
            /\ EpisodeId(d2) = EpisodeId(d) /\ d2.detected = d.detected
            /\ d.sources \subseteq d2.sources /\ d2.severity >= d.severity
       \/ \E y \in x.closed :
            /\ EpisodeId(y) = EpisodeId(d) /\ y.detected = d.detected
            /\ y.sources = d.sources

\* A step that leaves the episodes alone keeps them.
LEMMA SameSteps ==
  ASSUME NEW r \in Record, NEW x, SameEpisodes(r, x)
  PROVE  FrozenStep(r, x) /\ HistoryStep(r, x)
<1>1. \A d \in r.manual : d.severity >= d.severity
  BY DEF Record, Manual, Severities, SEVERITY_INFO, SEVERITY_CRITICAL
<1>2. QED
  BY <1>1 DEF SameEpisodes, FrozenStep, HistoryStep

\* A report opens at most the episode it freezes the configuration for; an
\* earlier context with its key would belong to an open entry, and then it
\* opens nothing.
LEMMA ReportSteps ==
  ASSUME NEW r \in Record, NEW e \in ReportEvent, NEW t \in Nat, EpisodesInv(r, t),
         NEW x, x = ManualReport(r, e, t)
  PROVE  FrozenStep(r, x) /\ HistoryStep(r, x)
<1>1. \A d \in r.manual : d.severity >= d.severity /\ d \in Manual
  BY DEF Record, Manual, Severities, SEVERITY_INFO, SEVERITY_CRITICAL
<1>2. x.closed = r.closed
  BY ReportCases
<1>3. CASE Unkeyed(e) /\ x.ctx = r.ctx /\ x.manual = r.manual \cup {NewManual(e, {}, t)}
  <2>1. Unkeyed(NewManual(e, {}, t))
    BY <1>3 DEF NewManual, Unkeyed
  <2>2. QED
    BY <1>1, <1>2, <1>3, <2>1 DEF FrozenStep, HistoryStep
<1>4. CASE Opens(r, x, e, t)
  <2> DEFINE d == Entry(e, t)
  <2>1. /\ x.manual = r.manual \cup {d}
        /\ x.ctx = { c \in r.ctx : EpisodeId(c) # EpisodeId(e) } \cup {Frozen(r, e, t)}
    BY <1>4 DEF Opens
  <2>2. Frozen(r, e, t) = [component |-> d.component, fault |-> d.fault,
                           detected |-> d.detected, baseline |-> r.baseline,
                           mods |-> r.mods]
    BY DEF Frozen, Entry, NewManual
  <2> HIDE DEF d
  <2>3. \A c \in r.ctx : EpisodeId(c) # EpisodeId(e)
    <3> SUFFICES ASSUME NEW c \in r.ctx, EpisodeId(c) = EpisodeId(e)
                 PROVE  FALSE
      OBVIOUS
    <3>1. PICK o \in r.manual : EpisodeId(o) = EpisodeId(c)
      BY DEF EpisodesInv, ContextInv
    <3>2. ~Unkeyed(o)
      BY <1>4, <3>1 DEF Opens, EpisodeId, Unkeyed
    <3>3. o \in OpenEpisodes(r.manual, EpisodeId(e))
      BY <3>1, <3>2 DEF OpenEpisodes
    <3>4. QED
      BY <1>4, <3>3 DEF Opens
  <2>4. FrozenStep(r, x)
    BY <2>1, <2>2, <2>3 DEF FrozenStep
  <2>5. HistoryStep(r, x)
    BY <1>1, <1>2, <2>1 DEF HistoryStep
  <2>6. QED
    BY <2>4, <2>5
<1>5. CASE x = r
  BY <1>5, SameSteps DEF SameEpisodes
<1>6. ASSUME NEW d \in r.manual, Merges(r, x, d, e, t)
      PROVE  FrozenStep(r, x) /\ HistoryStep(r, x)
  <2> DEFINE m == Merged(d, e, t)
  <2>1. /\ EpisodeId(m) = EpisodeId(d) /\ m.detected = d.detected
        /\ d.sources \subseteq m.sources /\ m.severity >= d.severity
    BY <1>1, MergedFields
  <2>2. x.manual = (r.manual \ {d}) \cup {m} /\ x.ctx = r.ctx
    BY <1>6 DEF Merges
  <2> HIDE DEF m
  <2>3. FrozenStep(r, x)
    BY <2>1, <2>2 DEF FrozenStep
  <2>4. HistoryStep(r, x)
    BY <1>1, <1>2, <2>1, <2>2 DEF HistoryStep
  <2>5. QED
    BY <2>3, <2>4
<1>7. QED
  BY <1>3, <1>4, <1>5, <1>6, ReportCases

\* A resolution moves the entry with its sources, and its one frozen context,
\* into the closed episode.
LEMMA ResolveSteps ==
  ASSUME NEW r \in Record, NEW e \in ResolutionEvent, NEW t \in Nat, EpisodesInv(r, t),
         NEW x, x = ManualResolve(r, e, t)
  PROVE  FrozenStep(r, x) /\ HistoryStep(r, x)
<1>1. \A d \in r.manual : d.severity >= d.severity
  BY DEF Record, Manual, Severities, SEVERITY_INFO, SEVERITY_CRITICAL
<1>2. CASE x = r
  BY <1>2, SameSteps DEF SameEpisodes
<1>3. ASSUME NEW d \in r.manual, NEW y, Closes(r, x, d, y)
      PROVE  FrozenStep(r, x) /\ HistoryStep(r, x)
  <2>1. /\ x.manual = r.manual \ {d} /\ x.closed = r.closed \cup {y}
        /\ x.ctx = { c \in r.ctx : EpisodeId(c) # EpisodeId(d) }
        /\ EpisodeId(y) = EpisodeId(d) /\ y.detected = d.detected
        /\ y.sources = d.sources /\ y.frozen = FrozenFor(r, d) /\ ~Unkeyed(d)
    BY <1>3 DEF Closes, EpisodeId
  <2>2. ASSUME NEW c \in r.ctx, EpisodeId(c) = EpisodeId(d)
        PROVE  /\ EpisodeId(y) = EpisodeId(c) /\ y.detected = c.detected
               /\ y.frozen = [baseline |-> c.baseline, mods |-> c.mods]
    <3> DEFINE held == { h \in r.ctx : EpisodeId(h) = EpisodeId(d) }
    <3>1. held = {c}
      BY <2>2 DEF EpisodesInv, ContextInv
    <3>2. (CHOOSE h \in held : TRUE) = c
      BY <3>1
    <3>3. FrozenFor(r, d) = [baseline |-> c.baseline, mods |-> c.mods]
      BY <3>1, <3>2 DEF FrozenFor
    <3>4. PICK o \in r.manual : EpisodeId(o) = EpisodeId(c) /\ o.detected = c.detected
      BY DEF EpisodesInv, ContextInv
    <3>5. o = d
      BY <2>1, <2>2, <3>4 DEF EpisodesInv, OpenInv
    <3>6. QED
      BY <2>1, <2>2, <3>3, <3>4, <3>5
  <2>3. FrozenStep(r, x)
    BY <2>1, <2>2 DEF FrozenStep
  <2>4. HistoryStep(r, x)
    BY <1>1, <2>1 DEF HistoryStep
  <2>5. QED
    BY <2>3, <2>4
<1>4. QED
  BY <1>2, <1>3, ResolveCases
=============================================================================
