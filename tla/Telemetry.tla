------------------------------ MODULE Telemetry ------------------------------
(***************************************************************************)
(* Alerts from the samples a screen sends each minute.  evaluateThresholds *)
(* keeps nothing: it reads back the rows of the last minutes, as many as   *)
(* its LIMIT lets it, oldest first, and takes the last of them for the     *)
(* sample just stored.  One measure at a time is followed here.            *)
(***************************************************************************)
EXTENDS Integers, Sequences

CONSTANTS
  Window,      \* minutes whose rows are read, the new one included
  Sustained    \* cpu_warn_consecutive_ticks

ASSUME TelemetryAssumption == Window \in Nat \ {0} /\ Sustained \in Nat \ {0, 1}

VARIABLES
  measure,   \* the measure followed, and the level of interest
  recent,    \* the samples of the last minutes, oldest first
  alert,     \* fired for the last sample, if any
  \* for the properties:
  streak     \* samples at that level on end, from one at "ok" on, and whether an alert told of them
telemetryVars == <<measure, recent, alert, streak>>

Silent == "silent"      \* no sample that minute, or none that was stored
Measures == {[of |-> "disk", level |-> "warn"]} \cup [of : {"disk", "cpu", "temp"}, level : {"crit"}]
\* of disks: more than 10 % free, at most that, at most 5 %; "temp" stands for
\* the hottest sensor, and for mpv's death as well, which is looked at alike
Samples == IF measure.of = "disk" THEN {"ok", "warn", "crit"} ELSE {"ok", "crit"}

NoStreak == [n |-> 0, told |-> FALSE]
InitTelemetry ==
  /\ measure \in Measures
  /\ recent = <<>> /\ alert = "none" /\ streak = NoStreak

\* ORDER BY recorded_at ASC LIMIT cpu_warn_consecutive_ticks + 2
getClientTelemetryRange(minutes) ==
  LET rows == SelectSeq(minutes, LAMBDA s : s # Silent) IN
  SubSeq(rows, 1, IF Len(rows) < Sustained + 2 THEN Len(rows) ELSE Sustained + 2)

\* recent.slice(0, -1)
EarlierRows(minutes) ==
  LET rows == getClientTelemetryRange(minutes) IN SubSeq(rows, 1, Len(rows) - 1)

Some(rows, levels) == \E i \in DOMAIN rows : rows[i] \in levels

DiskAlert(now, previous) ==
  IF now = "crit" /\ Some(previous, {"ok", "warn"}) THEN "crit"
  ELSE IF now = "warn" /\ Some(previous, {"ok"}) THEN "warn" ELSE "none"

\* A variant of CpuAlert: the row before the new one is looked at for the edge
EdgeAtRowBefore(now, previous) ==
  LET n == Len(previous)
      allOver == n >= Sustained - 1 /\ \A i \in (n - Sustained + 2)..n : previous[i] = "crit"
      risingEdge == n = 0 \/ previous[n] = "ok"
  IN  IF now = "crit" /\ allOver /\ risingEdge THEN "crit" ELSE "none"

CpuAlert(now, previous) ==
  LET n == Len(previous)
      allOver == n >= Sustained - 1 /\ \A i \in (n - Sustained + 2)..n : previous[i] = "crit"
      risingEdge == n < Sustained \/ previous[n - Sustained + 1] = "ok"
  IN  IF now = "crit" /\ allOver /\ risingEdge THEN "crit" ELSE "none"

TempAlert(now, previous) ==
  IF now = "crit" /\ (previous = <<>> \/ previous[Len(previous)] = "ok") THEN "crit" ELSE "none"

evaluateThresholds(minutes) ==
  LET now == minutes[Len(minutes)]
      previous == EarlierRows(minutes)
  IN  CASE measure.of = "disk" -> DiskAlert(now, previous)
        [] measure.of = "cpu" -> CpuAlert(now, previous)
        [] measure.of = "temp" -> TempAlert(now, previous)

LastSample == IF recent = <<>> THEN Silent ELSE recent[Len(recent)]
Goes(now) ==
  IF now # measure.level THEN NoStreak
  ELSE IF LastSample = "ok" THEN [n |-> 1, told |-> alert' = measure.level]
  ELSE IF streak.n = 0 THEN NoStreak
  ELSE [n |-> IF streak.n < Window THEN streak.n + 1 ELSE Window,
        told |-> streak.told \/ alert' = measure.level]

\* a minute, and handleTelemetry of its sample: stored first, evaluated then
Minute(now) ==
  LET kept == IF Len(recent) < Window THEN recent ELSE Tail(recent)
      minutes == Append(kept, now)
  IN  /\ recent' = minutes
      /\ alert' = IF now = Silent THEN "none" ELSE evaluateThresholds(minutes)
      /\ streak' = Goes(now)
      /\ UNCHANGED measure

TimePasses == \E now \in Samples \cup {Silent} : Minute(now)

\* A screen heard from every minute whose measure has gone from "ok" to a level
\* it kept for all the minutes that are read back has been told of, though the
\* rows looked at are not the last ones.
SustainedIsTold ==
  streak.n = Window /\ (\A i \in DOMAIN recent : recent[i] # Silent) => streak.told
=============================================================================
