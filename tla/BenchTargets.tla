---------------------------- MODULE BenchTargets ----------------------------
(***************************************************************************)
(* cmd/gps-vegeta-targets: the generators of one benchmark run, one for    *)
(* each shard of the drivers.  Each reads the recorded file and writes it  *)
(* cycle after cycle as targets for POST /v1/gps-events, every cycle later *)
(* than the one before, until its cycles are over or Vegeta closes the     *)
(* pipe.                                                                   *)
(*                                                                         *)
(* A row is a record of its columns, as in Canonical: a number is Nil when *)
(* its text is empty, Infinite when it is not finite.  Seconds of NaN,     *)
(* which parseRecordedAtMS lets through to an int64 that depends on the    *)
(* machine, are left out.                                                  *)
(***************************************************************************)
EXTENDS Canonical, Selection

CONSTANTS
  Recording,   (* recorded files: sequences of rows                          *)
  Flags,       (* [cycles, maxDrivers, eventsPerDriver, timeShift]; a zero   *)
               (* stands for no limit                                        *)
  ShardCount,
  MaxTargets   (* bound: targets that Vegeta takes from a generator          *)

ASSUME BenchAssumption ==
  /\ ShardCount \in Nat \ {0} /\ MaxTargets \in Nat
  /\ \A f \in Flags : {f.cycles, f.maxDrivers, f.eventsPerDriver} \subseteq Nat /\ f.timeShift \in Int
  /\ Nil \notin Int
  /\ \A f \in Recording : f \in Seq(ToSet(f)) /\ \A i \in DOMAIN f : f[i].time \in Int \cup {Nil}

VARIABLES
  recording, flags,   (* what all generators are given                        *)
  generators,    (* each one's state: [pc, drivers, span, cycle, sequence,    *)
                 (* index], the last three its loops' variables               *)
  targets        (* history: the bodies that each has encoded                 *)

benchVars == <<recording, flags, generators, targets>>

Shard == 0..(ShardCount - 1)

-----------------------------------------------------------------------------
Optional(number) == IF number = Nil THEN -1 ELSE number

(* What parsePoint accepts; the stamp's own minute is not read.            *)
PointAccepted(row) ==
  /\ Nil \notin {row.time, row.t_timestamp}
  /\ row.t_timestamp.tenths \in 0..(MinuteTenths - 1)
  /\ row.lng \in -180..180 /\ row.lat \in -90..90
  /\ Optional(row.speed) \in Nat \cup {-1}
  /\ Optional(row.bearing) \in -1..359
  /\ Optional(row.horizontal_acc) \in Nat \cup {-1}

PointOf(row) == row.time * MinuteMs + RoundedMs(row.t_timestamp.tenths)

NoDrivers == [drivers |-> <<>>, failed |-> FALSE, minimum |-> 0, maximum |-> 0]

IndexOf(drivers, id) ==
  IF \E i \in DOMAIN drivers : drivers[i].id = id
  THEN CHOOSE i \in DOMAIN drivers : drivers[i].id = id
  ELSE Len(drivers) + 1

(* readCSV's loop: rows beyond a limit are passed over before they are     *)
(* parsed.  Zero stands for a minimum not set yet.                         *)
ReadRow(limits, soFar, row) ==
  LET id == Trimmed[row.driver_id]
      i == IndexOf(soFar.drivers, id)
      isNew == i > Len(soFar.drivers)
      points == IF isNew THEN <<>> ELSE soFar.drivers[i].points
      at == PointOf(row)
  IN  IF soFar.failed \/ id = "" THEN [soFar EXCEPT !.failed = TRUE]
      ELSE IF isNew /\ limits.maxDrivers \in 1..Len(soFar.drivers) THEN soFar
      ELSE IF limits.eventsPerDriver \in 1..Len(points) THEN soFar
      ELSE IF ~PointAccepted(row) THEN [soFar EXCEPT !.failed = TRUE]
      ELSE [drivers |-> IF isNew
                        THEN Append(soFar.drivers, [id |-> id, points |-> <<at>>])
                        ELSE [soFar.drivers EXCEPT ![i].points = Append(@, at)],
            failed |-> FALSE,
            minimum |-> IF soFar.minimum = 0 \/ at < soFar.minimum THEN at ELSE soFar.minimum,
            maximum |-> IF at > soFar.maximum THEN at ELSE soFar.maximum]

ReadCSV(rows, limits) ==
  LET read[n \in 0..Len(rows)] ==
        IF n = 0 THEN NoDrivers ELSE ReadRow(limits, read[n - 1], rows[n])
  IN  read[Len(rows)]

Read == ReadCSV(recording, flags)

(* selectDriverShard, and the same with a comparison in place of equality. *)
SelectUpTo(drivers, shard) ==
  SelectAt(drivers, {n \in DOMAIN drivers : (n - 1) % ShardCount <= shard})

SelectDriverShard(drivers, shard) ==
  SelectAt(drivers, {n \in DOMAIN drivers : (n - 1) % ShardCount = shard})

(* The time from one cycle to the next, and the same without its minute.   *)
TightSpan(read) == read.maximum - read.minimum

CycleSpan(read) == read.maximum - read.minimum + MinuteMs

-----------------------------------------------------------------------------
BenchInit ==
  /\ recording \in Recording
  /\ flags \in Flags
  /\ generators = [s \in Shard |-> [pc |-> "reading", drivers |-> <<>>, span |-> 0,
                                    cycle |-> 0, sequence |-> 0, index |-> 1]]
  /\ targets = [s \in Shard |-> <<>>]

Become(s, state) == generators' = [generators EXCEPT ![s] = state]

(* A file that cannot be used, or no driver for this shard.                *)
ReadFails(s) ==
  /\ generators[s].pc = "reading"
  /\ \/ Read.failed
     \/ SelectDriverShard(Read.drivers, s) = <<>>
     \/ CycleSpan(Read) <= 0
  /\ Become(s, [generators[s] EXCEPT !.pc = "failed"])
  /\ UNCHANGED <<recording, flags, targets>>

ReadFile(s) ==
  LET drivers == SelectDriverShard(Read.drivers, s)
  IN  /\ generators[s].pc = "reading"
      /\ ~Read.failed /\ drivers # <<>> /\ CycleSpan(Read) > 0
      /\ Become(s, [generators[s] EXCEPT !.pc = "writing", !.drivers = drivers, !.span = CycleSpan(Read)])
      /\ UNCHANGED <<recording, flags, targets>>

-----------------------------------------------------------------------------
(* writeCycle: the first points of all drivers, then their second ones.    *)
Has(driver, sequence) == sequence < Len(driver.points)

EventsLeft(g) == \E i \in DOMAIN g.drivers : Has(g.drivers[i], g.sequence)

Advanced(g) ==
  IF g.index < Len(g.drivers)
  THEN [g EXCEPT !.index = @ + 1]
  ELSE [g EXCEPT !.sequence = @ + 1, !.index = 1]

(* The body of a target; the fields of canonicalEvent.                     *)
Target(g) ==
  LET driver == g.drivers[g.index]
  IN  [event_id |-> [cycle |-> g.cycle, driver |-> driver.id, sequence |-> g.sequence],
       driver_id |-> driver.id,
       recorded_at_ms |-> driver.points[g.sequence + 1] + (flags.timeShift + g.cycle * g.span),
       longitude |-> 0, latitude |-> 0, speed_mps |-> 0, heading_deg |-> 0, accuracy_m |-> 0]

WriteTarget(s) ==
  LET g == generators[s]
  IN  /\ g.pc = "writing" /\ Has(g.drivers[g.index], g.sequence)
      /\ Len(targets[s]) < MaxTargets
      /\ targets' = [targets EXCEPT ![s] = Append(@, Target(g))]
      /\ Become(s, Advanced(g))
      /\ UNCHANGED <<recording, flags>>

PassDriver(s) ==
  LET g == generators[s]
  IN  /\ g.pc = "writing" /\ EventsLeft(g) /\ ~Has(g.drivers[g.index], g.sequence)
      /\ Become(s, Advanced(g))
      /\ UNCHANGED <<recording, flags, targets>>

(* After the last cycle the targets are taken as written: the buffered     *)
(* writer's last Flush is deferred and its error ignored.                  *)
NextCycle(s) ==
  LET g == generators[s]
  IN  /\ g.pc = "writing" /\ ~EventsLeft(g)
      /\ Become(s, [g EXCEPT !.pc = IF flags.cycles = g.cycle + 1 THEN "done" ELSE @,
                             !.cycle = @ + 1, !.sequence = 0, !.index = 1])
      /\ UNCHANGED <<recording, flags, targets>>

(* Vegeta closes the pipe, which ends the generator at its next write.     *)
BrokenPipe(s) ==
  /\ generators[s].pc = "writing"
  /\ Become(s, [generators[s] EXCEPT !.pc = "closed"])
  /\ UNCHANGED <<recording, flags, targets>>

BenchNext ==
  \E s \in Shard :
    \/ ReadFails(s) \/ ReadFile(s)
    \/ WriteTarget(s) \/ PassDriver(s) \/ NextCycle(s) \/ BrokenPipe(s)

BenchSpec == BenchInit /\ [][BenchNext]_benchVars

-----------------------------------------------------------------------------
Places == {p \in Shard \X (1..MaxTargets) : p[2] <= Len(targets[p[1]])}

TargetAt(place) == targets[place[1]][place[2]]

(* gps-benchmark/README.md:21, "keeps producing unique event IDs": over    *)
(* all cycles and all shards of a run.  And generators that end by         *)
(* themselves have written, between them, every point that the limits      *)
(* leave, in each of the cycles.                                           *)
EachEventOnce ==
  /\ \A p, q \in Places : p # q => TargetAt(p).event_id # TargetAt(q).event_id
  /\ (\A s \in Shard : generators[s].pc = "done") =>
       \A cycle \in 0..(flags.cycles - 1), d \in DOMAIN Read.drivers :
         \A n \in DOMAIN Read.drivers[d].points :
           \E p \in Places :
             TargetAt(p).event_id = [cycle |-> cycle, driver |-> Read.drivers[d].id, sequence |-> n - 1]

RowsOf(id) ==
  {i \in DOMAIN recording : Trimmed[recording[i].driver_id] = id /\ PointAccepted(recording[i])}

RisesInFile(id) == \A i, j \in RowsOf(id) : i < j => PointOf(recording[i]) < PointOf(recording[j])

(* No point at the first moment of 1970, which readCSV takes for a minimum *)
(* not set.                                                                *)
NoneAtZero == \A i \in DOMAIN recording : PointAccepted(recording[i]) => PointOf(recording[i]) # 0

(* The same line, "monotonically increasing timestamps": the times of a    *)
(* driver rise across cycles too, if they rise in the file and none in it  *)
(* is zero; and (README.md:45) all of them are in one shard's output.      *)
DriverTimesRise ==
  \A p, q \in Places :
    TargetAt(p).driver_id = TargetAt(q).driver_id =>
      /\ p[1] = q[1]
      /\ p[2] < q[2] /\ NoneAtZero /\ RisesInFile(TargetAt(p).driver_id)
           => TargetAt(p).recorded_at_ms < TargetAt(q).recorded_at_ms

(* gps-vegeta-targets/main.go:126, "location-service GPS endpoint": the    *)
(* targets are what that endpoint takes.  Violated: it refuses every one   *)
(* for its unknown fields.                                                 *)
TargetsDecode == \A p \in Places : ~DecodeRefused(TargetAt(p))
=============================================================================
