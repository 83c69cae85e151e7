---------------------------- MODULE Ledger_proofs ----------------------------
(***************************************************************************)
(* Proofs about the books of a session, for any number of sessions, users  *)
(* and requests: what each statement writes is of its type, the stored     *)
(* energy is the meter's, the lifetime statistics are exact, and the       *)
(* charge a session delivered is kept.                                     *)
(***************************************************************************)
EXTENDS Ledger, FiniteSetTheorems, SequenceTheorems, TLAPS

----------------------------------------------------------------------------
(* The arithmetic of Energy.                                               *)

\* What the meter can show, and what a caller may have read of a row.
Readings == {NoReading} \cup [total : 1 .. MaxMeter, power : {0, 1}]

Rows == [st : InProgress \cup Gone, start : 0 .. Capacity, target : 0 .. Capacity,
         base : None .. MaxMeter, blended : Energies, end : None .. Capacity,
         battery : None .. Capacity]

Snapshots == [start : 0 .. Capacity, base : None .. MaxMeter, target : 0 .. Capacity,
              blended : Energies]

Stops == [pc : {"write", "off", "count"}, s : Sessions, target : 0 .. Capacity,
          end : 0 .. Capacity, battery : 0 .. Capacity]

UserOps ==
    {Idle} \cup Stops
        \cup [pc : {"start"}, start : 0 .. Capacity, target : 0 .. Capacity, base : None .. MaxMeter]
        \cup [pc : {"confirm", "undo"}, s : Sessions]
        \cup [pc : {"decrement", "remove"}, s : Sessions, battery : None .. Capacity]

InboundOps == {Idle} \cup [pc : {"save"}, e : Readings]

Progress == [shown : 0 .. Capacity, last : Energies]
CheckerOps ==
    {Idle} \cup Stops
        \cup [pc : {"check"}, s : Sessions, st : Live, row : Snapshots]
        \cup [pc : {"blend", "condition"}, s : Sessions, row : Snapshots, progress : Progress]

LwtOps ==
    {Idle} \cup [pc : {"cancel", "advance"}, s : Sessions, end : None .. Capacity]
        \cup [pc : {"set"}, s : Sessions, end : 0 .. Capacity, target : 0 .. Capacity]

Requests == [s : Sessions, row : Snapshots, e : Readings]


LEMMA Scale ==
    ASSUME NEW a \in Int, NEW b \in Int, NEW k \in Nat, a <= b
    PROVE  a * k <= b * k /\ k * a <= k * b /\ a * k \in Int /\ k * a \in Int /\ k * a = a * k
OBVIOUS

LEMMA NoneIsEnergy == None \in Energies
<1>1. Efficiency * MaxMeter \in Nat
  BY EnergyAssumption, LedgerAssumption
<1> DEFINE most == Efficiency * MaxMeter
<1> HIDE DEF most
<1>2. None \in None .. Capacity + most
  BY <1>1, EnergyAssumption DEF None, most
<1> QED  BY <1>2 DEF Energies, most

LEMMA EnergyTypes == None \in Int /\ Efficiency \in Nat /\ Capacity \in Nat /\ Epsilon \in Nat
BY EnergyAssumption DEF None

\* A clamped value lies in the battery when its bounds do.
LEMMA ClampInRange ==
    ASSUME NEW x \in Int, NEW low \in 0 .. Capacity, NEW high \in 0 .. Capacity
    PROVE  Clamp(x, low, high) \in 0 .. Capacity /\ Clamp(x, low, high) >= low
BY EnergyTypes DEF Clamp, AtLeast

LEMMA ReadingTypes ==
    ASSUME NEW e \in Readings
    PROVE  e.total \in None .. MaxMeter /\ e.power \in Int
BY LedgerAssumption, EnergyTypes DEF Readings, NoReading, None

\* Progress computed from a row's baseline and a reading, whatever their ages,
\* is between the start and what the meter has by now.
LEMMA ProgressIsMetered ==
    ASSUME NEW r, NEW e \in Readings, NEW m \in Nat, e.total <= m,
           r.start \in 0 .. Capacity, r.target \in 0 .. Capacity,
           r.base \in 0 .. m, r.blended \in Int,
           r.blended # None => r.blended \in r.start .. r.start + Efficiency * (m - r.base)
    PROVE  /\ CalculateProgress(r, e).last \in r.start .. r.start + Efficiency * (m - r.base)
           /\ CalculateProgress(r, e).shown \in r.start .. Capacity
<1>1. e.total \in Int
  BY ReadingTypes
<1>2. /\ Gain(r, e) \in Int /\ Gain(r, e) <= Efficiency * (m - r.base)
      /\ Efficiency * (m - r.base) \in Nat
  <2>1. e.total - r.base \in Int /\ m - r.base \in Nat /\ e.total - r.base <= m - r.base
    BY <1>1
  <2> QED  BY <2>1, Scale, EnergyTypes DEF Gain
<1> DEFINE g == Gain(r, e)
           top == Efficiency * (m - r.base)
<1> HIDE DEF g, top
<1>3. CalcBlendedKwh(r, e) \in r.start .. r.start + top
  <2>1. g \in Int /\ g <= top /\ top \in Nat
    BY <1>2 DEF g, top
  <2>2. CalcBlendedKwh(r, e) = IF e.power > 0 /\ g > Epsilon THEN r.start + g ELSE r.start
    BY DEF CalcBlendedKwh, g
  <2> QED  BY <2>1, <2>2, EnergyTypes
<1>4. CalculateProgress(r, e).last \in r.start .. r.start + top
  <2>1. top \in Nat
    BY <1>2 DEF top
  <2>2. r.blended # None => r.blended \in r.start .. r.start + top
    BY DEF top
  <2> QED  BY <1>3, <2>1, <2>2, EnergyTypes DEF CalculateProgress, AtLeast
<1>5. CalculateProgress(r, e).last \in Int
  BY <1>4, <1>2 DEF top
<1>6. CalculateProgress(r, e).shown \in r.start .. Capacity
  <2>1. CalculateProgress(r, e).shown = Clamp(CalculateProgress(r, e).last, r.start, r.target)
    BY DEF CalculateProgress
  <2>2. Capacity \in Nat
    BY EnergyTypes
  <2>3. /\ Clamp(CalculateProgress(r, e).last, r.start, r.target) \in 0 .. Capacity
        /\ Clamp(CalculateProgress(r, e).last, r.start, r.target) >= r.start
    BY <1>5, ClampInRange
  <2> QED  BY <2>1, <2>2, <2>3
<1> QED  BY <1>4, <1>6 DEF top

\* Whatever an end is computed from, it is a charge the battery can have.
LEMMA EndsInRange ==
    ASSUME NEW r, NEW e \in Readings, NEW m \in Nat, e.total <= m,
           r.start \in 0 .. Capacity, r.target \in 0 .. Capacity,
           r.base \in None .. m, r.blended \in Int,
           r.blended # None => /\ r.base # None
                               /\ r.blended \in r.start .. r.start + Efficiency * (m - r.base)
    PROVE  /\ EndFromEnergy(r, e) \in 0 .. Capacity
           /\ \A percent \in 0 .. Capacity : EndData(r, e, percent) \in 0 .. Capacity
           /\ HandStopPercent(r, e) \in 0 .. Capacity
           /\ CancelPercent(r, e) \in None .. Capacity
<1> USE EnergyTypes
<1>1. Gain(r, e) \in Int
  <2>1. e.total - r.base \in Int
    BY ReadingTypes
  <2> QED  BY <2>1, Scale DEF Gain
<1>2. Clamp(r.start + Gain(r, e), 0, Capacity) \in 0 .. Capacity
  <2>1. r.start + Gain(r, e) \in Int /\ 0 \in 0 .. Capacity /\ Capacity \in 0 .. Capacity
    BY <1>1
  <2> QED  BY <2>1, ClampInRange
<1>3. EndFromEnergy(r, e) \in 0 .. Capacity
  BY <1>2 DEF EndFromEnergy
<1>4. \A percent \in 0 .. Capacity : EndData(r, e, percent) \in 0 .. Capacity
  BY <1>3 DEF EndData
<1>5. CurrentPercentFromBlended(r) \in None .. Capacity
  <2>1. Clamp(r.blended, r.start, r.target) \in 0 .. Capacity
    BY ClampInRange
  <2> QED  BY <2>1 DEF CurrentPercentFromBlended, None
<1>6. ASSUME r.base # None  PROVE CalculateProgress(r, e).shown \in 0 .. Capacity
  <2>1. r.base \in 0 .. m
    BY <1>6 DEF None
  <2> QED  BY <2>1, ProgressIsMetered
<1>7. ShownPercent(r, e) \in None .. Capacity
  <2>1. CASE e.total = None \/ e.power <= 0
    BY <1>5, <2>1 DEF ShownPercent
  <2>2. CASE ~(e.total = None \/ e.power <= 0) /\ r.base = None
    BY <2>2, ReadingTypes DEF ShownPercent, None
  <2>3. CASE ~(e.total = None \/ e.power <= 0) /\ r.base # None
    <3>1. ShownPercent(r, e) = CalculateProgress(r, e).shown
      BY <2>3, ReadingTypes DEF ShownPercent
    <3> QED  BY <1>6, <2>3, <3>1 DEF None
  <2> QED  BY <2>1, <2>2, <2>3
<1>8. HandStopPercent(r, e) \in 0 .. Capacity
  BY <1>2, <1>7 DEF HandStopPercent, CalculateEndPercent, None
<1>9. CancelPercent(r, e) \in None .. Capacity
  <2>1. AtLeast(CurrentPercentFromBlended(r), 0) \in 0 .. Capacity
    BY <1>5 DEF AtLeast, None
  <2>2. ASSUME Measured(r, e)
        PROVE AtLeast(CalculateProgress(r, e).shown, AtLeast(CurrentPercentFromBlended(r), 0))
                \in 0 .. Capacity
    BY <1>6, <2>1, <2>2 DEF AtLeast, Measured
  <2> QED  BY <2>1, <2>2 DEF CancelPercent, None
<1> QED  BY <1>3, <1>4, <1>8, <1>9

LedgerTypes ==
    /\ meter \in 1 .. MaxMeter
    /\ cache \in Readings
    /\ row \in [Sessions -> {NoRow, Deleted} \cup Rows]
    /\ vehicle \in [current : 0 .. Capacity, target : 0 .. Capacity, sessions : Nat, battery : Nat]
    /\ queue \in Seq(Requests) /\ Len(queue) <= QueueSize
    /\ op \in [Procs -> UserOps \cup InboundOps \cup CheckerOps \cup LwtOps]
    /\ \A u \in Users : op[u] \in UserOps
    /\ op["inbound"] \in InboundOps /\ op["checker"] \in CheckerOps /\ op["lwt"] \in LwtOps

Past(s) == row[s].st \notin {"none", "pending"}

Metered(x, r) == r.base # None /\ x \in r.start .. r.start + Efficiency * (meter - r.base)

SnapshotOK(s, r) ==
    /\ Past(s)
    /\ Exists(s) => row[s].start = r.start /\ row[s].base = r.base
    /\ r.base <= meter
    /\ r.blended # None => Metered(r.blended, r)

\* An operation o goes by what it took earlier, and still may.
Follows(o) ==
    /\ o.pc \in {"write", "off", "count", "cancel", "advance", "set", "decrement", "remove"} =>
          Past(o.s)
    /\ o.pc = "confirm" => row[o.s].st = "pending"
    /\ o.pc = "start" => o.base <= meter
    /\ o.pc = "save" => o.e.total <= meter
    /\ o.pc \in {"check", "blend", "condition"} => SnapshotOK(o.s, o.row)
    /\ o.pc = "blend" => Metered(o.progress.last, o.row)

RowOK(r) ==
    /\ r \in Rows
    /\ r.base <= meter
    /\ r.blended # None => Metered(r.blended, r)
    /\ r.st = "pending" => r.blended = None /\ r.end = None

OneConfirms == \A u, v \in Users : Does(u, "confirm") /\ Does(v, "confirm") => u = v

RequestOK(q) == SnapshotOK(q.s, q.row) /\ q.row.base # None /\ q.e.total <= meter

RowsOK == \A s \in Sessions : Exists(s) => RowOK(row[s])

OpsOK == (\A p \in Procs : Follows(op[p])) /\ OneConfirms

QueueOK == \A i \in 1 .. Len(queue) : RequestOK(queue[i])

LedgerInv == LedgerTypes /\ cache.total <= meter /\ RowsOK /\ OpsOK /\ QueueOK

----------------------------------------------------------------------------
LEMMA MeteredIsEnergy ==
    ASSUME meter \in 1 .. MaxMeter, NEW r, NEW x, Metered(x, r),
           r.start \in 0 .. Capacity, r.base \in None .. meter
    PROVE  x \in Energies /\ x \in Nat /\ r.base \in Nat
<1> USE EnergyTypes, LedgerAssumption
<1>1. r.base \in 0 .. meter
  BY DEF Metered, None
<1>2. meter - r.base \in Int /\ MaxMeter \in Int /\ meter - r.base <= MaxMeter
  BY <1>1
<1>3. Efficiency * (meter - r.base) <= Efficiency * MaxMeter /\ Efficiency * MaxMeter \in Int
      /\ Efficiency * (meter - r.base) \in Int
  BY <1>2, Scale
<1> DEFINE here == Efficiency * (meter - r.base)
           most == Efficiency * MaxMeter
<1> HIDE DEF here, most
<1>4. x \in r.start .. r.start + here /\ here <= most /\ here \in Int /\ most \in Int
  BY <1>3 DEF Metered, here, most
<1>5. x \in None .. Capacity + most /\ x \in Nat
  BY <1>4 DEF None
<1> QED  BY <1>1, <1>5 DEF Energies, most

\* The type of a row is the invariant's, and its energy is the meter's.
LEMMA InvImplies == LedgerInv => LedgerTypeOK /\ BlendedIsMetered
<1> SUFFICES ASSUME LedgerInv  PROVE LedgerTypeOK /\ BlendedIsMetered
  OBVIOUS
<1> USE EnergyTypes, LedgerAssumption
<1>1. BlendedIsMetered
  BY DEF LedgerInv, RowsOK, RowOK, Metered, BlendedIsMetered
<1>2. cache.total \in None .. MaxMeter
  BY ReadingTypes DEF LedgerInv, LedgerTypes
<1>3. \A s \in Sessions : Exists(s) =>
        /\ row[s].st \in InProgress \cup Gone
        /\ row[s].base \in None .. MaxMeter
        /\ {row[s].start, row[s].target} \subseteq 0 .. Capacity
        /\ row[s].end \in None .. Capacity /\ row[s].battery \in None .. Capacity
        /\ row[s].blended \in Energies
  BY DEF LedgerInv, RowsOK, RowOK, Rows
<1> QED  BY <1>1, <1>2, <1>3 DEF LedgerInv, LedgerTypes, LedgerTypeOK

LEMMA LedgerInitInv == Init => LedgerInv
<1> SUFFICES ASSUME Init  PROVE LedgerInv
  OBVIOUS
<1> USE EnergyTypes, LedgerAssumption
<1>1. LedgerTypes
  <2>1. queue \in Seq(Requests) /\ Len(queue) = 0
    BY DEF Init
  <2>2. QueueSize \in Nat
    OBVIOUS
  <2>3. \A p \in Procs : op[p] = Idle
    BY DEF Init
  <2>4. /\ op \in [Procs -> UserOps \cup InboundOps \cup CheckerOps \cup LwtOps]
        /\ \A u \in Users : op[u] \in UserOps
        /\ op["inbound"] \in InboundOps /\ op["checker"] \in CheckerOps /\ op["lwt"] \in LwtOps
    BY DEF Init, Procs, UserOps, InboundOps, CheckerOps, LwtOps
  <2> QED  BY <2>1, <2>2, <2>4 DEF Init, LedgerTypes, Readings
<1>2. \A s \in Sessions : ~Exists(s)
  BY DEF Init, Exists
<1>3. OpsOK
  BY DEF Init, OpsOK, Follows, OneConfirms, Does, Idle, Procs
<1> QED  BY <1>1, <1>2, <1>3 DEF Init, LedgerInv, RowsOK, QueueOK, NoReading, None

----------------------------------------------------------------------------
(***************************************************************************)
(* What may become of a row.  A statement that was prepared on an earlier  *)
(* row still finds the start and the baseline it was prepared with.        *)
(***************************************************************************)

Steady(s) ==
    Past(s) =>
        /\ Past(s)'
        /\ Exists(s)' =>
            /\ Exists(s) /\ row'[s].start = row[s].start
            /\ row'[s].base # row[s].base => CheckerBackfill /\ row[s].base = None

RowsStep ==
    /\ row' \in [Sessions -> {NoRow, Deleted} \cup Rows]
    /\ RowsOK'
    /\ \A s \in Sessions : Steady(s)

LEMMA ExistingRow ==
    ASSUME LedgerInv, NEW s \in Sessions
    PROVE  /\ Exists(s) <=> row[s].st \notin {"none", "deleted"}
           /\ Exists(s) => RowOK(row[s]) /\ row[s] \in Rows
           /\ Past(s) /\ row[s].st # "deleted" => Exists(s)
           /\ row[s].st = "none" => row[s] = NoRow
           /\ row[s].st = "deleted" => row[s] = Deleted
BY DEF LedgerInv, LedgerTypes, RowsOK, RowOK, Exists, Rows, Past, NoRow, Deleted,
       InProgress, Live, Gone

\* A statement on s that writes a row of the right kind.
LEMMA SetRow ==
    ASSUME LedgerInv, meter' = meter, NEW s \in Sessions, NEW r, Set(s, r),
           Exists(s) => /\ RowOK(r)
                        /\ r.start = row[s].start
                        /\ Past(s) =>
                            /\ r.st # "pending"
                            /\ r.base # row[s].base => CheckerBackfill /\ row[s].base = None
    PROVE  RowsStep
<1>1. row \in [Sessions -> {NoRow, Deleted} \cup Rows]
  BY DEF LedgerInv, LedgerTypes
<1>2. CASE ~Exists(s)
  <2>1. row' = row
    BY <1>2 DEF Set
  <2> QED  BY <1>1, <2>1 DEF RowsStep, LedgerInv, RowsOK, RowOK, Metered, Exists, Steady, Past
<1>3. CASE Exists(s)
  <2>1. row' = [row EXCEPT ![s] = r] /\ r \in Rows
    BY <1>3 DEF Set, RowOK
  <2>2. row' \in [Sessions -> {NoRow, Deleted} \cup Rows]
    BY <1>1, <2>1
  <2>3. row'[s] = r /\ \A t \in Sessions \ {s} : row'[t] = row[t]
    BY <1>1, <2>1
  <2>4. RowsOK'
    BY <1>3, <2>3 DEF LedgerInv, RowsOK, RowOK, Metered, Exists
  <2>5. r.st \notin {"none"}
    BY <2>1 DEF Rows, InProgress, Live, Gone
  <2>6. \A t \in Sessions : Steady(t)
    BY <1>3, <2>3, <2>5 DEF Steady, Past, Exists
  <2> QED  BY <2>2, <2>4, <2>6 DEF RowsStep
<1> QED  BY <1>2, <1>3

LEMMA MeteredGrows ==
    ASSUME NEW r, NEW x, Metered(x, r), r.start \in Int, r.base \in Int,
           meter \in Int, meter' \in Int, meter <= meter'
    PROVE  Metered(x, r)'
<1>1. meter - r.base \in Int /\ meter' - r.base \in Int /\ meter - r.base <= meter' - r.base
  OBVIOUS
<1>2. /\ Efficiency * (meter - r.base) <= Efficiency * (meter' - r.base)
      /\ Efficiency * (meter - r.base) \in Int /\ Efficiency * (meter' - r.base) \in Int
  BY <1>1, Scale, EnergyTypes
<1> DEFINE now == Efficiency * (meter - r.base)
           next == Efficiency * (meter' - r.base)
<1> HIDE DEF now, next
<1>3. x \in r.start .. r.start + now /\ now <= next /\ now \in Int /\ next \in Int
  BY <1>2 DEF Metered, now, next
<1>4. x \in r.start .. r.start + next
  BY <1>3
<1> QED  BY <1>4 DEF Metered, next

LEMMA SameRow == LedgerInv /\ UNCHANGED row /\ meter' \in {meter, meter + 1} => RowsStep
<1> SUFFICES ASSUME LedgerInv, UNCHANGED row, meter' \in {meter, meter + 1}  PROVE RowsStep
  OBVIOUS
<1>1. \A s \in Sessions : Exists(s) => RowOK(row[s])
  BY DEF LedgerInv, RowsOK
<1>2. ASSUME NEW r, RowOK(r)  PROVE RowOK(r)'
  <2>1. ASSUME NEW x, Metered(x, r)  PROVE Metered(x, r)'
    <3>1. r.base \in Int /\ r.start \in Int /\ meter \in Int /\ meter' \in Int /\ meter <= meter'
      BY <1>2, EnergyTypes DEF LedgerInv, LedgerTypes, RowOK, Rows
    <3> QED  BY <2>1, <3>1, MeteredGrows
  <2>2. r.base <= meter'
    BY <1>2, EnergyTypes DEF LedgerInv, LedgerTypes, RowOK, Rows
  <2> QED  BY <1>2, <2>1, <2>2 DEF RowOK
<1>3. RowsOK'
  BY <1>1, <1>2 DEF RowsOK, Exists, RowOK, Metered
<1> QED  BY <1>3 DEF RowsStep, Steady, Past, Exists, LedgerInv, LedgerTypes

LEMMA CreateRow ==
    ASSUME LedgerInv, meter' = meter, NEW s \in Sessions, NEW r, row[s] = NoRow,
           row' = [row EXCEPT ![s] = r], RowOK(r)
    PROVE  RowsStep
<1>1. row \in [Sessions -> {NoRow, Deleted} \cup Rows] /\ r \in Rows
  BY DEF LedgerInv, LedgerTypes, RowOK
<1>2. row' \in [Sessions -> {NoRow, Deleted} \cup Rows]
  BY <1>1
<1>3. row'[s] = r /\ \A t \in Sessions \ {s} : row'[t] = row[t]
  BY <1>1
<1>4. RowsOK'
  BY <1>3 DEF LedgerInv, RowsOK, RowOK, Metered, Exists
<1>5. \A t \in Sessions : Steady(t)
  BY <1>3 DEF Steady, Past, Exists, NoRow
<1> QED  BY <1>2, <1>4, <1>5 DEF RowsStep

LEMMA RemoveRow ==
    ASSUME LedgerInv, meter' = meter, NEW s \in Sessions, row' = [row EXCEPT ![s] = Deleted]
    PROVE  RowsStep
<1>1. row \in [Sessions -> {NoRow, Deleted} \cup Rows]
  BY DEF LedgerInv, LedgerTypes
<1>2. row' \in [Sessions -> {NoRow, Deleted} \cup Rows]
  BY <1>1
<1>3. row'[s] = Deleted /\ \A t \in Sessions \ {s} : row'[t] = row[t]
  BY <1>1
<1>4. RowsOK'
  BY <1>3 DEF LedgerInv, RowsOK, RowOK, Metered, Exists
<1>5. \A t \in Sessions : Steady(t)
  BY <1>3 DEF Steady, Past, Exists, Deleted
<1> QED  BY <1>2, <1>4, <1>5 DEF RowsStep

\* What an operation holds, by what it is about to do.
LEMMA OpKinds ==
    ASSUME LedgerInv, NEW p \in Procs
    PROVE  /\ op[p].pc \in {"write", "off", "count"} => op[p] \in Stops
           /\ op[p].pc = "start" =>
                 op[p] \in [pc : {"start"}, start : 0 .. Capacity, target : 0 .. Capacity,
                           base : None .. MaxMeter]
           /\ op[p].pc \in {"confirm", "undo"} => op[p] \in [pc : {"confirm", "undo"}, s : Sessions]
           /\ op[p].pc \in {"decrement", "remove"} =>
                 op[p] \in [pc : {"decrement", "remove"}, s : Sessions, battery : None .. Capacity]
           /\ op[p].pc = "save" => op[p] \in [pc : {"save"}, e : Readings]
           /\ op[p].pc = "check" =>
                 op[p] \in [pc : {"check"}, s : Sessions, st : Live, row : Snapshots]
           /\ op[p].pc \in {"blend", "condition"} =>
                 op[p] \in [pc : {"blend", "condition"}, s : Sessions, row : Snapshots,
                           progress : Progress]
           /\ op[p].pc \in {"cancel", "advance"} =>
                 op[p] \in [pc : {"cancel", "advance"}, s : Sessions, end : None .. Capacity]
           /\ op[p].pc = "set" =>
                 op[p] \in [pc : {"set"}, s : Sessions, end : 0 .. Capacity, target : 0 .. Capacity]
<1>1. op[p] \in UserOps \cup InboundOps \cup CheckerOps \cup LwtOps
  BY DEF LedgerInv, LedgerTypes
<1>2. CASE op[p] \in UserOps
  BY <1>2 DEF UserOps, Stops, Idle
<1>3. CASE op[p] \in InboundOps \cup LwtOps
  BY <1>3 DEF InboundOps, LwtOps, Idle
<1>4. CASE op[p] \in CheckerOps
  BY <1>4 DEF CheckerOps, Stops, Idle
<1> QED  BY <1>1, <1>2, <1>3, <1>4

\* The steps that write rows, and the rest.
RowWriter ==
    \/ \E s \in Sessions :
          \/ PollActivate(s)
          \/ \E target \in Percents : Retarget(s, target)
          \/ \E u \in Users : StartCreate(u, s)
    \/ ProcessSOC \/ CancelWrite
    \/ CheckerBackfill \/ CheckerBlend \/ CheckerCondition
    \/ \E p \in Procs : StopWrite(p)
    \/ \E u \in Users : StartEnd(u) \/ CancelPending(u) \/ DeleteRemove(u)

LEMMA RowCases ==
    ASSUME Next
    PROVE  \/ RowWriter /\ meter' = meter
           \/ UNCHANGED row /\ (meter' = meter \/ (meter < MaxMeter /\ meter' = meter + 1))
<1>1. CASE Draw \/ Sensor \/ SensorSave \/ Restart \/ CancelCompare \/ CancelAdvance
  BY <1>1 DEF Draw, Sensor, SensorSave, Restart, CancelCompare, CancelAdvance
<1>2. ASSUME NEW p \in Procs, StopVehicle(p) \/ StopCount(p)  PROVE UNCHANGED <<row, meter>>
  BY <1>2 DEF StopVehicle, StopCount
<1>3. ASSUME NEW s \in Sessions,
             PollSave(s) \/ CancelRead(s) \/ CheckerList(s) \/ CheckerSkip \/ CheckerProgress
               \/ CheckerTaper \/ CheckerIdle
      PROVE  UNCHANGED <<row, meter>>
  BY <1>3
  DEF PollSave, CancelRead, CheckerList, CheckerSkip, CheckerProgress, CheckerTaper, CheckerIdle
<1>4. ASSUME NEW s \in Sessions, NEW u \in Users,
             UserStop(u, s) \/ UserCancel(u, s) \/ DeleteRead(u, s)
      PROVE  UNCHANGED <<row, meter>>
  BY <1>4 DEF UserStop, UserCancel, DeleteRead
<1>5. ASSUME NEW u \in Users, StartCapture(u) \/ DeleteDecrement(u)
      PROVE  UNCHANGED <<row, meter>>
  BY <1>5 DEF StartCapture, DeleteDecrement
<1>6. ASSUME NEW current \in Percents, NEW target \in Percents, EditPercents(current, target)
      PROVE  UNCHANGED <<row, meter>>
  BY <1>6 DEF EditPercents
<1>7. RowWriter => meter' = meter
  BY DEF RowWriter, PollActivate, CancelPending, Retarget, StartCreate, ProcessSOC, CancelWrite,
         CheckerBackfill, CheckerBlend, CheckerCondition, StopWrite, StartEnd, DeleteRemove
<1> QED
  BY <1>1, <1>2, <1>3, <1>4, <1>5, <1>6, <1>7 DEF Next, Stop, Checker, RowWriter

\* The progress of a snapshot and a reading, both of the past.
LEMMA SnapshotProgress ==
    ASSUME meter \in 1 .. MaxMeter, NEW r \in Snapshots, NEW e \in Readings, e.total <= meter,
           r.base # None, r.base <= meter, r.blended # None => Metered(r.blended, r)
    PROVE  /\ Metered(CalculateProgress(r, e).last, r)
           /\ CalculateProgress(r, e).shown \in 0 .. Capacity
<1> USE EnergyTypes, LedgerAssumption
<1>1. r.start \in 0 .. Capacity /\ r.target \in 0 .. Capacity /\ r.base \in 0 .. meter
  BY DEF Snapshots, None
<1>2. r.blended \in Int
  BY <1>1, MeteredIsEnergy DEF None
<1>3. meter \in Nat
  OBVIOUS
<1>4. r.blended # None => r.blended \in r.start .. r.start + Efficiency * (meter - r.base)
  BY DEF Metered
<1>5. /\ CalculateProgress(r, e).last \in r.start .. r.start + Efficiency * (meter - r.base)
      /\ CalculateProgress(r, e).shown \in r.start .. Capacity
  BY <1>1, <1>2, <1>3, <1>4, ProgressIsMetered
<1> QED  BY <1>1, <1>5 DEF Metered

LEMMA WriteBlended ==
    ASSUME meter \in 1 .. MaxMeter, NEW r, RowOK(r), r.st # "pending", NEW snapshot,
           snapshot.start = r.start, snapshot.base = r.base,
           NEW x, Metered(x, snapshot)
    PROVE  LET w == [r EXCEPT !.blended = x]
           IN  RowOK(w) /\ w.start = r.start /\ w.st # "pending" /\ w.base = r.base
<1> DEFINE w == [r EXCEPT !.blended = x]
<1>1. r \in Rows /\ Metered(x, r)
  BY DEF RowOK, Metered
<1>2. r.start \in 0 .. Capacity /\ r.base \in None .. meter
  BY <1>1, EnergyTypes DEF RowOK, Rows
<1>3. x \in Energies
  BY <1>1, <1>2, MeteredIsEnergy
<1>4. w \in Rows /\ w.start = r.start /\ w.st = r.st /\ w.base = r.base /\ w.blended = x
  BY <1>1, <1>3 DEF Rows
<1> QED  BY <1>1, <1>4 DEF RowOK, Metered

LEMMA WriteStatus ==
    ASSUME NEW r, RowOK(r), NEW st \in (InProgress \cup Gone) \ {"pending"}
    PROVE  LET w == [r EXCEPT !.st = st]
           IN  RowOK(w) /\ w.start = r.start /\ w.st # "pending" /\ w.base = r.base
<1> DEFINE w == [r EXCEPT !.st = st]
<1>1. w \in Rows /\ w.start = r.start /\ w.st = st /\ w.base = r.base /\ w.blended = r.blended
  BY DEF RowOK, Rows
<1> QED  BY <1>1 DEF RowOK, Metered

LEMMA RowStep == LedgerInv /\ Next => RowsStep
<1> SUFFICES ASSUME LedgerInv, Next  PROVE RowsStep
  OBVIOUS
<1> USE EnergyTypes, LedgerAssumption
<1>1. /\ cache \in Readings /\ cache.total <= meter /\ meter \in 1 .. MaxMeter
      /\ cache # NoReading => cache.total \in 1 .. MaxMeter
  BY DEF LedgerInv, LedgerTypes, Readings
<1>2. ASSUME NEW p \in Procs  PROVE Follows(op[p])
  BY <1>2 DEF LedgerInv, OpsOK
<1>3. ASSUME NEW s \in Sessions, PollActivate(s)  PROVE RowsStep
  <2> DEFINE r == [row[s] EXCEPT !.st = "active", !.base = cache.total]
  <2>1. Exists(s) /\ RowOK(row[s]) /\ ~Past(s)
    BY <1>3, ExistingRow DEF PollActivate, Past
  <2>2. row[s] \in Rows /\ row[s].blended = None /\ cache.total \in 1 .. meter
    <3>1. row[s].st = "pending" /\ cache # NoReading
      BY <1>3 DEF PollActivate
    <3> QED  BY <1>1, <2>1, <3>1 DEF RowOK
  <2>4. r \in Rows /\ r.blended = None /\ r.base <= meter /\ r.start = row[s].start
        /\ r.st = "active"
    <3>1. cache.total \in None .. MaxMeter /\ cache.total <= meter
      BY <1>1, <2>2 DEF None
    <3> QED  BY <2>2, <3>1 DEF Rows, InProgress, Live
  <2>3. Set(s, r) /\ meter' = meter
    BY <1>3 DEF PollActivate
  <2>5. RowOK(r)
    BY <2>4 DEF RowOK
  <2> QED  BY <2>1, <2>3, <2>4, <2>5, SetRow
<1>4. ASSUME NEW u \in Users, CancelPending(u)  PROVE RowsStep
  <2>1. PICK s \in Sessions : s = op[u].s
    BY <1>4, OpKinds DEF CancelPending, Does, Procs
  <2>2. PICK r : r = [row[s] EXCEPT !.st = "cancelled", !.end = None]
    OBVIOUS
  <2>3. Set(s, r) /\ meter' = meter
    BY <1>4, <2>1, <2>2 DEF CancelPending
  <2>4. ASSUME Exists(s)
        PROVE RowOK(r) /\ r.start = row[s].start /\ r.st # "pending" /\ r.base = row[s].base
    <3>1. RowOK(row[s]) /\ row[s] \in Rows
      BY <2>4, ExistingRow
    <3>2. None \in None .. Capacity
      BY EnergyTypes DEF None
    <3>3. /\ r \in Rows /\ r.st = "cancelled" /\ r.start = row[s].start /\ r.base = row[s].base
          /\ r.blended = row[s].blended
      BY <2>2, <3>1, <3>2 DEF Rows, Gone
    <3> QED  BY <3>1, <3>3 DEF RowOK, Metered
  <2> QED  BY <2>3, <2>4, SetRow
<1>5. ASSUME NEW s \in Sessions, NEW target \in Percents, Retarget(s, target)  PROVE RowsStep
  <2> DEFINE r == [row[s] EXCEPT !.target = target]
  <2>1. Exists(s) /\ RowOK(row[s]) /\ row[s].st = "active"
    BY <1>5, ExistingRow DEF Retarget
  <2>2. RowOK(r) /\ r.start = row[s].start /\ r.st = "active" /\ r.base = row[s].base
    BY <2>1 DEF RowOK, Rows, Metered
  <2>3. Set(s, r) /\ meter' = meter
    BY <1>5 DEF Retarget
  <2> QED  BY <2>1, <2>2, <2>3, SetRow
<1>6. ASSUME NEW u \in Users, NEW s \in Sessions, StartCreate(u, s)  PROVE RowsStep
  <2>1. CASE UNCHANGED row
    BY <1>6, <2>1, SameRow DEF StartCreate
  <2>2. CASE ~UNCHANGED row
    <3> DEFINE r == [st |-> "pending", start |-> op[u].start, target |-> op[u].target,
                     base |-> op[u].base, blended |-> None, end |-> None, battery |-> None]
    <3>1. /\ op[u].start \in 0 .. Capacity /\ op[u].target \in 0 .. Capacity
          /\ op[u].base \in None .. MaxMeter
      BY <1>6, OpKinds DEF StartCreate, Does, Procs
    <3>2. op[u].base <= meter
      BY <1>2, <1>6 DEF Follows, StartCreate, Does, Procs
    <3>3. RowOK(r)
      BY <3>1, <3>2, NoneIsEnergy DEF RowOK, Rows, InProgress, None
    <3> HIDE DEF r
    <3>4. row[s] = NoRow /\ row' = [row EXCEPT ![s] = r] /\ meter' = meter
      BY <1>6, <2>2 DEF StartCreate, r
    <3> QED  BY <3>3, <3>4, CreateRow
  <2> QED  BY <2>1, <2>2
<1>7. CASE ProcessSOC
  <2> DEFINE q == Head(queue)
             last == CalculateProgress(q.row, q.e).last
             r == [row[q.s] EXCEPT !.blended = last]
  <2>1. q \in Requests /\ RequestOK(q)
    <3>1. queue \in Seq(Requests) /\ queue # <<>> /\ 1 \in 1 .. Len(queue)
      BY <1>7 DEF ProcessSOC, LedgerInv, LedgerTypes
    <3> QED  BY <3>1 DEF LedgerInv, QueueOK
  <2> HIDE DEF q
  <2>2. /\ q.s \in Sessions /\ q.row \in Snapshots /\ q.e \in Readings
        /\ q.e.total <= meter /\ q.row.base # None /\ Past(q.s) /\ q.row.base <= meter
        /\ Exists(q.s) => row[q.s].start = q.row.start /\ row[q.s].base = q.row.base
        /\ q.row.blended # None => Metered(q.row.blended, q.row)
    BY <2>1 DEF Requests, RequestOK, SnapshotOK
  <2>3. Metered(last, q.row)
    BY <1>1, <2>2, SnapshotProgress
  <2> HIDE DEF last
  <2>4. ASSUME Exists(q.s)
        PROVE RowOK(r) /\ r.start = row[q.s].start /\ r.st # "pending" /\ r.base = row[q.s].base
    <3>1. row[q.s] \in Rows /\ RowOK(row[q.s]) /\ row[q.s].st # "pending"
      BY <2>2, <2>4, ExistingRow DEF Past
    <3>2. /\ meter \in 1 .. MaxMeter /\ Metered(last, q.row)
          /\ q.row.start = row[q.s].start /\ q.row.base = row[q.s].base
      BY <1>1, <2>2, <2>3, <2>4
    <3> QED  BY <3>1, <3>2, WriteBlended
  <2>5. Set(q.s, r) /\ meter' = meter
    BY <1>7 DEF ProcessSOC, q, last
  <2> HIDE DEF r
  <2> QED  BY <2>2, <2>4, <2>5, SetRow
<1>8. CASE CheckerBlend
  <2> DEFINE o == op["checker"]
             last == o.progress.last
             r == [row[o.s] EXCEPT !.blended = last]
  <2>1. o.pc = "blend" /\ Set(o.s, r) /\ meter' = meter
    BY <1>8 DEF CheckerBlend, Does
  <2>2. o.s \in Sessions /\ o.row \in Snapshots
    BY <2>1, OpKinds DEF Procs
  <2>3. SnapshotOK(o.s, o.row) /\ Metered(last, o.row)
    BY <2>1, <1>2 DEF Follows, Procs
  <2> HIDE DEF o, last
  <2>4. Past(o.s) /\ (Exists(o.s) => row[o.s].start = o.row.start /\ row[o.s].base = o.row.base)
    BY <2>3 DEF SnapshotOK
  <2>5. ASSUME Exists(o.s)
        PROVE RowOK(r) /\ r.start = row[o.s].start /\ r.st # "pending" /\ r.base = row[o.s].base
    <3>1. row[o.s] \in Rows /\ RowOK(row[o.s]) /\ row[o.s].st # "pending"
      BY <2>2, <2>4, <2>5, ExistingRow DEF Past
    <3>2. /\ meter \in 1 .. MaxMeter /\ Metered(last, o.row)
          /\ o.row.start = row[o.s].start /\ o.row.base = row[o.s].base
      BY <1>1, <2>3, <2>4, <2>5
    <3> QED  BY <3>1, <3>2, WriteBlended
  <2> HIDE DEF r
  <2> QED  BY <2>1, <2>2, <2>4, <2>5, SetRow
<1>9. CASE CheckerBackfill
  <2> DEFINE s == op["checker"].s
             r == [row[s] EXCEPT !.base = cache.total]
  <2>1. op["checker"].pc = "check" /\ op["checker"].row.base = None /\ cache.total > 0
        /\ Set(s, r) /\ meter' = meter
    BY <1>9 DEF CheckerBackfill, Does, Checked
  <2>2. s \in Sessions
    BY <2>1, OpKinds DEF Procs
  <2>3. SnapshotOK(s, op["checker"].row)
    BY <2>1, <1>2 DEF Follows, Procs
  <2> HIDE DEF s
  <2>4. Past(s) /\ (Exists(s) => row[s].base = None)
    BY <2>1, <2>3 DEF SnapshotOK
  <2>5. cache.total \in 1 .. meter /\ cache.total \in None .. MaxMeter
    BY <1>1, <2>1 DEF NoReading, None
  <2>6. ASSUME Exists(s)
        PROVE RowOK(r) /\ r.start = row[s].start /\ r.st # "pending"
    <3>1. row[s] \in Rows /\ RowOK(row[s]) /\ row[s].st # "pending"
      BY <2>2, <2>4, <2>6, ExistingRow DEF Past
    <3>2. row[s].blended = None
      BY <2>4, <2>6, <3>1 DEF RowOK, Metered
    <3>3. r \in Rows /\ r.blended = None /\ r.base <= meter /\ r.start = row[s].start
          /\ r.st = row[s].st
      BY <2>5, <3>1, <3>2 DEF Rows
    <3> QED  BY <3>1, <3>3 DEF RowOK
  <2> HIDE DEF r
  <2> QED  BY <1>9, <2>1, <2>2, <2>4, <2>6, SetRow
<1>10. CASE CheckerCondition
  <2> DEFINE s == op["checker"].s
             r == [row[s] EXCEPT !.st = "conditioning"]
  <2>1. op["checker"].pc = "condition" /\ Set(s, r) /\ meter' = meter
    BY <1>10 DEF CheckerCondition, Does
  <2>2. s \in Sessions
    BY <2>1, OpKinds DEF Procs
  <2> HIDE DEF s
  <2>3. ASSUME Exists(s)
        PROVE RowOK(r) /\ r.start = row[s].start /\ r.st # "pending" /\ r.base = row[s].base
    BY <2>2, <2>3, ExistingRow, WriteStatus DEF InProgress, Live
  <2> HIDE DEF r
  <2> QED  BY <2>1, <2>2, <2>3, SetRow
<1>11. ASSUME NEW p \in Procs, StopWrite(p)  PROVE RowsStep
  <2> DEFINE s == op[p].s
             r == [row[s] EXCEPT !.st = "completed", !.end = op[p].end, !.battery = op[p].battery]
  <2>1. op[p].pc = "write" /\ Set(s, r) /\ meter' = meter
    BY <1>11 DEF StopWrite, Does
  <2>2. s \in Sessions /\ op[p].end \in None .. Capacity /\ op[p].battery \in None .. Capacity
    BY <2>1, OpKinds DEF Stops, None
  <2> HIDE DEF s
  <2>3. ASSUME Exists(s)
        PROVE RowOK(r) /\ r.start = row[s].start /\ r.st # "pending" /\ r.base = row[s].base
    <3>1. row[s] \in Rows /\ RowOK(row[s])
      BY <2>2, <2>3, ExistingRow
    <3>2. r \in Rows /\ r.st = "completed" /\ r.start = row[s].start /\ r.base = row[s].base
          /\ r.blended = row[s].blended
      BY <2>2, <3>1 DEF Rows, Gone
    <3> QED  BY <3>1, <3>2 DEF RowOK, Metered
  <2> HIDE DEF r
  <2> QED  BY <2>1, <2>2, <2>3, SetRow
<1>12. CASE CancelWrite
  <2> DEFINE s == op["lwt"].s
             r == [row[s] EXCEPT !.st = "cancelled", !.end = op["lwt"].end]
  <2>1. op["lwt"].pc = "cancel" /\ Set(s, r) /\ meter' = meter
    BY <1>12 DEF CancelWrite, Does
  <2>2. s \in Sessions /\ op["lwt"].end \in None .. Capacity
    BY <2>1, OpKinds DEF Procs
  <2> HIDE DEF s
  <2>3. ASSUME Exists(s)
        PROVE RowOK(r) /\ r.start = row[s].start /\ r.st # "pending" /\ r.base = row[s].base
    <3>1. row[s] \in Rows /\ RowOK(row[s])
      BY <2>2, <2>3, ExistingRow
    <3>2. r \in Rows /\ r.st = "cancelled" /\ r.start = row[s].start /\ r.base = row[s].base
          /\ r.blended = row[s].blended
      BY <2>2, <3>1 DEF Rows, Gone
    <3> QED  BY <3>1, <3>2 DEF RowOK, Metered
  <2> HIDE DEF r
  <2> QED  BY <2>1, <2>2, <2>3, SetRow
<1>13. ASSUME NEW u \in Users, StartEnd(u)  PROVE RowsStep
  <2> DEFINE s == op[u].s
  <2>1. PICK ok \in BOOLEAN :
          Set(s, IF ok THEN [row[s] EXCEPT !.st = "active",
                               !.base = IF row[s].base = None THEN cache.total ELSE row[s].base]
                 ELSE [row[s] EXCEPT !.st = "cancelled"])
    BY <1>13 DEF StartEnd
  <2> DEFINE base == IF row[s].base = None THEN cache.total ELSE row[s].base
             r == IF ok THEN [row[s] EXCEPT !.st = "active", !.base = base]
                  ELSE [row[s] EXCEPT !.st = "cancelled"]
  <2>2. op[u].pc = "confirm" /\ Set(s, r) /\ meter' = meter
    BY <1>13, <2>1 DEF StartEnd, Does
  <2>3. s \in Sessions
    BY <2>2, OpKinds DEF Procs
  <2>4. row[s].st = "pending"
    BY <2>2, <1>2 DEF Follows, Procs
  <2> HIDE DEF s
  <2>5. Exists(s) /\ row[s] \in Rows /\ RowOK(row[s]) /\ ~Past(s)
    BY <2>3, <2>4, ExistingRow DEF Past
  <2>6. base \in None .. MaxMeter /\ base <= meter
    BY <1>1, <2>5, ReadingTypes DEF RowOK, Rows
  <2> HIDE DEF base
  <2>7. r \in Rows /\ r.st # "pending" /\ r.start = row[s].start /\ r.blended = None /\ r.base <= meter
    <3>1. row[s].blended = None
      BY <2>4, <2>5 DEF RowOK
    <3> QED  BY <2>5, <2>6, <3>1 DEF Rows, RowOK, InProgress, Live, Gone
  <2>8. RowOK(r)
    BY <2>7 DEF RowOK
  <2> HIDE DEF r
  <2> QED  BY <2>2, <2>3, <2>5, <2>7, <2>8, SetRow
<1>14. ASSUME NEW u \in Users, DeleteRemove(u)  PROVE RowsStep
  <2>1. op[u].s \in Sessions
    BY <1>14, OpKinds DEF DeleteRemove, Does, Procs
  <2> QED  BY <1>14, <2>1, RemoveRow DEF DeleteRemove
<1> QED
  BY <1>3, <1>4, <1>5, <1>6, <1>7, <1>8, <1>9, <1>10, <1>11, <1>12, <1>13, <1>14, RowCases, SameRow
  DEF RowWriter

----------------------------------------------------------------------------
(* The queue: a snapshot stays true of its row while it waits.             *)

LEMMA MeterStep ==
    ASSUME LedgerInv, Next
    PROVE  meter \in 1 .. MaxMeter /\ meter' \in 1 .. MaxMeter /\ meter <= meter'
           /\ meter \in Int /\ meter' \in Int /\ meter' \in {meter, meter + 1}
<1>1. meter \in 1 .. MaxMeter /\ MaxMeter \in Nat
  BY LedgerAssumption DEF LedgerInv, LedgerTypes
<1>2. meter' = meter \/ (meter < MaxMeter /\ meter' = meter + 1)
  BY RowCases
<1> QED  BY <1>1, <1>2

LEMMA SnapshotStays ==
    ASSUME LedgerInv, Next, NEW s \in Sessions, NEW r \in Snapshots, SnapshotOK(s, r),
           r.base # None \/ ~CheckerBackfill
    PROVE  SnapshotOK(s, r)'
<1>1. Steady(s)
  BY RowStep DEF RowsStep
<1>2. Past(s)' /\ (Exists(s)' => row'[s].start = r.start /\ row'[s].base = r.base)
  BY <1>1 DEF Steady, SnapshotOK
<1>3. r.base \in Int /\ r.start \in Int
  BY EnergyTypes DEF Snapshots
<1>4. r.base <= meter'
  BY <1>3, MeterStep DEF SnapshotOK
<1>5. r.blended # None => Metered(r.blended, r)'
  BY <1>3, MeterStep, MeteredGrows DEF SnapshotOK
<1> QED  BY <1>2, <1>4, <1>5 DEF SnapshotOK

LEMMA SnapshotNow ==
    ASSUME LedgerInv, NEW s \in Sessions, row[s].st \in Live
    PROVE  Snapshot(s) \in Snapshots /\ SnapshotOK(s, Snapshot(s)) /\ RowOK(row[s])
<1>1. RowOK(row[s]) /\ row[s] \in Rows
  BY ExistingRow DEF Live
<1>2. Snapshot(s) \in Snapshots
  BY <1>1 DEF Rows, Snapshot, Snapshots
<1>3. SnapshotOK(s, Snapshot(s))
  BY <1>1 DEF RowOK, Snapshot, SnapshotOK, Past, Live, Metered
<1> QED  BY <1>1, <1>2, <1>3

LEMMA SaveStep ==
    ASSUME LedgerInv, NEW e \in Readings, e.total <= meter, SaveAny(e), UNCHANGED <<row, meter>>
    PROVE  queue' \in Seq(Requests) /\ Len(queue') <= QueueSize /\ QueueOK'
<1>1. queue \in Seq(Requests) /\ Len(queue) <= QueueSize /\ QueueSize \in Nat
  BY LedgerAssumption DEF LedgerInv, LedgerTypes
<1>2. \A q : RequestOK(q) => RequestOK(q)'
  BY DEF RequestOK, SnapshotOK, Past, Exists, Metered
<1>3. CASE queue' = queue
  BY <1>1, <1>2, <1>3 DEF LedgerInv, QueueOK
<1>4. CASE queue' # queue
  <2>1. PICK s \in Sessions : Save(s, e)
    BY <1>4 DEF SaveAny
  <2> DEFINE q == [s |-> s, row |-> Snapshot(s), e |-> e]
  <2>2. row[s].st \in Live /\ row[s].base # None /\ Len(queue) < QueueSize /\ queue' = Append(queue, q)
    BY <1>4, <2>1 DEF Save
  <2>3. q \in Requests /\ RequestOK(q)
    BY <2>2, SnapshotNow DEF Requests, RequestOK, Snapshot
  <2> HIDE DEF q
  <2>4. queue' \in Seq(Requests) /\ Len(queue') = Len(queue) + 1
        /\ \A i \in 1 .. Len(queue') : queue'[i] = q \/ (i \in 1 .. Len(queue) /\ queue'[i] = queue[i])
    BY <1>1, <2>2, <2>3
  <2>5. \A i \in 1 .. Len(queue') : RequestOK(queue'[i])
    BY <2>3, <2>4 DEF LedgerInv, QueueOK
  <2>6. ASSUME NEW i \in 1 .. Len(queue')  PROVE RequestOK(queue[i])'
    <3>1. PICK x : x = queue'[i]
      OBVIOUS
    <3>2. RequestOK(x)'
      BY <1>2, <2>5, <3>1
    <3> QED  BY <3>1, <3>2 DEF RequestOK, SnapshotOK, Past, Exists, Metered
  <2> QED  BY <1>1, <2>2, <2>4, <2>6 DEF QueueOK
<1> QED  BY <1>3, <1>4

LEMMA QueueStep ==
    ASSUME LedgerInv, Next
    PROVE  queue' \in Seq(Requests) /\ Len(queue') <= QueueSize /\ QueueOK'
<1> USE LedgerAssumption
<1>1. queue \in Seq(Requests) /\ Len(queue) <= QueueSize /\ QueueSize \in Nat
  BY DEF LedgerInv, LedgerTypes
<1>2. ASSUME NEW q \in Requests, RequestOK(q)  PROVE RequestOK(q)'
  <2>1. q.s \in Sessions /\ q.row \in Snapshots /\ SnapshotOK(q.s, q.row) /\ q.row.base # None
        /\ q.e.total <= meter /\ q.e.total \in Int
    BY <1>2, EnergyTypes, ReadingTypes DEF Requests, RequestOK
  <2>2. SnapshotOK(q.s, q.row)'
    BY <2>1, SnapshotStays
  <2>3. q.e.total <= meter'
    BY <2>1, MeterStep
  <2> QED  BY <2>1, <2>2, <2>3 DEF RequestOK
<1>3. ASSUME NEW i \in 1 .. Len(queue'), NEW x \in Requests, x = queue'[i], RequestOK(x)
      PROVE  RequestOK(queue[i])'
  <2>1. RequestOK(x)'
    BY <1>2, <1>3
  <2> QED  BY <1>3, <2>1 DEF RequestOK, SnapshotOK, Past, Exists, Metered
<1>4. CASE queue' = queue
  <2>1. \A i \in 1 .. Len(queue') : queue'[i] \in Requests /\ RequestOK(queue'[i])
    BY <1>1, <1>4 DEF LedgerInv, QueueOK
  <2>2. QueueOK'
    BY <1>3, <2>1 DEF QueueOK
  <2> QED  BY <1>1, <1>4, <2>2
<1>5. CASE ProcessSOC
  <2>1. queue # <<>> /\ queue' = Tail(queue)
    BY <1>5 DEF ProcessSOC
  <2>2. /\ queue' \in Seq(Requests) /\ Len(queue') = Len(queue) - 1 /\ Len(queue) \in Nat
        /\ \A i \in 1 .. Len(queue') : i + 1 \in 1 .. Len(queue) /\ queue'[i] = queue[i + 1]
    <3> DEFINE n == Len(queue)
               m == Len(queue')
    <3>1. n \in Nat
      BY <1>1
    <3>2. queue' \in Seq(Requests) /\ m = n - 1 /\ \A i \in 1 .. m : queue'[i] = queue[i + 1]
      BY <1>1, <2>1, HeadTailProperties
    <3> HIDE DEF n, m
    <3>3. \A i \in 1 .. m : i + 1 \in 1 .. n
      BY <3>1, <3>2
    <3> QED  BY <3>1, <3>2, <3>3 DEF n, m
  <2>3. \A i \in 1 .. Len(queue') : queue'[i] \in Requests /\ RequestOK(queue'[i])
    <3>1. \A j \in 1 .. Len(queue) : queue[j] \in Requests /\ RequestOK(queue[j])
      BY <1>1 DEF LedgerInv, QueueOK
    <3>2. ASSUME NEW i \in 1 .. Len(queue')
          PROVE  queue'[i] \in Requests /\ RequestOK(queue'[i])
      <4>1. i + 1 \in 1 .. Len(queue) /\ queue'[i] = queue[i + 1]
        BY <2>2
      <4>2. queue[i + 1] \in Requests /\ RequestOK(queue[i + 1])
        BY <3>1, <4>1
      <4> QED  BY <4>1, <4>2
    <3> QED  BY <3>2
  <2>4. QueueOK'
    BY <1>3, <2>3 DEF QueueOK
  <2> QED  BY <1>1, <2>2, <2>4
<1>6. CASE Restart
  BY <1>1, <1>6 DEF Restart, QueueOK
<1>7. CASE Sensor
  <2>1. PICK w \in {0, 1} : cache' = [total |-> meter, power |-> w]
    BY <1>7 DEF Sensor
  <2>2. cache' \in Readings /\ cache'.total <= meter
    BY <2>1, MeterStep DEF Readings
  <2>3. PICK e : e = cache'
    OBVIOUS
  <2>4. SaveAny(e) \/ queue' = queue
    BY <1>7, <2>3 DEF Sensor, SaveAny, Save
  <2>5. UNCHANGED <<row, meter>>
    BY <1>7 DEF Sensor
  <2> QED  BY <1>4, <2>2, <2>3, <2>4, <2>5, SaveStep
<1>8. CASE SensorSave
  <2>1. op["inbound"].e \in Readings /\ op["inbound"].e.total <= meter
    BY <1>8, OpKinds DEF SensorSave, Does, Procs, LedgerInv, OpsOK, Follows
  <2> QED  BY <1>8, <2>1, SaveStep DEF SensorSave
<1>9. ASSUME NEW s \in Sessions, PollSave(s)
      PROVE  queue' \in Seq(Requests) /\ Len(queue') <= QueueSize /\ QueueOK'
  <2>1. SaveAny(cache) /\ UNCHANGED <<row, meter>>
    BY <1>9 DEF PollSave, SaveAny
  <2> QED  BY <2>1, SaveStep DEF LedgerInv, LedgerTypes
<1>10. \/ queue' = queue \/ ProcessSOC \/ Restart \/ Sensor \/ SensorSave
       \/ \E s \in Sessions : PollSave(s)
  <2>1. RowWriter => queue' = queue \/ ProcessSOC
    BY DEF RowWriter, PollActivate, CancelPending, Retarget, StartCreate, CancelWrite,
           CheckerBackfill, CheckerBlend, CheckerCondition, StopWrite, StartEnd, DeleteRemove
  <2>2. CASE Draw \/ CancelCompare \/ CancelAdvance \/ \E p \in Procs : StopVehicle(p) \/ StopCount(p)
    BY <2>2 DEF Draw, CancelCompare, CancelAdvance, StopVehicle, StopCount
  <2>3. ASSUME NEW s \in Sessions,
               CancelRead(s) \/ CheckerList(s) \/ CheckerSkip \/ CheckerProgress
                 \/ CheckerTaper \/ CheckerIdle
        PROVE  queue' = queue
    BY <2>3 DEF CancelRead, CheckerList, CheckerSkip, CheckerProgress, CheckerTaper, CheckerIdle
  <2>4. ASSUME NEW s \in Sessions, NEW u \in Users,
               UserStop(u, s) \/ UserCancel(u, s) \/ DeleteRead(u, s)
        PROVE  queue' = queue
    BY <2>4 DEF UserStop, UserCancel, DeleteRead
  <2>5. ASSUME NEW u \in Users, StartCapture(u) \/ DeleteDecrement(u)  PROVE queue' = queue
    BY <2>5 DEF StartCapture, DeleteDecrement
  <2>6. ASSUME NEW current \in Percents, NEW target \in Percents, EditPercents(current, target)
        PROVE  queue' = queue
    BY <2>6 DEF EditPercents
  <2> QED  BY <2>1, <2>2, <2>3, <2>4, <2>5, <2>6 DEF Next, Stop, Checker, RowWriter
<1> QED  BY <1>4, <1>5, <1>6, <1>7, <1>8, <1>9, <1>10

----------------------------------------------------------------------------
(* The operations under way.                                               *)

OpOf(p) == IF p \in Users THEN UserOps
           ELSE IF p = "inbound" THEN InboundOps ELSE IF p = "checker" THEN CheckerOps ELSE LwtOps

OpsTyped ==
    /\ op \in [Procs -> UserOps \cup InboundOps \cup CheckerOps \cup LwtOps]
    /\ \A p \in Procs : op[p] \in OpOf(p)

LEMMA OpsAreTyped ==
    OpsTyped <=>
        /\ op \in [Procs -> UserOps \cup InboundOps \cup CheckerOps \cup LwtOps]
        /\ \A u \in Users : op[u] \in UserOps
        /\ op["inbound"] \in InboundOps /\ op["checker"] \in CheckerOps /\ op["lwt"] \in LwtOps
BY LedgerAssumption DEF OpsTyped, OpOf, Procs

OpsStep == OpsTyped' /\ OpsOK'

LEMMA Names ==
    /\ "inbound" \in Procs \ Users /\ "checker" \in Procs \ Users /\ "lwt" \in Procs \ Users
    /\ Users \subseteq Procs
    /\ OpOf("inbound") = InboundOps /\ OpOf("checker") = CheckerOps /\ OpOf("lwt") = LwtOps
    /\ \A u \in Users : OpOf(u) = UserOps
    /\ \A p \in Procs : OpOf(p) \subseteq UserOps \cup InboundOps \cup CheckerOps \cup LwtOps
    /\ \A p \in Procs : Idle \in OpOf(p)
BY LedgerAssumption
DEF Procs, OpOf, UserOps, InboundOps, CheckerOps, LwtOps

\* Who does what.
LEMMA WhoDoes ==
    ASSUME LedgerInv, NEW p \in Procs
    PROVE  /\ op[p].pc \in {"start", "confirm", "undo", "decrement", "remove"} => p \in Users
           /\ op[p].pc \in {"check", "blend", "condition"} => p = "checker"
           /\ op[p].pc = "save" => p = "inbound"
           /\ op[p].pc \in {"cancel", "advance", "set"} => p = "lwt"
           /\ op[p].pc \in {"write", "off", "count"} => p \in Users \cup {"checker"}
<1>1. op[p] \in OpOf(p)
  BY OpsAreTyped DEF LedgerInv, LedgerTypes, OpsTyped
<1>2. CASE p \in Users
  BY <1>1, <1>2 DEF OpOf, UserOps, Stops, Idle
<1>3. CASE p = "inbound"
  BY <1>1, <1>3, Names DEF InboundOps, Idle
<1>4. CASE p = "lwt"
  BY <1>1, <1>4, Names DEF LwtOps, Idle
<1>5. CASE p = "checker"
  BY <1>1, <1>5, Names DEF CheckerOps, Stops, Idle
<1> QED  BY <1>2, <1>3, <1>4, <1>5 DEF Procs

\* A start that waits for its confirmation holds the lock: its row stays pending.
LEMMA ConfirmStays ==
    ASSUME LedgerInv, Next, NEW u \in Users, op[u].pc = "confirm", op'[u] = op[u]
    PROVE  row'[op[u].s].st = "pending"
<1> DEFINE s == op[u].s
<1>1. s \in Sessions /\ row[s].st = "pending" /\ ~LockFree
  BY OpKinds, Names DEF LedgerInv, OpsOK, Follows, LockFree
<1> HIDE DEF s
<1>2. Exists(s) /\ row \in [Sessions -> {NoRow, Deleted} \cup Rows] /\ row[s] \in Rows
  BY <1>1, ExistingRow DEF LedgerInv, LedgerTypes
<1>3. CASE UNCHANGED row
  BY <1>1, <1>3 DEF s
<1>4. ASSUME NEW t \in Sessions, NEW target \in Percents, Retarget(t, target)
      PROVE  row'[s].st = "pending"
  BY <1>1, <1>2, <1>4 DEF Retarget, Set
<1>5. CASE ProcessSOC
  <2> DEFINE q == Head(queue)
             r == [row[q.s] EXCEPT !.blended = CalculateProgress(q.row, q.e).last]
  <2>1. Set(q.s, r)
    BY <1>5 DEF ProcessSOC
  <2>2. r.st = row[q.s].st \/ ~Exists(q.s) \/ q.s \notin Sessions
    <3>1. CASE q.s \in Sessions /\ Exists(q.s)
      <4>1. row[q.s] \in Rows
        BY <3>1, ExistingRow
      <4> QED  BY <4>1 DEF Rows
    <3> QED  BY <3>1
  <2> HIDE DEF q, r
  <2>3. row'[s].st = row[s].st
    BY <1>1, <1>2, <2>1, <2>2 DEF Set
  <2> QED  BY <1>1, <2>3 DEF s
<1>6. ASSUME NEW v \in Users, StartEnd(v)  PROVE row'[s].st = "pending"
  <2>1. op[v].pc = "confirm" /\ op'[v] = Idle
    BY <1>6, Names DEF StartEnd, Does, Turn, LedgerInv, LedgerTypes
  <2>2. u = v
    BY <2>1 DEF LedgerInv, OpsOK, OneConfirms, Does
  <2> QED  BY <2>1, <2>2 DEF Idle
<1>7. ASSUME NEW v \in Users, DeleteRemove(v)  PROVE row'[s].st = "pending"
  <2>1. op[v].pc = "remove" /\ row' = [row EXCEPT ![op[v].s] = Deleted]
    BY <1>7 DEF DeleteRemove, Does
  <2>2. row[op[v].s].st # "pending"
    BY <2>1, Names DEF LedgerInv, OpsOK, Follows, Past
  <2> QED  BY <1>1, <1>2, <2>1, <2>2
<1>8. ~LockFree => \A p \in Procs : ~StopWrite(p)
  BY DEF StopWrite
<1>9. ~LockFree => \A t \in Sessions, v \in Users :
          ~PollActivate(t) /\ ~CancelPending(v) /\ ~StartCreate(v, t)
  BY DEF PollActivate, CancelPending, StartCreate
<1>10. ~LockFree => ~CancelWrite /\ ~CheckerBackfill /\ ~CheckerBlend /\ ~CheckerCondition
  BY DEF CancelWrite, CheckerBackfill, CheckerBlend, CheckerCondition
<1>11. UNCHANGED row \/ RowWriter
  BY RowCases
<1> QED
  BY <1>1, <1>3, <1>4, <1>5, <1>6, <1>7, <1>8, <1>9, <1>10, <1>11 DEF RowWriter, s

\* An operation that does not move still goes by what is true.
LEMMA OpStays ==
    ASSUME LedgerInv, Next, NEW p \in Procs, op'[p] = op[p],
           CheckerBackfill => p # "checker"
    PROVE  Follows(op[p])'
<1> DEFINE o == op[p]
<1>1. Follows(o) /\ o = op'[p]
  BY DEF LedgerInv, OpsOK
<1>2. ASSUME o.pc \in {"write", "off", "count", "cancel", "advance", "set", "decrement", "remove"}
      PROVE  Past(o.s)'
  <2>1. o.s \in Sessions /\ Past(o.s)
    BY <1>1, <1>2, OpKinds DEF Follows, Stops
  <2>2. PICK s \in Sessions : s = o.s
    BY <2>1
  <2>3. Steady(s) /\ Past(s)
    BY <2>1, <2>2, RowStep DEF RowsStep
  <2>4. Past(s)'
    BY <2>3 DEF Steady
  <2> QED  BY <1>1, <2>2, <2>4 DEF Past
<1>3. ASSUME o.pc = "confirm"  PROVE row'[o.s].st = "pending"
  <2>1. p \in Users
    BY <1>3, WhoDoes
  <2> QED  BY <1>3, <2>1, ConfirmStays
<1>4. ASSUME o.pc = "start"  PROVE o.base <= meter'
  <2>1. o.base \in None .. MaxMeter /\ o.base <= meter
    BY <1>1, <1>4, OpKinds DEF Follows
  <2> QED  BY <2>1, MeterStep, EnergyTypes
<1>5. ASSUME o.pc = "save"  PROVE o.e.total <= meter'
  <2>1. o.e \in Readings /\ o.e.total <= meter
    BY <1>1, <1>5, OpKinds DEF Follows
  <2> QED  BY <2>1, MeterStep, ReadingTypes, EnergyTypes
<1>6. ASSUME o.pc \in {"check", "blend", "condition"}
      PROVE  /\ SnapshotOK(o.s, o.row)'
             /\ o.pc = "blend" => Metered(o.progress.last, o.row)'
  <2>1. o.s \in Sessions /\ o.row \in Snapshots /\ SnapshotOK(o.s, o.row)
        /\ (o.pc = "blend" => Metered(o.progress.last, o.row))
    BY <1>1, <1>6, OpKinds DEF Follows
  <2>2. p = "checker"
    BY <1>6, WhoDoes
  <2>3. PICK s \in Sessions, r \in Snapshots : s = o.s /\ r = o.row
    BY <2>1
  <2>4. SnapshotOK(s, r)
    BY <2>1, <2>3
  <2>5. SnapshotOK(s, r)'
    BY <2>2, <2>4, SnapshotStays
  <2>6. SnapshotOK(o.s, o.row)'
    BY <1>1, <2>3, <2>5 DEF SnapshotOK, Past, Exists, Metered
  <2>7. ASSUME o.pc = "blend"  PROVE Metered(o.progress.last, o.row)'
    <3>1. PICK x : x = o.progress.last
      OBVIOUS
    <3>2. Metered(x, r) /\ r.start \in Int /\ r.base \in Int
      BY <2>1, <2>3, <2>7, <3>1, EnergyTypes DEF Snapshots
    <3>3. Metered(x, r)'
      BY <3>2, MeterStep, MeteredGrows
    <3> QED  BY <1>1, <2>3, <3>1, <3>3 DEF Metered
  <2> QED  BY <2>6, <2>7
<1> QED  BY <1>1, <1>2, <1>3, <1>4, <1>5, <1>6 DEF Follows

LEMMA IdleChecker ==
    ASSUME LedgerInv, CheckerBackfill
    PROVE  op' = [op EXCEPT !["checker"] = Idle] /\ op'["checker"].pc # op["checker"].pc
           /\ op' # op
<1>1. op["checker"].pc = "check" /\ op' = [op EXCEPT !["checker"] = Idle]
  BY DEF CheckerBackfill, Does, Turn
<1>2. op'["checker"] = Idle
  BY <1>1, Names DEF LedgerInv, LedgerTypes
<1> QED  BY <1>1, <1>2 DEF Idle

LEMMA NoBackfill ==
    ASSUME LedgerInv, NEW p \in Procs, NEW o, Turn(p, o), o.pc # "idle" \/ p # "checker"
    PROVE  ~CheckerBackfill
<1> SUFFICES ASSUME CheckerBackfill  PROVE FALSE
  OBVIOUS
<1>1. op \in [Procs -> UserOps \cup InboundOps \cup CheckerOps \cup LwtOps]
      /\ "checker" \in Procs
  BY Names DEF LedgerInv, LedgerTypes
<1>2. op'["checker"] = Idle /\ op["checker"].pc # "idle"
  BY <1>1, IdleChecker DEF Idle
<1>3. CASE p = "checker"
  BY <1>1, <1>2, <1>3 DEF Turn, Idle
<1>4. CASE p # "checker"
  BY <1>1, <1>2, <1>4 DEF Turn, Idle
<1> QED  BY <1>3, <1>4

\* A goroutine p turns to o, and nobody else moves.
LEMMA TurnStep ==
    ASSUME LedgerInv, Next, NEW p \in Procs, NEW o, Turn(p, o), o \in OpOf(p), Follows(o)',
           o.pc = "confirm" => LockFree
    PROVE  OpsStep
<1>1. op \in [Procs -> UserOps \cup InboundOps \cup CheckerOps \cup LwtOps]
      /\ o \in UserOps \cup InboundOps \cup CheckerOps \cup LwtOps
  BY Names DEF LedgerInv, LedgerTypes
<1>2. op'[p] = o /\ \A q \in Procs \ {p} : op'[q] = op[q]
  BY <1>1 DEF Turn
<1>3. OpsTyped'
  <2>1. op' \in [Procs -> UserOps \cup InboundOps \cup CheckerOps \cup LwtOps]
    BY <1>1 DEF Turn
  <2>2. OpsTyped
    BY OpsAreTyped DEF LedgerInv, LedgerTypes
  <2>3. ASSUME NEW q \in Procs  PROVE op'[q] \in OpOf(q)
    BY <1>2, <2>2 DEF OpsTyped
  <2> QED  BY <2>1, <2>3 DEF OpsTyped, OpOf
<1>4. ASSUME NEW q \in Procs  PROVE Follows(op[q])'
  <2>1. CASE q = p
    BY <1>2, <2>1 DEF Follows, SnapshotOK, Past, Exists, Metered
  <2>2. CASE q # p
    <3>1. CheckerBackfill => q # "checker"
      BY <2>2, NoBackfill
    <3> QED  BY <1>2, <2>2, <3>1, OpStays
  <2> QED  BY <2>1, <2>2
<1>5. OneConfirms'
  <2>1. OneConfirms
    BY DEF LedgerInv, OpsOK
  <2> SUFFICES ASSUME NEW u \in Users, NEW v \in Users, op'[u].pc = "confirm", op'[v].pc = "confirm"
      PROVE  u = v
    BY DEF OneConfirms, Does
  <2>2. u \in Procs /\ v \in Procs
    BY Names
  <2>3. CASE o.pc # "confirm"
    BY <1>2, <2>1, <2>2, <2>3 DEF OneConfirms, Does
  <2>4. CASE o.pc = "confirm"
    BY <1>2, <2>2, <2>4 DEF LockFree
  <2> QED  BY <2>3, <2>4
<1> QED  BY <1>3, <1>4, <1>5 DEF OpsStep, OpsOK

LEMMA NobodyMoves == LedgerInv /\ Next /\ ~CheckerBackfill /\ op' = op => OpsStep
<1> SUFFICES ASSUME LedgerInv, Next, ~CheckerBackfill, op' = op  PROVE OpsStep
  OBVIOUS
<1>1. \A q \in Procs : Follows(op[q])'
  BY OpStays
<1>2. OpsTyped'
  BY OpsAreTyped DEF LedgerInv, LedgerTypes, OpsTyped, OpOf
<1>3. OneConfirms'
  BY DEF LedgerInv, OpsOK, OneConfirms, Does
<1> QED  BY <1>1, <1>2, <1>3 DEF OpsStep, OpsOK

\* Back to rest, nothing is left to go by.
LEMMA RestStep ==
    ASSUME LedgerInv, Next, NEW p \in Procs, Turn(p, Idle)
    PROVE  OpsStep
<1>1. Idle \in OpOf(p)
  BY Names
<1>2. PICK o : o = Idle
  OBVIOUS
<1>3. Follows(o)' /\ o.pc # "confirm"
  BY <1>2 DEF Follows, Idle
<1> QED  BY <1>1, <1>2, <1>3, TurnStep

\* An end is prepared from a row or a snapshot of one.
LEMMA StopStep ==
    ASSUME LedgerInv, Next, NEW p \in Procs, p \in Users \cup {"checker"},
           NEW s \in Sessions, NEW r, NEW percent \in 0 .. Capacity, Turn(p, StopOf(s, r, percent)),
           Past(s),
           r.start \in 0 .. Capacity, r.target \in 0 .. Capacity, r.base \in None .. meter,
           r.blended # None => Metered(r.blended, r), r.blended \in Int
    PROVE  OpsStep
<1> DEFINE end == EndData(r, cache, percent)
<1>1. end \in 0 .. Capacity
  <2>1. cache \in Readings /\ cache.total <= meter /\ meter \in Nat
    BY MeterStep DEF LedgerInv, LedgerTypes
  <2>2. r.blended # None => r.base # None
                            /\ r.blended \in r.start .. r.start + Efficiency * (meter - r.base)
    BY DEF Metered
  <2>3. \A x \in 0 .. Capacity : EndData(r, cache, x) \in 0 .. Capacity
    BY <2>1, <2>2, EndsInRange
  <2> QED  BY <2>3
<1> HIDE DEF end
<1>2. AtLeast(end - r.start, 0) \in 0 .. Capacity
  BY <1>1, EnergyTypes DEF AtLeast
<1>3. PICK o : o = StopOf(s, r, percent)
  OBVIOUS
<1>4. o = [pc |-> "write", s |-> s, target |-> r.target, end |-> end,
           battery |-> AtLeast(end - r.start, 0)]
  BY <1>3 DEF StopOf, end
<1>5. o \in Stops /\ o.pc = "write" /\ o.s = s
  BY <1>1, <1>2, <1>4 DEF Stops
<1>6. o \in OpOf(p)
  BY <1>5, Names DEF UserOps, CheckerOps
<1>7. Past(s)'
  BY RowStep DEF RowsStep, Steady
<1>8. Follows(o)'
  BY <1>5, <1>7 DEF Follows, Past
<1> QED  BY <1>3, <1>5, <1>6, <1>8, TurnStep

LEMMA OpsInv == LedgerInv /\ Next => OpsStep
<1> SUFFICES ASSUME LedgerInv, Next  PROVE OpsStep
  OBVIOUS
<1> USE LedgerAssumption, EnergyTypes
<1>1. /\ cache \in Readings /\ cache.total <= meter /\ meter \in 1 .. MaxMeter
      /\ vehicle.current \in 0 .. Capacity
  BY DEF LedgerInv, LedgerTypes
<1>2. CASE op' = op /\ ~CheckerBackfill
  BY <1>2, NobodyMoves
<1>3. CASE Sensor
  <2>1. PICK w \in {0, 1} : cache' = [total |-> meter, power |-> w]
    BY <1>3 DEF Sensor
  <2>2. cache' \in Readings /\ cache'.total = meter' /\ meter' \in Int
    BY <1>3, <2>1, MeterStep DEF Readings, Sensor
  <2>3. CASE ~UNCHANGED op
    <3>1. PICK o : o = [pc |-> "save", e |-> cache']
      OBVIOUS
    <3>2. Turn("inbound", o)
      BY <1>3, <2>3, <3>1 DEF Sensor
    <3>3. o \in OpOf("inbound")
      BY <2>2, <3>1, Names DEF InboundOps
    <3>4. Follows(o)'
      BY <2>2, <3>1 DEF Follows
    <3> QED  BY <3>1, <3>2, <3>3, <3>4, Names, TurnStep
  <2>4. CASE UNCHANGED op
    BY <2>4, <1>2, IdleChecker
  <2> QED  BY <2>3, <2>4
<1>4. ASSUME NEW p \in Procs, Turn(p, Idle)  PROVE OpsStep
  BY <1>4, RestStep
<1>5. ASSUME NEW u \in Users, StartCapture(u)  PROVE OpsStep
  <2>1. PICK start \in Percents \cup {vehicle.current}, target \in Percents \cup {vehicle.current} :
          Turn(u, [pc |-> "start", start |-> start, target |-> target, base |-> cache.total])
    BY <1>5 DEF StartCapture
  <2>2. PICK o : o = [pc |-> "start", start |-> start, target |-> target, base |-> cache.total]
    OBVIOUS
  <2>3. start \in 0 .. Capacity /\ target \in 0 .. Capacity /\ cache.total \in None .. MaxMeter
    BY <1>1, ReadingTypes
  <2>4. o \in OpOf(u)
    BY <2>2, <2>3, Names DEF UserOps
  <2>5. meter' = meter
    BY <1>5 DEF StartCapture
  <2>6. Follows(o)'
    BY <1>1, <2>2, <2>5 DEF Follows
  <2> QED  BY <2>1, <2>2, <2>4, <2>6, Names, TurnStep
<1>6. ASSUME NEW u \in Users, NEW s \in Sessions, StartCreate(u, s)  PROVE OpsStep
  <2>1. CASE Turn(u, Idle)
    BY <1>4, <2>1, Names
  <2>2. CASE ~Turn(u, Idle)
    <3>1. Turn(u, [pc |-> "confirm", s |-> s]) /\ row'[s].st = "pending" /\ LockFree
      BY <1>6, <2>2 DEF StartCreate, LedgerInv, LedgerTypes
    <3>2. PICK o : o = [pc |-> "confirm", s |-> s]
      OBVIOUS
    <3>3. o \in OpOf(u) /\ Follows(o)'
      BY <3>1, <3>2, Names DEF UserOps, Follows
    <3> QED  BY <3>1, <3>2, <3>3, Names, TurnStep
  <2> QED  BY <2>1, <2>2
<1>7. ASSUME NEW u \in Users, NEW s \in Sessions, UserStop(u, s)  PROVE OpsStep
  <2>1. row[s].st \in Live /\ Turn(u, StopOf(s, row[s], HandStopPercent(row[s], cache)))
    BY <1>7 DEF UserStop
  <2>2. PICK x : x = row[s]
    OBVIOUS
  <2>3. RowOK(x) /\ x \in Rows /\ Past(s)
    BY <2>1, <2>2, ExistingRow DEF Live, Past
  <2>4. /\ x.start \in 0 .. Capacity /\ x.target \in 0 .. Capacity /\ x.base \in None .. meter
        /\ (x.blended # None => Metered(x.blended, x))
    BY <1>1, <2>3 DEF RowOK, Rows
  <2>5. x.blended \in Int
    BY <1>1, <2>4, MeteredIsEnergy
  <2>6. HandStopPercent(x, cache) \in 0 .. Capacity
    <3>1. meter \in Nat /\ (x.blended # None => x.base # None
              /\ x.blended \in x.start .. x.start + Efficiency * (meter - x.base))
      BY <1>1, <2>4 DEF Metered
    <3> QED  BY <1>1, <2>4, <2>5, <3>1, EndsInRange
  <2> QED  BY <2>1, <2>2, <2>3, <2>4, <2>5, <2>6, Names, StopStep
<1>8. ASSUME NEW p \in Procs, StopWrite(p) \/ StopVehicle(p)  PROVE OpsStep
  <2>1. PICK o : o = op[p]
    OBVIOUS
  <2>2. PICK n : n \in {[o EXCEPT !.pc = "off"], [o EXCEPT !.pc = "count"]} /\ Turn(p, n)
    BY <1>8, <2>1 DEF StopWrite, StopVehicle
  <2>3. o.pc \in {"write", "off"} /\ o \in Stops /\ p \in Users \cup {"checker"}
    BY <1>8, <2>1, OpKinds, WhoDoes DEF StopWrite, StopVehicle, Does
  <2>4. n \in Stops /\ n.pc \in {"off", "count"} /\ n.s = o.s
    BY <2>2, <2>3 DEF Stops
  <2>5. n \in OpOf(p)
    BY <2>3, <2>4, Names DEF UserOps, CheckerOps
  <2>6. o.s \in Sessions /\ Past(o.s)
    BY <2>1, <2>3 DEF LedgerInv, OpsOK, Follows, Stops
  <2>7. Past(o.s)'
    BY <2>6, RowStep DEF RowsStep, Steady
  <2>8. Follows(n)'
    BY <2>4, <2>7 DEF Follows, Past
  <2> QED  BY <2>2, <2>4, <2>5, <2>8, TurnStep
<1>9. ASSUME NEW s \in Sessions, CancelRead(s)  PROVE OpsStep
  <2>1. PICK x : x = row[s]
    OBVIOUS
  <2>2. row[s].st \in Live /\ Turn("lwt", [pc |-> "cancel", s |-> s, end |-> CancelPercent(x, cache)])
    BY <1>9, <2>1 DEF CancelRead
  <2>3. RowOK(x) /\ x \in Rows /\ Past(s)
    BY <2>1, <2>2, ExistingRow DEF Live, Past
  <2>4. /\ x.start \in 0 .. Capacity /\ x.target \in 0 .. Capacity /\ x.base \in None .. meter
        /\ (x.blended # None => Metered(x.blended, x))
    BY <1>1, <2>3 DEF RowOK, Rows
  <2>5. x.blended \in Int
    BY <1>1, <2>4, MeteredIsEnergy
  <2>6. CancelPercent(x, cache) \in None .. Capacity
    <3>1. meter \in Nat /\ (x.blended # None => x.base # None
              /\ x.blended \in x.start .. x.start + Efficiency * (meter - x.base))
      BY <1>1, <2>4 DEF Metered
    <3> QED  BY <1>1, <2>4, <2>5, <3>1, EndsInRange
  <2>7. PICK o : o = [pc |-> "cancel", s |-> s, end |-> CancelPercent(x, cache)]
    OBVIOUS
  <2>8. o \in OpOf("lwt") /\ o.pc = "cancel" /\ o.s = s
    BY <2>6, <2>7, Names DEF LwtOps
  <2>9. Past(s)'
    BY <2>3, RowStep DEF RowsStep, Steady
  <2>10. Follows(o)'
    BY <2>8, <2>9 DEF Follows, Past
  <2> QED  BY <2>2, <2>7, <2>8, <2>10, Names, TurnStep
<1>10. CASE CancelWrite
  <2>1. PICK o : o = op["lwt"]
    OBVIOUS
  <2>2. PICK n : n = [o EXCEPT !.pc = "advance"]
    OBVIOUS
  <2>3. o.pc = "cancel" /\ Turn("lwt", n)
    BY <1>10, <2>1, <2>2 DEF CancelWrite, Does
  <2>4. n \in LwtOps /\ n.pc = "advance" /\ n.s = o.s /\ o.s \in Sessions
    BY <2>1, <2>2, <2>3, OpKinds, Names DEF LwtOps
  <2>5. Past(o.s)
    BY <2>1, <2>3, Names DEF LedgerInv, OpsOK, Follows
  <2>6. Past(o.s)'
    BY <2>4, <2>5, RowStep DEF RowsStep, Steady
  <2>7. Follows(n)'
    BY <2>4, <2>6 DEF Follows, Past
  <2> QED  BY <2>3, <2>4, <2>7, Names, TurnStep
<1>22. CASE CancelCompare
  <2>1. CASE Turn("lwt", Idle)
    BY <1>4, <2>1, Names
  <2>2. CASE ~Turn("lwt", Idle)
    <3>1. PICK o : o = op["lwt"]
      OBVIOUS
    <3>2. PICK n : n = [pc |-> "set", s |-> o.s, end |-> o.end, target |-> vehicle.target]
      OBVIOUS
    <3>3. o.pc = "advance" /\ o.end > vehicle.current /\ Turn("lwt", n)
      BY <1>22, <2>2, <3>1, <3>2 DEF CancelCompare, Does
    <3>4. /\ o.s \in Sessions /\ o.end \in None .. Capacity
          /\ Past(o.s)
      BY <3>1, <3>3, OpKinds, Names DEF LedgerInv, OpsOK, Follows
    <3>5. o.end \in 0 .. Capacity /\ vehicle.target \in 0 .. Capacity
      BY <1>1, <3>3, <3>4 DEF LedgerInv, LedgerTypes
    <3>6. n \in LwtOps /\ n.pc = "set" /\ n.s = o.s
      BY <3>2, <3>4, <3>5 DEF LwtOps
    <3>7. Past(o.s)'
      BY <3>4, RowStep DEF RowsStep, Steady
    <3>8. Follows(n)'
      BY <3>6, <3>7 DEF Follows, Past
    <3> QED  BY <3>3, <3>6, <3>8, Names, TurnStep
  <2> QED  BY <2>1, <2>2
<1>23. ASSUME NEW u \in Users, NEW s \in Sessions, UserCancel(u, s)  PROVE OpsStep
  <2>1. PICK o : o = [pc |-> "undo", s |-> s]
    OBVIOUS
  <2>2. Turn(u, o) /\ o.pc = "undo"
    BY <1>23, <2>1 DEF UserCancel
  <2>3. o \in OpOf(u) /\ Follows(o)'
    BY <2>1, Names DEF UserOps, Follows
  <2> QED  BY <2>2, <2>3, Names, TurnStep
<1>11. ASSUME NEW u \in Users, NEW s \in Sessions, DeleteRead(u, s)  PROVE OpsStep
  <2>1. PICK o : o = [pc |-> IF row[s].battery = None THEN "remove" ELSE "decrement",
                      s |-> s, battery |-> row[s].battery]
    OBVIOUS
  <2>2. row[s].st \in Gone /\ Turn(u, o)
    BY <1>11, <2>1 DEF DeleteRead
  <2>3. row[s] \in Rows /\ Past(s)
    BY <2>2, ExistingRow DEF Gone, Past
  <2>4. row[s].battery \in None .. Capacity
    BY <2>3 DEF Rows
  <2>5. o \in OpOf(u) /\ o.pc \in {"remove", "decrement"} /\ o.s = s
    BY <2>1, <2>4, Names DEF UserOps
  <2>6. Past(s)'
    BY <2>3, RowStep DEF RowsStep, Steady
  <2>7. Follows(o)'
    BY <2>5, <2>6 DEF Follows, Past
  <2> QED  BY <2>2, <2>5, <2>7, Names, TurnStep
<1>12. ASSUME NEW u \in Users, DeleteDecrement(u)  PROVE OpsStep
  <2>1. PICK o : o = op[u]
    OBVIOUS
  <2>2. PICK n : n = [o EXCEPT !.pc = "remove"]
    OBVIOUS
  <2>3. o.pc = "decrement" /\ Turn(u, n)
    BY <1>12, <2>1, <2>2 DEF DeleteDecrement, Does
  <2>4. n \in UserOps /\ n.pc = "remove" /\ n.s = o.s /\ o.s \in Sessions
    BY <2>1, <2>2, <2>3, OpKinds, Names DEF UserOps
  <2>5. Past(o.s)
    BY <2>1, <2>3, Names DEF LedgerInv, OpsOK, Follows
  <2>6. Past(o.s)'
    BY <2>4, <2>5, RowStep DEF RowsStep, Steady
  <2>7. Follows(n)'
    BY <2>4, <2>6 DEF Follows, Past
  <2> QED  BY <2>3, <2>4, <2>7, Names, TurnStep
<1>13. ASSUME NEW s \in Sessions, CheckerList(s)  PROVE OpsStep
  <2>1. PICK o : o = [pc |-> "check", s |-> s, st |-> row[s].st, row |-> Snapshot(s)]
    OBVIOUS
  <2>2. row[s].st \in Live /\ Turn("checker", o) /\ UNCHANGED <<row, meter>>
    BY <1>13, <2>1 DEF CheckerList
  <2>3. Snapshot(s) \in Snapshots /\ SnapshotOK(s, Snapshot(s))
    BY <2>2, SnapshotNow
  <2>4. o \in OpOf("checker")
    BY <2>1, <2>2, <2>3, Names DEF CheckerOps
  <2>5. SnapshotOK(o.s, o.row)'
    BY <2>1, <2>2, <2>3 DEF SnapshotOK, Past, Exists, Metered
  <2>6. Follows(o)'
    BY <2>1, <2>5 DEF Follows
  <2> QED  BY <2>1, <2>2, <2>4, <2>6, Names, TurnStep
<1> DEFINE c == op["checker"]
<1>14. ASSUME c.pc \in {"check", "blend", "condition"}
       PROVE  /\ c.s \in Sessions /\ c.row \in Snapshots /\ SnapshotOK(c.s, c.row)
              /\ Past(c.s) /\ c.row.start \in 0 .. Capacity /\ c.row.target \in 0 .. Capacity
              /\ c.row.base \in None .. meter /\ c.row.blended \in Int
              /\ c.row.blended # None => Metered(c.row.blended, c.row)
              /\ c.pc = "blend" => c.progress \in Progress /\ Metered(c.progress.last, c.row)
  <2>1. Follows(c)
    BY Names DEF LedgerInv, OpsOK
  <2>2. c.s \in Sessions /\ c.row \in Snapshots /\ (c.pc = "blend" => c.progress \in Progress)
    BY <1>14, OpKinds, Names
  <2>3. SnapshotOK(c.s, c.row) /\ (c.pc = "blend" => Metered(c.progress.last, c.row))
    BY <1>14, <2>1 DEF Follows
  <2>4. /\ c.row.start \in 0 .. Capacity /\ c.row.target \in 0 .. Capacity
        /\ c.row.base \in None .. meter /\ (c.row.blended # None => Metered(c.row.blended, c.row))
    BY <1>1, <2>2, <2>3 DEF Snapshots, SnapshotOK
  <2>5. c.row.blended \in Int
    BY <1>1, <2>4, MeteredIsEnergy
  <2> QED  BY <2>2, <2>3, <2>4, <2>5 DEF SnapshotOK
<1>15. ASSUME c.pc \in {"check", "blend", "condition"}, NEW percent \in 0 .. Capacity,
              Turn("checker", StopOf(c.s, c.row, percent))
       PROVE  OpsStep
  <2>1. PICK s \in Sessions, x \in Snapshots : s = c.s /\ x = c.row
    BY <1>14, <1>15
  <2>2. /\ Past(s) /\ x.start \in 0 .. Capacity /\ x.target \in 0 .. Capacity
        /\ x.base \in None .. meter /\ x.blended \in Int
        /\ (x.blended # None => Metered(x.blended, x))
    BY <1>14, <1>15, <2>1
  <2> QED  BY <1>15, <2>1, <2>2, Names, StopStep
<1>16. CASE CheckerProgress
  <2>1. c.pc = "check" /\ c.row.base # None
    BY <1>16 DEF CheckerProgress, Does, Measured, Checked
  <2>2. PICK s \in Sessions, x \in Snapshots : s = c.s /\ x = c.row
    BY <1>14, <2>1
  <2>3. /\ SnapshotOK(s, x) /\ x.base # None /\ x.base <= meter
        /\ (x.blended # None => Metered(x.blended, x))
        /\ x.start \in Int /\ x.base \in Int
    BY <1>14, <2>1, <2>2
  <2>4. PICK progress : progress = CalculateProgress(x, cache)
    OBVIOUS
  <2>5. Metered(progress.last, x) /\ progress.shown \in 0 .. Capacity
    BY <1>1, <2>3, <2>4, SnapshotProgress
  <2>6. progress \in Progress
    <3>1. progress.last \in Energies
      BY <1>1, <1>14, <2>1, <2>2, <2>5, MeteredIsEnergy
    <3>2. progress = [shown |-> progress.shown, last |-> progress.last]
      BY <2>4 DEF CalculateProgress
    <3> QED  BY <2>5, <3>1, <3>2 DEF Progress
  <2>7. PICK o : o = [pc |-> "blend", s |-> s, row |-> x, progress |-> progress]
    OBVIOUS
  <2>8. Turn("checker", o)
    BY <1>16, <2>2, <2>4, <2>7 DEF CheckerProgress, Checked
  <2>9. o \in OpOf("checker")
    BY <2>6, <2>7, Names DEF CheckerOps
  <2>10. SnapshotOK(s, x)' /\ Metered(progress.last, x)'
    BY <2>3, <2>5, MeterStep, MeteredGrows, SnapshotStays
  <2>11. Follows(o)'
    BY <2>7, <2>10 DEF Follows, SnapshotOK, Past, Exists, Metered
  <2> QED  BY <2>7, <2>8, <2>9, <2>11, Names, TurnStep
<1>17. CASE CheckerBlend
  <2>1. c.pc = "blend"
    BY <1>17 DEF CheckerBlend, Does
  <2>2. Metered(c.progress.last, c.row) /\ c.progress \in Progress
    BY <1>14, <2>1
  <2>3. c.progress.shown \in 0 .. Capacity /\ c.row.base # None
    BY <2>2 DEF Progress, Metered
  <2>4. CASE Turn("checker", Idle)
    BY <1>4, <2>4, Names
  <2>5. CASE Turn("checker", StopOf(c.s, c.row, c.progress.shown))
    BY <1>15, <2>1, <2>3, <2>5
  <2>6. CASE Turn("checker", [c EXCEPT !.pc = "condition"])
    <3>1. PICK s \in Sessions, x \in Snapshots : s = c.s /\ x = c.row
      BY <1>14, <2>1
    <3>2. PICK o : o = [c EXCEPT !.pc = "condition"]
      OBVIOUS
    <3>3. o \in CheckerOps /\ o.pc = "condition" /\ o.s = s /\ o.row = x
      BY <2>1, <3>1, <3>2, OpKinds, Names DEF CheckerOps
    <3>4. SnapshotOK(s, x) /\ x.base # None
      BY <1>14, <2>1, <2>3, <3>1
    <3>5. SnapshotOK(s, x)'
      BY <3>4, SnapshotStays
    <3>6. Follows(o)'
      BY <3>3, <3>5 DEF Follows, SnapshotOK, Past, Exists, Metered
    <3> QED  BY <2>6, <3>2, <3>3, <3>6, Names, TurnStep
  <2> QED  BY <1>17, <2>4, <2>5, <2>6 DEF CheckerBlend
<1>18. CASE CheckerTaper
  <2>1. c.pc = "check" /\ c.row.target \in 0 .. Capacity
    BY <1>14, <1>18 DEF CheckerTaper, Does
  <2>2. Turn("checker", Idle) \/ Turn("checker", StopOf(c.s, c.row, c.row.target))
    BY <1>18 DEF CheckerTaper, Checked
  <2> QED  BY <1>4, <1>15, <2>1, <2>2, Names
<1>19. CASE CheckerIdle
  <2>1. c.pc = "check" /\ Turn("checker", StopOf(c.s, c.row, Capacity))
    BY <1>19 DEF CheckerIdle, Does, Checked
  <2>2. Capacity \in 0 .. Capacity
    OBVIOUS
  <2> QED  BY <1>15, <2>1, <2>2
<1>20. CASE Restart
  <2>1. op' = [p \in Procs |-> Idle]
    BY <1>20 DEF Restart
  <2>2. \A p \in Procs : op'[p] = Idle
    BY <2>1
  <2>3. OpsTyped'
    BY <2>1, <2>2, Names DEF OpsTyped, OpOf
  <2>4. OpsOK'
    BY <2>2, Names DEF OpsOK, Follows, OneConfirms, Does, Idle
  <2> QED  BY <2>3, <2>4 DEF OpsStep
<1>21. \/ op' = op /\ ~CheckerBackfill
       \/ \E p \in Procs : Turn(p, Idle)
       \/ Sensor \/ Restart \/ CancelWrite \/ CancelCompare
       \/ \E p \in Procs : StopWrite(p) \/ StopVehicle(p)
       \/ \E s \in Sessions : CancelRead(s) \/ CheckerList(s)
       \/ CheckerProgress \/ CheckerBlend \/ CheckerTaper \/ CheckerIdle
       \/ \E s \in Sessions, u \in Users :
            StartCreate(u, s) \/ UserStop(u, s) \/ UserCancel(u, s) \/ DeleteRead(u, s)
       \/ \E u \in Users : StartCapture(u) \/ DeleteDecrement(u)
  <2>1. CASE Draw \/ ProcessSOC \/ SensorSave \/ CancelAdvance
    BY <2>1, Names, IdleChecker DEF Draw, ProcessSOC, SensorSave, CancelAdvance
  <2>2. ASSUME NEW p \in Procs, StopCount(p)  PROVE Turn(p, Idle)
    BY <2>2 DEF StopCount
  <2>3. ASSUME NEW s \in Sessions, PollActivate(s) \/ PollSave(s)
        PROVE  op' = op
    BY <2>3 DEF PollActivate, PollSave
  <2>4. CASE CheckerSkip \/ CheckerBackfill \/ CheckerCondition
    BY <2>4, Names DEF CheckerSkip, CheckerBackfill, CheckerCondition
  <2>5. ASSUME NEW s \in Sessions, NEW target \in Percents, Retarget(s, target)  PROVE op' = op
    BY <2>5 DEF Retarget
  <2>6. ASSUME NEW u \in Users, StartEnd(u) \/ CancelPending(u) \/ DeleteRemove(u)
        PROVE  Turn(u, Idle)
    BY <2>6 DEF StartEnd, CancelPending, DeleteRemove
  <2>7. ASSUME NEW current \in Percents, NEW target \in Percents, EditPercents(current, target)
        PROVE  op' = op
    BY <2>7 DEF EditPercents
  <2>8. op' = op => ~CheckerBackfill
    BY IdleChecker
  <2> QED
    BY <2>1, <2>2, <2>3, <2>4, <2>5, <2>6, <2>7, <2>8, Names DEF Next, Stop, Checker
<1> QED
  BY <1>2, <1>3, <1>4, <1>5, <1>6, <1>7, <1>8, <1>9, <1>10, <1>11, <1>12, <1>13, <1>16,
     <1>17, <1>18, <1>19, <1>20, <1>21, <1>22, <1>23

----------------------------------------------------------------------------
(* The vehicle and the cache.                                              *)

LEMMA VehicleCases ==
    ASSUME Next
    PROVE  \/ UNCHANGED vehicle
           \/ \E p \in Procs : StopVehicle(p) \/ StopCount(p)
           \/ CancelAdvance \/ \E u \in Users : DeleteDecrement(u)
           \/ \E current, target \in Percents : EditPercents(current, target)
<1>1. RowWriter => UNCHANGED vehicle
  BY DEF RowWriter, PollActivate, CancelPending, Retarget, StartCreate, ProcessSOC, CancelWrite,
         CheckerBackfill, CheckerBlend, CheckerCondition, StopWrite, StartEnd, DeleteRemove
<1>2. CASE Draw \/ Sensor \/ SensorSave \/ Restart \/ CancelCompare
  BY <1>2 DEF Draw, Sensor, SensorSave, Restart, CancelCompare
<1>3. ASSUME NEW s \in Sessions,
             PollSave(s) \/ CancelRead(s) \/ CheckerList(s) \/ CheckerSkip \/ CheckerProgress
               \/ CheckerTaper \/ CheckerIdle
      PROVE  UNCHANGED vehicle
  BY <1>3
  DEF PollSave, CancelRead, CheckerList, CheckerSkip, CheckerProgress, CheckerTaper, CheckerIdle
<1>4. ASSUME NEW s \in Sessions, NEW u \in Users,
             UserStop(u, s) \/ UserCancel(u, s) \/ DeleteRead(u, s)
      PROVE  UNCHANGED vehicle
  BY <1>4 DEF UserStop, UserCancel, DeleteRead
<1>5. ASSUME NEW u \in Users, StartCapture(u)  PROVE UNCHANGED vehicle
  BY <1>5 DEF StartCapture
<1> QED  BY <1>1, <1>2, <1>3, <1>4, <1>5 DEF Next, Stop, Checker, RowWriter

Vehicles == [current : 0 .. Capacity, target : 0 .. Capacity, sessions : Nat, battery : Nat]

LEMMA VehicleStep == LedgerInv /\ Next => vehicle' \in Vehicles
<1> SUFFICES ASSUME LedgerInv, Next  PROVE vehicle' \in Vehicles
  OBVIOUS
<1> USE LedgerAssumption, EnergyTypes
<1>1. vehicle \in Vehicles
  BY DEF LedgerInv, LedgerTypes, Vehicles
<1>2. ASSUME NEW p \in Procs, StopVehicle(p) \/ StopCount(p)  PROVE vehicle' \in Vehicles
  <2>1. op[p] \in Stops
    BY <1>2, OpKinds DEF StopVehicle, StopCount, Does
  <2>2. op[p].end \in 0 .. Capacity /\ op[p].target \in 0 .. Capacity /\ op[p].battery \in Nat
    BY <2>1 DEF Stops
  <2>3. CASE StopVehicle(p)
    BY <1>1, <2>2, <2>3 DEF StopVehicle, Vehicles
  <2>4. CASE StopCount(p)
    <3>1. vehicle.sessions + 1 \in Nat /\ vehicle.battery + op[p].battery \in Nat
      BY <1>1, <2>2 DEF Vehicles
    <3> QED  BY <1>1, <2>4, <3>1 DEF StopCount, Vehicles
  <2> QED  BY <1>2, <2>3, <2>4
<1>3. CASE CancelAdvance
  <2>1. op["lwt"].end \in 0 .. Capacity /\ op["lwt"].target \in 0 .. Capacity
    BY <1>3, OpKinds, Names DEF CancelAdvance, Does
  <2> QED  BY <1>1, <1>3, <2>1 DEF CancelAdvance, Vehicles
<1>4. ASSUME NEW u \in Users, DeleteDecrement(u)  PROVE vehicle' \in Vehicles
  <2>1. op[u].battery \in Int
    BY <1>4, OpKinds, Names DEF DeleteDecrement, Does
  <2>2. AtLeast(vehicle.sessions - 1, 0) \in Nat /\ AtLeast(vehicle.battery - op[u].battery, 0) \in Nat
    BY <1>1, <2>1 DEF AtLeast, Vehicles
  <2> QED  BY <1>1, <1>4, <2>2 DEF DeleteDecrement, Vehicles
<1>5. ASSUME NEW current \in Percents, NEW target \in Percents, EditPercents(current, target)
      PROVE  vehicle' \in Vehicles
  BY <1>1, <1>5 DEF EditPercents, Vehicles
<1> QED  BY <1>1, <1>2, <1>3, <1>4, <1>5, VehicleCases

LEMMA CacheStep == LedgerInv /\ Next => cache' \in Readings /\ cache'.total <= meter'
<1> SUFFICES ASSUME LedgerInv, Next  PROVE cache' \in Readings /\ cache'.total <= meter'
  OBVIOUS
<1>1. cache \in Readings /\ cache.total \in Int /\ cache.total <= meter
  BY ReadingTypes, EnergyTypes DEF LedgerInv, LedgerTypes
<1>2. CASE UNCHANGED cache
  BY <1>1, <1>2, MeterStep
<1>3. CASE Sensor
  BY <1>3, MeterStep DEF Sensor, Readings
<1>4. CASE Restart
  BY <1>4, MeterStep DEF Restart, Readings, NoReading, None
<1>5. UNCHANGED cache \/ Sensor \/ Restart
  <2>1. RowWriter => UNCHANGED cache
    BY DEF RowWriter, PollActivate, CancelPending, Retarget, StartCreate, ProcessSOC, CancelWrite,
           CheckerBackfill, CheckerBlend, CheckerCondition, StopWrite, StartEnd, DeleteRemove
  <2>2. CASE \/ Draw \/ SensorSave \/ CancelCompare \/ CancelAdvance
             \/ \E p \in Procs : StopVehicle(p) \/ StopCount(p)
    BY <2>2 DEF Draw, SensorSave, CancelCompare, CancelAdvance, StopVehicle, StopCount
  <2>3. ASSUME NEW s \in Sessions,
               PollSave(s) \/ CancelRead(s) \/ CheckerList(s) \/ CheckerSkip \/ CheckerProgress
                 \/ CheckerTaper \/ CheckerIdle
        PROVE  UNCHANGED cache
    BY <2>3
    DEF PollSave, CancelRead, CheckerList, CheckerSkip, CheckerProgress, CheckerTaper, CheckerIdle
  <2>4. ASSUME NEW s \in Sessions, NEW u \in Users,
               UserStop(u, s) \/ UserCancel(u, s) \/ DeleteRead(u, s)
        PROVE  UNCHANGED cache
    BY <2>4 DEF UserStop, UserCancel, DeleteRead
  <2>5. ASSUME NEW u \in Users, StartCapture(u) \/ DeleteDecrement(u)  PROVE UNCHANGED cache
    BY <2>5 DEF StartCapture, DeleteDecrement
  <2>6. ASSUME NEW current \in Percents, NEW target \in Percents, EditPercents(current, target)
        PROVE  UNCHANGED cache
    BY <2>6 DEF EditPercents
  <2> QED  BY <2>1, <2>2, <2>3, <2>4, <2>5, <2>6 DEF Next, Stop, Checker, RowWriter
<1> QED  BY <1>2, <1>3, <1>4, <1>5

LEMMA LedgerStep == LedgerInv /\ [Next]_vars => LedgerInv'
<1> SUFFICES ASSUME LedgerInv, [Next]_vars  PROVE LedgerInv'
  OBVIOUS
<1>1. CASE Next
  <2>1. RowsStep /\ OpsStep
    BY <1>1, RowStep, OpsInv
  <2>2. /\ op' \in [Procs -> UserOps \cup InboundOps \cup CheckerOps \cup LwtOps]
        /\ \A u \in Users : op'[u] \in UserOps
        /\ op'["inbound"] \in InboundOps /\ op'["checker"] \in CheckerOps /\ op'["lwt"] \in LwtOps
    BY <2>1, Names DEF OpsStep, OpsTyped
  <2>3. LedgerTypes'
    BY <1>1, <2>1, <2>2, MeterStep, VehicleStep, CacheStep, QueueStep
    DEF LedgerTypes, RowsStep, Vehicles
  <2>4. cache'.total <= meter' /\ QueueOK'
    BY <1>1, CacheStep, QueueStep
  <2>5. RowsOK' /\ OpsOK'
    BY <2>1 DEF RowsStep, OpsStep
  <2> QED  BY <2>3, <2>4, <2>5 DEF LedgerInv
<1>2. CASE UNCHANGED vars
  <2>1. LedgerTypes'
    BY <1>2 DEF vars, history, LedgerInv, LedgerTypes
  <2>2. RowsOK'
    BY <1>2 DEF vars, history, LedgerInv, RowsOK, RowOK, Metered, Exists
  <2>3. OpsOK'
    BY <1>2 DEF vars, history, LedgerInv, OpsOK, Follows, SnapshotOK, Past, Exists, Metered,
                OneConfirms, Does
  <2>4. QueueOK'
    BY <1>2 DEF vars, history, LedgerInv, QueueOK, RequestOK, SnapshotOK, Past, Exists, Metered
  <2>5. cache'.total <= meter'
    BY <1>2 DEF vars, LedgerInv
  <2> QED  BY <2>1, <2>2, <2>3, <2>4, <2>5 DEF LedgerInv
<1> QED  BY <1>1, <1>2

THEOREM LedgerInvariant == Spec => []LedgerInv
BY LedgerInitInv, LedgerStep, PTL DEF Spec

\* Every percent, energy and sum that the statements store, computed from
\* whatever row and reading, is in the range of its column.
THEOREM LedgerTypesHold == Spec => []LedgerTypeOK
BY LedgerInvariant, InvImplies, PTL

\* The stored progress of a session is what its meter gave since its baseline,
\* in whatever order and however late the SOC worker and the checker write.
THEOREM BlendedHolds == Spec => []BlendedIsMetered
BY LedgerInvariant, InvImplies, PTL

----------------------------------------------------------------------------
(***************************************************************************)
(* The lifetime statistics.  Between the statements of an end or of a      *)
(* deletion the sums differ from the rows by the session in hand: one that *)
(* is recorded and not yet counted, or taken back and not yet removed.     *)
(* Nobody else has begun on the same session, unless tangled says so.      *)
(***************************************************************************)

Owes(p, s) == op[p].pc \in {"off", "count"} /\ op[p].s = s
Undoes(p, s) == op[p].pc = "remove" /\ op[p].s = s

Counting == {s \in Counted : \A p \in Procs : ~Owes(p, s) /\ ~Undoes(p, s)}

\* Has written to the books, and is not done with them.
Begun(p) == op[p].pc \in {"off", "count", "advance", "set", "decrement", "remove"}
Deals(p) == op[p].pc \in {"off", "count", "decrement", "remove"}

BooksOK ==
    /\ \A s \in Sessions : row[s].st \in InProgress => row[s].battery = None
    /\ \A p \in Procs : Begun(p) => row[op[p].s].st \in Gone
    /\ \A p, q \in Procs : Begun(p) /\ Begun(q) /\ op[p].s = op[q].s => p = q
    /\ \A p \in Procs : Deals(p) => row[op[p].s].battery = op[p].battery
    /\ \A p \in Procs : op[p].pc = "decrement" => op[p].battery # None

SumsOK ==
    /\ IsFiniteSet(Counted)
    /\ vehicle.sessions = Prior.sessions + Cardinality(Counting)
    /\ vehicle.battery = Prior.battery + Cardinality(Delivered(Counting))

SumsInv == ~tangled => BooksOK /\ SumsOK

----------------------------------------------------------------------------
\* One more session brings what it delivered.
LEMMA DeliveredAdds ==
    ASSUME NEW S, IsFiniteSet(S), NEW s, s \notin S, row[s].battery \in 0 .. Capacity
    PROVE  /\ IsFiniteSet(Delivered(S)) /\ Cardinality(Delivered(S)) \in Nat
           /\ Cardinality(Delivered(S \cup {s})) = Cardinality(Delivered(S)) + row[s].battery
<1> USE EnergyTypes
<1> DEFINE b == row[s].battery
           mine == {s} \X (1 .. b)
<1>1. IsFiniteSet(S \X (1 .. Capacity))
  <2>1. IsFiniteSet(1 .. Capacity)
    BY FS_Interval
  <2> QED  BY <2>1, FS_Product
<1>2. IsFiniteSet(Delivered(S))
  BY <1>1, FS_Subset DEF Delivered
<1>3. IsFiniteSet(mine) /\ Cardinality(mine) = b
  <2>1. IsFiniteSet(1 .. b) /\ Cardinality(1 .. b) = b
    <3>1. b \in 0 .. Capacity /\ 1 \in Int /\ b \in Int
      OBVIOUS
    <3> HIDE DEF b
    <3>2. IsFiniteSet(1 .. b) /\ Cardinality(1 .. b) = IF 1 > b THEN 0 ELSE b - 1 + 1
      BY <3>1, FS_Interval
    <3> QED  BY <3>1, <3>2
  <2>2. IsFiniteSet({s}) /\ Cardinality({s}) = 1
    BY FS_Singleton
  <2>3. IsFiniteSet(mine) /\ Cardinality(mine) = 1 * b
    BY <2>1, <2>2, FS_Product
  <2> QED  BY <2>3
<1>4. Delivered(S \cup {s}) = Delivered(S) \cup mine
  BY DEF Delivered
<1>5. Delivered(S) \cap mine = {}
  BY DEF Delivered
<1>6. Cardinality(Delivered(S)) \in Nat
  BY <1>2, FS_CardinalityType
<1> HIDE DEF mine
<1>7. Cardinality(Delivered(S) \cup mine) = Cardinality(Delivered(S)) + b - 0
  BY <1>2, <1>3, <1>5, FS_Union, FS_EmptySet
<1>8. Cardinality(Delivered(S \cup {s})) = Cardinality(Delivered(S)) + b
  <2> DEFINE n == Cardinality(Delivered(S))
  <2>1. Cardinality(Delivered(S \cup {s})) = n + b - 0
    BY <1>4, <1>7
  <2>2. n \in Nat /\ b \in Int
    BY <1>6
  <2> HIDE DEF n, b
  <2> QED  BY <2>1, <2>2 DEF n
<1> QED  BY <1>2, <1>6, <1>8

LEMMA BooksInit == Init => SumsInv
<1> SUFFICES ASSUME Init  PROVE BooksOK /\ SumsOK
  BY DEF SumsInv
<1> USE EnergyTypes, LedgerAssumption
<1>1. \A s \in Sessions : row[s] = NoRow
  BY DEF Init
<1>2. \A p \in Procs : op[p] = Idle
  BY DEF Init
<1>3. BooksOK
  BY <1>1, <1>2 DEF BooksOK, Begun, Deals, NoRow, Idle, InProgress, Live
<1>4. Counted = {} /\ Counting = {}
  BY <1>1 DEF Counted, Counting, NoRow
<1>5. Delivered(Counting) = {}
  BY <1>4 DEF Delivered
<1>6. IsFiniteSet(Counted) /\ Cardinality(Counting) = 0 /\ Cardinality(Delivered(Counting)) = 0
  BY <1>4, <1>5, FS_EmptySet
<1>7. vehicle = Prior /\ Prior.sessions \in Nat /\ Prior.battery \in Nat
  BY DEF Init
<1> QED  BY <1>3, <1>6, <1>7 DEF SumsOK

\* At rest the sessions that are counted are all that have a figure.
LEMMA SumsImply == SumsInv => LifetimeIsExact
<1> SUFFICES ASSUME SumsInv, Quiet, ~tangled  PROVE Counting = Counted /\ SumsOK
  BY DEF LifetimeIsExact, SumsOK
<1>1. \A p \in Procs, s \in Sessions : ~Owes(p, s) /\ ~Undoes(p, s)
  BY DEF Quiet, BooksOf, Owes, Undoes
<1> QED  BY <1>1 DEF SumsInv, Counting, Counted

----------------------------------------------------------------------------
(***************************************************************************)
(* Most steps neither begin nor move an end or a deletion.                 *)
(***************************************************************************)

OpsQuiet == \A p \in Procs : Begun(p) \/ Begun(p)' => op'[p] = op[p]

RowsQuiet ==
    \A s \in Sessions :
        /\ row'[s].battery = row[s].battery
        /\ row[s].st \in Gone => row'[s].st \in Gone
        /\ row'[s].st \in InProgress => row'[s].battery = None

\* An end that is recorded stays as it is or is erased, and there is no other.
EndsStay ==
    \A s \in Sessions :
        /\ row'[s].st \in Gone /\ row'[s].end # None =>
              row[s].st \in Gone /\ row'[s].end = row[s].end
        /\ Past(s) /\ Exists(s)' => Exists(s) /\ row'[s].end \in {row[s].end, None}

QuietStep ==
    /\ OpsQuiet /\ EndsStay
    /\ BooksOK /\ ~tangled' => RowsQuiet
    /\ UNCHANGED <<vehicle, kept>>

LEMMA QuietTurn ==
    ASSUME LedgerInv, NEW p \in Procs, NEW o, Turn(p, o), ~Begun(p),
           o.pc \notin {"off", "count", "advance", "set", "decrement", "remove"}
    PROVE  OpsQuiet
<1>1. op \in [Procs -> UserOps \cup InboundOps \cup CheckerOps \cup LwtOps]
  BY DEF LedgerInv, LedgerTypes
<1>2. op'[p] = o /\ \A q \in Procs \ {p} : op'[q] = op[q]
  BY <1>1 DEF Turn
<1>3. ASSUME NEW q \in Procs, Begun(q) \/ Begun(q)'  PROVE op'[q] = op[q]
  <2>1. CASE q = p
    BY <1>2, <1>3, <2>1 DEF Begun
  <2>2. CASE q # p
    BY <1>2, <2>2
  <2> QED  BY <2>1, <2>2
<1> QED  BY <1>3 DEF OpsQuiet

LEMMA QuietRows ==
    ASSUME UNCHANGED row
    PROVE  EndsStay /\ (BooksOK => RowsQuiet)
BY DEF EndsStay, RowsQuiet, BooksOK, Exists

LEMMA QuietSet ==
    ASSUME LedgerInv, NEW s \in Sessions, NEW r, Set(s, r),
           Exists(s) => /\ r.battery = row[s].battery /\ r.end \in {row[s].end, None}
                        /\ r.st \in Gone => row[s].st \in Gone \/ r.end = None
    PROVE  /\ EndsStay
           /\ BooksOK /\ (Exists(s) /\ row[s].st \in Gone => r.st \in Gone) => RowsQuiet
<1>1. CASE ~Exists(s)
  <2>1. UNCHANGED row
    BY <1>1 DEF Set
  <2> QED  BY <2>1, QuietRows
<1>2. CASE Exists(s)
  <2>1. row'[s] = r /\ \A t \in Sessions \ {s} : row'[t] = row[t]
    BY <1>2 DEF Set, LedgerInv, LedgerTypes
  <2>2. EndsStay
    <3>1. ASSUME NEW t \in Sessions
          PROVE  /\ row'[t].st \in Gone /\ row'[t].end # None =>
                      row[t].st \in Gone /\ row'[t].end = row[t].end
                 /\ Exists(t)' => Exists(t) /\ row'[t].end \in {row[t].end, None}
      BY <1>2, <2>1 DEF Exists
    <3> QED  BY <3>1 DEF EndsStay
  <2>3. ASSUME BooksOK, row[s].st \in Gone => r.st \in Gone  PROVE RowsQuiet
    <3>1. row[s].st \in InProgress \cup Gone
      BY <1>2, ExistingRow DEF Rows
    <3>2. \A t \in Sessions : row[t].st \in InProgress => row[t].battery = None
      BY <2>3 DEF BooksOK
    <3>3. r.st \in InProgress => row[s].st \in InProgress
      BY <2>3, <3>1 DEF InProgress, Live, Gone
    <3> QED  BY <1>2, <2>1, <2>3, <3>2, <3>3 DEF RowsQuiet
  <2> QED  BY <1>2, <2>2, <2>3
<1> QED  BY <1>1, <1>2

\* A statement that leaves the books of s alone, but for an end it may erase.
Amends(s, r) ==
    /\ Set(s, r)
    /\ r = [row[s] EXCEPT !.st = r.st, !.base = r.base, !.target = r.target,
                          !.blended = r.blended, !.end = r.end]
    /\ Exists(s) =>
        /\ r.end \in {row[s].end, None}
        /\ \/ r.st = row[s].st
           \/ row[s].st = "pending"
           \/ r.st = "conditioning" /\ (~tangled' => row[s].st \in Live)
           \/ r.st = "cancelled" /\ r.end = None

LEMMA QuietWriters ==
    ASSUME LedgerInv, Next, RowWriter,
           ~CancelWrite, \A p \in Procs : ~StopWrite(p), \A u \in Users : ~DeleteRemove(u)
    PROVE  EndsStay /\ (BooksOK /\ ~tangled' => RowsQuiet)
<1> DEFINE Good == EndsStay /\ (BooksOK /\ ~tangled' => RowsQuiet)
<1>1. ASSUME NEW s \in Sessions, NEW r, Amends(s, r)  PROVE Good
  <2>1. ASSUME Exists(s)
        PROVE  /\ r.battery = row[s].battery /\ r.end \in {row[s].end, None}
               /\ r.st \in Gone => row[s].st \in Gone \/ r.end = None
               /\ ~tangled' /\ row[s].st \in Gone => r.st \in Gone
    <3>1. row[s] \in Rows /\ RowOK(row[s])
      BY <2>1, ExistingRow
    <3>2. r.battery = row[s].battery /\ r.end \in {row[s].end, None}
      BY <1>1, <2>1, <3>1 DEF Rows, Amends
    <3>3. row[s].st = "pending" => row[s].end = None
      BY <3>1 DEF RowOK
    <3> QED  BY <1>1, <2>1, <3>2, <3>3 DEF Gone, Live, Amends
  <2> QED  BY <1>1, <2>1, QuietSet DEF Amends
<1> HIDE DEF Good
<1>2. (\A s \in Sessions : PollActivate(s) => Good) /\ (\A u \in Users : CancelPending(u) => Good)
  <2>1. ASSUME NEW s \in Sessions, PollActivate(s)  PROVE Good
    <3>1. PICK r : r = [row[s] EXCEPT !.st = "active", !.base = cache.total]
      OBVIOUS
    <3>2. row[s].st = "pending" /\ Set(s, r)
      BY <2>1, <3>1 DEF PollActivate
    <3>3. row[s] \in Rows
      BY <3>2, ExistingRow
    <3>4. r = [row[s] EXCEPT !.st = r.st, !.base = r.base, !.target = r.target,
                             !.blended = r.blended, !.end = r.end] /\ r.end = row[s].end
      BY <3>1, <3>3 DEF Rows
    <3>5. Amends(s, r)
      BY <3>2, <3>4 DEF Amends
    <3> QED  BY <3>5, <1>1
  <2>2. ASSUME NEW u \in Users, CancelPending(u)  PROVE Good
    <3>1. PICK s \in Sessions : s = op[u].s
      BY <2>2, OpKinds, Names DEF CancelPending, Does
    <3>2. PICK r : r = [row[s] EXCEPT !.st = "cancelled", !.end = None]
      OBVIOUS
    <3>3. Set(s, r)
      BY <2>2, <3>1, <3>2 DEF CancelPending
    <3>4. CASE Exists(s)
      <4>1. row[s] \in Rows
        BY <3>4, ExistingRow
      <4>2. /\ r = [row[s] EXCEPT !.st = r.st, !.base = r.base, !.target = r.target,
                                  !.blended = r.blended, !.end = r.end]
            /\ r.st = "cancelled" /\ r.end = None
        BY <3>2, <4>1 DEF Rows
      <4>3. Amends(s, r)
        BY <3>3, <4>2 DEF Amends
      <4> QED  BY <4>3, <1>1
    <3>5. CASE ~Exists(s)
      BY <3>3, <3>5, QuietRows DEF Set, Good
    <3> QED  BY <3>4, <3>5
  <2> QED  BY <2>1, <2>2
<1>3. ASSUME NEW s \in Sessions, NEW target \in Percents, Retarget(s, target)  PROVE Good
  <2>1. PICK r : r = [row[s] EXCEPT !.target = target]
    OBVIOUS
  <2>2. row[s].st = "active" /\ Set(s, r)
    BY <1>3, <2>1 DEF Retarget
  <2>3. row[s] \in Rows
    BY <2>2, ExistingRow
  <2>4. r = [row[s] EXCEPT !.st = r.st, !.base = r.base, !.target = r.target,
                           !.blended = r.blended, !.end = r.end]
        /\ r.st = row[s].st /\ r.end = row[s].end
    BY <2>1, <2>3 DEF Rows
  <2>5. Amends(s, r)
    BY <2>2, <2>4 DEF Amends
  <2> QED  BY <2>5, <1>1
<1>4. ASSUME NEW s \in Sessions, NEW u \in Users, StartCreate(u, s)  PROVE Good
  <2>1. CASE UNCHANGED row
    BY <2>1, QuietRows DEF Good
  <2>2. CASE ~UNCHANGED row
    <3>1. PICK start, target, base :
             row' = [row EXCEPT ![s] = [st |-> "pending", start |-> start, target |-> target,
                       base |-> base, blended |-> None, end |-> None, battery |-> None]]
      BY <1>4, <2>2 DEF StartCreate
    <3>2. row[s] = NoRow
      BY <1>4 DEF StartCreate
    <3>3. /\ row'[s].st = "pending" /\ row'[s].battery = None
          /\ \A t \in Sessions \ {s} : row'[t] = row[t]
      BY <3>1 DEF LedgerInv, LedgerTypes
    <3>4. EndsStay
      BY <3>2, <3>3 DEF EndsStay, NoRow, Gone, Past, Exists
    <3>5. BooksOK => RowsQuiet
      BY <3>2, <3>3 DEF BooksOK, RowsQuiet, NoRow, Gone
    <3> QED  BY <3>4, <3>5 DEF Good
  <2> QED  BY <2>1, <2>2
<1>5. CASE ProcessSOC
  <2>1. PICK q : q = Head(queue)
    OBVIOUS
  <2>2. PICK x : x = CalculateProgress(q.row, q.e).last
    OBVIOUS
  <2>3. PICK r : r = [row[q.s] EXCEPT !.blended = x]
    OBVIOUS
  <2>4. q \in Requests /\ Set(q.s, r)
    BY <1>5, <2>1, <2>2, <2>3, HeadTailProperties DEF ProcessSOC, LedgerInv, LedgerTypes
  <2>5. PICK s \in Sessions : s = q.s
    BY <2>4 DEF Requests
  <2>6. CASE Exists(s)
    <3>1. row[s] \in Rows
      BY <2>6, ExistingRow
    <3>2. r = [row[s] EXCEPT !.st = r.st, !.base = r.base, !.target = r.target,
                             !.blended = r.blended, !.end = r.end]
          /\ r.st = row[s].st /\ r.end = row[s].end
      BY <2>3, <2>5, <3>1 DEF Rows
    <3>3. Set(s, r)
      BY <2>4, <2>5
    <3>4. Amends(s, r)
      BY <3>2, <3>3 DEF Amends
    <3> QED  BY <3>4, <1>1 DEF Good
  <2>7. CASE ~Exists(s)
    BY <2>4, <2>5, <2>7, QuietRows DEF Set, Good
  <2> QED  BY <2>6, <2>7
<1>6. CASE CheckerBackfill \/ CheckerBlend \/ CheckerCondition
  <2>1. PICK s : s = op["checker"].s
    OBVIOUS
  <2>2. PICK r : /\ Set(s, r)
                 /\ \/ r = [row[s] EXCEPT !.base = cache.total]
                    \/ \E x : r = [row[s] EXCEPT !.blended = x]
                    \/ /\ r = [row[s] EXCEPT !.st = "conditioning"]
                       /\ ~tangled' => row[s].st \in Live
    <3>1. CASE CheckerBackfill
      BY <2>1, <3>1 DEF CheckerBackfill
    <3>2. CASE CheckerBlend
      BY <2>1, <3>2 DEF CheckerBlend
    <3>3. CASE CheckerCondition
      BY <2>1, <3>3 DEF CheckerCondition, Entangle
    <3> QED  BY <1>6, <3>1, <3>2, <3>3
  <2>3. s \in Sessions
    BY <1>6, <2>1, OpKinds, Names DEF CheckerBackfill, CheckerBlend, CheckerCondition, Does
  <2>4. CASE Exists(s)
    <3>1. row[s] \in Rows
      BY <2>3, <2>4, ExistingRow
    <3>2. r = [row[s] EXCEPT !.st = r.st, !.base = r.base, !.target = r.target,
                             !.blended = r.blended, !.end = r.end]
          /\ r.end = row[s].end
          /\ \/ r.st = row[s].st
             \/ r.st = "conditioning" /\ (~tangled' => row[s].st \in Live)
      BY <2>2, <3>1 DEF Rows
    <3>3. Amends(s, r)
      BY <2>2, <3>2 DEF Amends
    <3> QED  BY <2>3, <3>3, <1>1 DEF Good
  <2>5. CASE ~Exists(s)
    BY <2>2, <2>5, QuietRows DEF Set, Good
  <2> QED  BY <2>4, <2>5
<1>7. ASSUME NEW u \in Users, StartEnd(u)  PROVE Good
  <2>1. PICK s : s = op[u].s
    OBVIOUS
  <2>2. s \in Sessions /\ row[s].st = "pending"
    BY <1>7, <2>1, OpKinds, Names DEF StartEnd, Does, LedgerInv, OpsOK, Follows
  <2>3. PICK r : /\ Set(s, r)
                 /\ \/ \E b : r = [row[s] EXCEPT !.st = "active", !.base = b]
                    \/ r = [row[s] EXCEPT !.st = "cancelled"]
    BY <1>7, <2>1 DEF StartEnd
  <2>4. row[s] \in Rows
    BY <2>2, ExistingRow
  <2>5. r = [row[s] EXCEPT !.st = r.st, !.base = r.base, !.target = r.target,
                           !.blended = r.blended, !.end = r.end] /\ r.end = row[s].end
    BY <2>3, <2>4 DEF Rows
  <2>6. Amends(s, r)
    BY <2>2, <2>3, <2>5 DEF Amends
  <2> QED  BY <2>2, <2>6, <1>1
<1> QED  BY <1>2, <1>3, <1>4, <1>5, <1>6, <1>7 DEF RowWriter, Good

LEMMA QuietOps ==
    ASSUME LedgerInv, Next,
           ~CancelWrite, ~CancelCompare, ~CancelAdvance, ~Restart,
           \A p \in Procs : ~StopWrite(p) /\ ~StopVehicle(p) /\ ~StopCount(p),
           \A u \in Users : ~DeleteRemove(u) /\ ~DeleteDecrement(u)
                            /\ \A s \in Sessions : ~DeleteRead(u, s)
    PROVE  OpsQuiet
<1>1. CASE UNCHANGED op
  BY <1>1 DEF OpsQuiet
<1>2. ASSUME NEW p \in Procs, NEW o, Turn(p, o), ~Begun(p),
             o.pc \in {"idle", "save", "start", "confirm", "undo", "write", "cancel", "check",
                       "blend", "condition"}
      PROVE  OpsQuiet
  BY <1>2, QuietTurn
<1>3. CASE Draw \/ ProcessSOC
  BY <1>1, <1>3 DEF Draw, ProcessSOC
<1>4. CASE Sensor \/ SensorSave
  <2>1. ~Begun("inbound")
    BY <1>4 DEF Sensor, SensorSave, Does, Begun
  <2>2. \/ UNCHANGED op \/ Turn("inbound", [pc |-> "save", e |-> cache'])
        \/ Turn("inbound", Idle)
    BY <1>4 DEF Sensor, SensorSave
  <2>3. PICK o : o = [pc |-> "save", e |-> cache']
    OBVIOUS
  <2> QED  BY <2>1, <2>2, <2>3, <1>1, <1>2, Names DEF Idle
<1>5. ASSUME NEW s \in Sessions, NEW target \in Percents,
             PollActivate(s) \/ PollSave(s) \/ Retarget(s, target)
      PROVE  OpsQuiet
  BY <1>1, <1>5 DEF PollActivate, PollSave, Retarget
<1>6. ASSUME NEW current \in Percents, NEW target \in Percents, EditPercents(current, target)
      PROVE  OpsQuiet
  BY <1>1, <1>6 DEF EditPercents
<1>7. ASSUME NEW s \in Sessions, CancelRead(s)  PROVE OpsQuiet
  <2>1. PICK o : o = [pc |-> "cancel", s |-> s, end |-> CancelPercent(row[s], cache)]
    OBVIOUS
  <2>2. Turn("lwt", o) /\ o.pc = "cancel" /\ ~Begun("lwt")
    BY <1>7, <2>1 DEF CancelRead, Does, Begun
  <2> QED  BY <2>2, <1>2, Names
<1>8. ASSUME NEW s \in Sessions, Checker(s)  PROVE OpsQuiet
  <2>1. op["checker"].pc \in {"idle", "check", "blend", "condition"}
    BY <1>8 DEF Checker, CheckerList, CheckerSkip, CheckerBackfill, CheckerProgress, CheckerBlend,
                CheckerCondition, CheckerTaper, CheckerIdle, Does
  <2>2. ~Begun("checker")
    BY <2>1 DEF Begun
  <2>3. PICK o : /\ Turn("checker", o)
                 /\ o.pc \in {"idle", "write", "check", "blend", "condition"}
    <3>1. CASE CheckerList(s)
      BY <3>1 DEF CheckerList
    <3>2. CASE CheckerSkip \/ CheckerBackfill \/ CheckerCondition
      BY <3>2 DEF CheckerSkip, CheckerBackfill, CheckerCondition, Idle
    <3>3. CASE CheckerProgress
      BY <3>3 DEF CheckerProgress
    <3>4. CASE CheckerBlend
      <4>1. [op["checker"] EXCEPT !.pc = "condition"].pc = "condition"
        <5>1. op["checker"] \in [pc : {"blend", "condition"}, s : Sessions, row : Snapshots,
                                 progress : Progress]
          BY <3>4, OpKinds, Names DEF CheckerBlend, Does
        <5> QED  BY <5>1
      <4>2. PICK x : /\ Turn("checker", x)
                     /\ \/ x = Idle \/ x = [op["checker"] EXCEPT !.pc = "condition"]
                        \/ \E t, r, n : x = StopOf(t, r, n)
        BY <3>4 DEF CheckerBlend
      <4>3. x.pc \in {"idle", "write", "condition"}
        <5>1. CASE x = [op["checker"] EXCEPT !.pc = "condition"]
          BY <4>1, <5>1
        <5>2. \A t, r, n : StopOf(t, r, n).pc = "write"
          BY DEF StopOf
        <5> HIDE DEF StopOf
        <5> QED  BY <4>2, <5>1, <5>2 DEF Idle
      <4> QED  BY <4>2, <4>3
    <3>5. CASE CheckerTaper
      BY <3>5 DEF CheckerTaper, StopOf, Idle
    <3>6. CASE CheckerIdle
      BY <3>6 DEF CheckerIdle, StopOf
    <3> QED  BY <1>8, <3>1, <3>2, <3>3, <3>4, <3>5, <3>6 DEF Checker
  <2> QED  BY <2>2, <2>3, <1>2, Names
<1>9. ASSUME NEW u \in Users, NEW s \in Sessions,
             StartCreate(u, s) \/ UserCancel(u, s) \/ UserStop(u, s)
      PROVE  OpsQuiet
  <2>1. u \in Procs /\ ~Begun(u)
    BY <1>9, Names DEF StartCreate, UserCancel, UserStop, Does, Begun
  <2>2. \/ \E o : Turn(u, o) /\ o.pc \in {"idle", "undo", "confirm", "write"}
        \/ UNCHANGED op
    <3>2. CASE StartCreate(u, s)
      BY <3>2 DEF StartCreate, Idle
    <3>3. CASE UserCancel(u, s)
      BY <3>3 DEF UserCancel
    <3>4. CASE UserStop(u, s)
      BY <3>4 DEF UserStop, StopOf
    <3> QED  BY <1>9, <3>2, <3>3, <3>4
  <2> QED  BY <2>1, <2>2, <1>1, <1>2
<1>10. ASSUME NEW u \in Users, StartCapture(u) \/ StartEnd(u) \/ CancelPending(u)  PROVE OpsQuiet
  <2>1. u \in Procs /\ ~Begun(u)
    BY <1>10, Names DEF StartCapture, StartEnd, CancelPending, Does, Begun
  <2>2. \E o : Turn(u, o) /\ o.pc \in {"idle", "start"}
    <3>1. CASE StartCapture(u)
      BY <3>1 DEF StartCapture
    <3>2. CASE StartEnd(u)
      BY <3>2 DEF StartEnd, Idle
    <3>3. CASE CancelPending(u)
      BY <3>3 DEF CancelPending, Idle
    <3> QED  BY <1>10, <3>1, <3>2, <3>3
  <2> QED  BY <2>1, <2>2, <1>2
<1>11. ASSUME NEW s \in Sessions, PollActivate(s) \/ PollSave(s)
       PROVE  OpsQuiet
  BY <1>1, <1>11 DEF PollActivate, PollSave
<1> QED
  BY <1>3, <1>4, <1>5, <1>6, <1>7, <1>8, <1>9, <1>10, <1>11 DEF Next, Stop

LEMMA QuietSteps ==
    ASSUME LedgerInv, Next
    PROVE  \/ QuietStep
           \/ CancelWrite \/ CancelCompare \/ CancelAdvance \/ Restart
           \/ \E p \in Procs : StopWrite(p) \/ StopVehicle(p) \/ StopCount(p)
           \/ \E u \in Users : DeleteRemove(u) \/ DeleteDecrement(u)
           \/ \E u \in Users, s \in Sessions : DeleteRead(u, s)
           \/ \E current, target \in Percents : EditPercents(current, target)
<1> SUFFICES ASSUME ~CancelWrite, ~CancelCompare, ~CancelAdvance, ~Restart,
                    \A p \in Procs : ~StopWrite(p) /\ ~StopVehicle(p) /\ ~StopCount(p),
                    \A u \in Users : ~DeleteRemove(u) /\ ~DeleteDecrement(u)
                                     /\ \A s \in Sessions : ~DeleteRead(u, s),
                    \A current, target \in Percents : ~EditPercents(current, target)
             PROVE  QuietStep
  OBVIOUS
<1>1. OpsQuiet
  BY QuietOps
<1>2. EndsStay /\ (BooksOK /\ ~tangled' => RowsQuiet)
  BY RowCases, QuietRows, QuietWriters
<1>3. UNCHANGED vehicle
  BY VehicleCases
<1>4. UNCHANGED kept
  <2>1. RowWriter => UNCHANGED kept
    BY DEF RowWriter, PollActivate, CancelPending, Retarget, StartCreate, ProcessSOC,
           CheckerBackfill, CheckerBlend, CheckerCondition, StartEnd, DeleteRemove, history
  <2>2. CASE Draw \/ Sensor \/ SensorSave
    BY <2>2 DEF Draw, Sensor, SensorSave, history
  <2>3. ASSUME NEW s \in Sessions,
               PollSave(s) \/ CancelRead(s) \/ CheckerList(s) \/ CheckerSkip \/ CheckerProgress
                 \/ CheckerTaper \/ CheckerIdle
        PROVE  UNCHANGED kept
    BY <2>3
    DEF PollSave, CancelRead, CheckerList, CheckerSkip, CheckerProgress, CheckerTaper, CheckerIdle,
        history
  <2>4. ASSUME NEW s \in Sessions, NEW u \in Users, UserStop(u, s) \/ UserCancel(u, s)
        PROVE  UNCHANGED kept
    BY <2>4 DEF UserStop, UserCancel, history
  <2>5. ASSUME NEW u \in Users, StartCapture(u)  PROVE UNCHANGED kept
    BY <2>5 DEF StartCapture, history
  <2> QED  BY <2>1, <2>2, <2>3, <2>4, <2>5 DEF Next, Stop, Checker, RowWriter
<1> QED  BY <1>1, <1>2, <1>3, <1>4 DEF QuietStep

\* Once tangled, for ever.
LEMMA TangledStays == ASSUME Next, ~tangled'  PROVE ~tangled
<1>1. RowWriter => ~tangled
  BY DEF RowWriter, PollActivate, CancelPending, Retarget, StartCreate, ProcessSOC, CancelWrite,
         CheckerBackfill, CheckerBlend, CheckerCondition, StopWrite, StartEnd, DeleteRemove,
         Entangle, history
<1>2. CASE Draw \/ Sensor \/ SensorSave \/ Restart \/ CancelCompare \/ CancelAdvance
  BY <1>2 DEF Draw, Sensor, SensorSave, Restart, CancelCompare, CancelAdvance, Entangle, history
<1>3. ASSUME NEW p \in Procs, StopVehicle(p) \/ StopCount(p)  PROVE ~tangled
  BY <1>3 DEF StopVehicle, StopCount, history
<1>4. ASSUME NEW s \in Sessions,
             PollSave(s) \/ CancelRead(s) \/ CheckerList(s) \/ CheckerSkip \/ CheckerProgress
               \/ CheckerTaper \/ CheckerIdle
      PROVE  ~tangled
  BY <1>4
  DEF PollSave, CancelRead, CheckerList, CheckerSkip, CheckerProgress, CheckerTaper, CheckerIdle,
      history
<1>5. ASSUME NEW s \in Sessions, NEW u \in Users,
             UserStop(u, s) \/ UserCancel(u, s) \/ DeleteRead(u, s)
      PROVE  ~tangled
  BY <1>5 DEF UserStop, UserCancel, DeleteRead, Entangle, history
<1>6. ASSUME NEW u \in Users, StartCapture(u) \/ DeleteDecrement(u)  PROVE ~tangled
  BY <1>6 DEF StartCapture, DeleteDecrement, history
<1>7. ASSUME NEW current \in Percents, NEW target \in Percents, EditPercents(current, target)
      PROVE  ~tangled
  BY <1>7 DEF EditPercents
<1> QED
  BY <1>1, <1>2, <1>3, <1>4, <1>5, <1>6, <1>7 DEF Next, Stop, Checker, RowWriter

----------------------------------------------------------------------------
(* Who has begun on a session is alone with its books.                     *)

LEMMA BooksKeep ==
    ASSUME BooksOK,
           \A p \in Procs : Begun(p)' =>
               /\ Begun(p) /\ op'[p].s = op[p].s
               /\ Deals(p)' => Deals(p) /\ op'[p].battery = op[p].battery
               /\ op'[p].pc = "decrement" => op[p].pc = "decrement"
               /\ row'[op[p].s].st \in Gone /\ row'[op[p].s].battery = row[op[p].s].battery,
           \A s \in Sessions : row'[s].st \in InProgress => row'[s].battery = None
    PROVE  BooksOK'
<1>1. \A p \in Procs : Begun(p)' => row'[op'[p].s].st \in Gone
  BY DEF BooksOK
<1>2. \A p, q \in Procs : Begun(p)' /\ Begun(q)' /\ op'[p].s = op'[q].s => p = q
  BY DEF BooksOK
<1>3. \A p \in Procs : Deals(p)' => Begun(p)'
  BY DEF Deals, Begun
<1>4. \A p \in Procs : Deals(p)' => row'[op'[p].s].battery = op'[p].battery
  <2>1. ASSUME NEW p \in Procs, Deals(p)'  PROVE row'[op'[p].s].battery = op'[p].battery
    <3>1. Begun(p)' /\ Deals(p) /\ op'[p].battery = op[p].battery /\ op'[p].s = op[p].s
          /\ row'[op[p].s].battery = row[op[p].s].battery
      BY <2>1, <1>3
    <3> QED  BY <3>1 DEF BooksOK
  <2> QED  BY <2>1
<1>5. \A p \in Procs : op'[p].pc = "decrement" => op'[p].battery # None
  <2>1. ASSUME NEW p \in Procs, op'[p].pc = "decrement"  PROVE op'[p].battery # None
    <3>1. Begun(p)' /\ Deals(p)'
      BY <2>1 DEF Begun, Deals
    <3>2. op[p].pc = "decrement" /\ op'[p].battery = op[p].battery
      BY <2>1, <3>1
    <3> QED  BY <3>2 DEF BooksOK
  <2> QED  BY <2>1
<1> QED  BY <1>1, <1>2, <1>4, <1>5 DEF BooksOK

LEMMA BooksBegin ==
    ASSUME LedgerInv, BooksOK, NEW p \in Procs, NEW o, Turn(p, o), ~Begun(p), o.s \in Sessions,
           ~Others(p, o.s),
           \A s \in Sessions \ {o.s} : row'[s] = row[s],
           row'[o.s].st \in Gone,
           o.pc \in {"off", "count", "decrement", "remove"} => row'[o.s].battery = o.battery,
           o.pc = "decrement" => o.battery # None
    PROVE  BooksOK'
<1>1. op'[p] = o /\ \A q \in Procs \ {p} : op'[q] = op[q]
  BY DEF Turn, LedgerInv, LedgerTypes
<1>2. \A q \in Procs : Begun(q) => op[q].s \in Sessions
  BY OpKinds DEF Begun, Stops
<1>3. \A q \in Procs \ {p} : Begun(q) => op[q].s # o.s
  BY DEF Others, BooksOf, Begun
<1>4. \A q \in Procs \ {p} : Begun(q) => row'[op[q].s] = row[op[q].s]
  BY <1>2, <1>3
<1>5. \A s \in Sessions : row'[s].st \in InProgress => row'[s].battery = None
  BY DEF BooksOK, Gone, InProgress, Live
<1>6. \A q \in Procs \ {p} : (Begun(q)' <=> Begun(q)) /\ (Deals(q)' <=> Deals(q))
                             /\ (Deals(q) => Begun(q))
  BY <1>1 DEF Begun, Deals
<1>7. \A q \in Procs : Begun(q)' => row'[op'[q].s].st \in Gone
  BY <1>1, <1>4, <1>6 DEF BooksOK
<1>8. \A q, q2 \in Procs : Begun(q)' /\ Begun(q2)' /\ op'[q].s = op'[q2].s => q = q2
  <2>1. ASSUME NEW q \in Procs \ {p}, Begun(q)'  PROVE op'[q].s # op'[p].s
    BY <2>1, <1>1, <1>3, <1>6
  <2>2. ASSUME NEW q \in Procs \ {p}, NEW q2 \in Procs \ {p},
               Begun(q)', Begun(q2)', op'[q].s = op'[q2].s
        PROVE  q = q2
    BY <2>2, <1>1, <1>6 DEF BooksOK
  <2> QED  BY <2>1, <2>2
<1>9. \A q \in Procs : Deals(q)' => row'[op'[q].s].battery = op'[q].battery
  <2>1. Deals(p)' => row'[op'[p].s].battery = op'[p].battery
    BY <1>1 DEF Deals
  <2>2. ASSUME NEW q \in Procs \ {p}, Deals(q)'  PROVE row'[op'[q].s].battery = op'[q].battery
    BY <2>2, <1>1, <1>4, <1>6 DEF BooksOK
  <2> QED  BY <2>1, <2>2
<1>10. \A q \in Procs : op'[q].pc = "decrement" => op'[q].battery # None
  BY <1>1 DEF BooksOK
<1> QED  BY <1>5, <1>7, <1>8, <1>9, <1>10 DEF BooksOK

\* The sums stay with the sessions that are in them.
LEMMA SumsKeep ==
    ASSUME SumsOK, Counting' = Counting, IsFiniteSet(Counted)',
           \A s \in Counting : row'[s].battery = row[s].battery,
           vehicle'.sessions = vehicle.sessions, vehicle'.battery = vehicle.battery
    PROVE  SumsOK'
<1>1. PICK C : C = Counting
  OBVIOUS
<1>2. Delivered(C)' = Delivered(C)
  BY <1>1 DEF Delivered
<1>3. Delivered(Counting)' = Delivered(Counting)
  <2>1. Delivered(Counting)' = Delivered(C)'
    BY <1>1 DEF Delivered
  <2> QED  BY <1>1, <1>2, <2>1
<1>4. Counting' = Counting /\ Delivered(Counting)' = Delivered(Counting)
  BY <1>3
<1> QED  BY <1>4 DEF SumsOK

\* A session is counted by the one who has begun on it.
LEMMA CountingAre ==
    ASSUME BooksOK, NEW p \in Procs, Begun(p), NEW s, s = op[p].s
    PROVE  /\ s \in Counting => s \in Counted /\ ~Owes(p, s) /\ ~Undoes(p, s)
           /\ s \in Counted /\ ~Owes(p, s) /\ ~Undoes(p, s) => s \in Counting
<1>1. \A q \in Procs : Owes(q, s) \/ Undoes(q, s) => q = p
  BY DEF Owes, Undoes, BooksOK, Begun
<1> QED  BY <1>1 DEF Counting

LEMMA SumsQuiet ==
    ASSUME BooksOK, SumsOK, OpsQuiet, RowsQuiet,
           vehicle'.sessions = vehicle.sessions, vehicle'.battery = vehicle.battery,
           \A p \in Procs : Begun(p) => op[p].s \in Sessions
    PROVE  BooksOK' /\ SumsOK'
<1>1. ASSUME NEW p \in Procs, Begun(p)'
      PROVE  /\ Begun(p) /\ op'[p].s = op[p].s
             /\ Deals(p)' => Deals(p) /\ op'[p].battery = op[p].battery
             /\ op'[p].pc = "decrement" => op[p].pc = "decrement"
             /\ row'[op[p].s].st \in Gone /\ row'[op[p].s].battery = row[op[p].s].battery
  <2>1. op'[p] = op[p]
    BY <1>1 DEF OpsQuiet
  <2>2. Begun(p)
    BY <1>1, <2>1 DEF Begun
  <2>3. row[op[p].s].st \in Gone /\ op[p].s \in Sessions
    BY <2>2 DEF BooksOK
  <2> QED  BY <2>1, <2>2, <2>3 DEF RowsQuiet, Deals
<1>2. BooksOK'
  BY <1>1, BooksKeep DEF RowsQuiet
<1>3. Counted' = Counted
  BY DEF Counted, RowsQuiet
<1>4. \A p \in Procs, s \in Sessions : (Owes(p, s)' <=> Owes(p, s)) /\ (Undoes(p, s)' <=> Undoes(p, s))
  BY DEF OpsQuiet, Owes, Undoes, Begun
<1>5. Counting' = Counting
  BY <1>3, <1>4 DEF Counting, Counted
<1>6. \A s \in Counting : row'[s].battery = row[s].battery
  BY DEF Counting, Counted, RowsQuiet
<1>7. IsFiniteSet(Counted)'
  BY <1>3 DEF SumsOK
<1> QED  BY <1>2, <1>5, <1>6, <1>7, SumsKeep

----------------------------------------------------------------------------
LEMMA StopSums ==
    ASSUME LedgerInv, BooksOK, SumsOK, NEW p \in Procs, StopWrite(p), ~tangled'
    PROVE  BooksOK' /\ SumsOK'
<1> USE EnergyTypes
<1>1. PICK o, s : o = op[p] /\ s = o.s
  OBVIOUS
<1>2. o \in Stops /\ o.pc = "write" /\ s \in Sessions
  BY <1>1, OpKinds DEF StopWrite, Does, Stops
<1>3. row[s].st \in Live /\ ~Others(p, s)
  BY <1>1 DEF StopWrite, Entangle
<1>4. Exists(s) /\ row[s] \in Rows
  BY <1>2, <1>3, ExistingRow DEF Live
<1>5. PICK r : r = [row[s] EXCEPT !.st = "completed", !.end = o.end, !.battery = o.battery]
  OBVIOUS
<1>6. PICK n : n = [o EXCEPT !.pc = "off"]
  OBVIOUS
<1>7. Set(s, r) /\ Turn(p, n) /\ UNCHANGED vehicle
  BY <1>1, <1>5, <1>6 DEF StopWrite
<1>8. r.st = "completed" /\ r.battery = o.battery /\ o.battery \in 0 .. Capacity
  BY <1>2, <1>4, <1>5 DEF Rows, Stops
<1>9. n.pc = "off" /\ n.s = s /\ n.battery = o.battery
  BY <1>1, <1>2, <1>6 DEF Stops
<1>10. row'[s] = r /\ \A t \in Sessions \ {s} : row'[t] = row[t]
  BY <1>2, <1>4, <1>7 DEF Set, LedgerInv, LedgerTypes
<1>11. op'[p] = n /\ \A q \in Procs \ {p} : op'[q] = op[q]
  BY <1>7 DEF Turn, LedgerInv, LedgerTypes
<1>12. BooksOK'
  <2>1. ~Begun(p)
    BY <1>1, <1>2 DEF Begun
  <2> QED  BY <1>2, <1>3, <1>7, <1>8, <1>9, <1>10, <2>1, BooksBegin DEF Gone
<1>13. s \notin Counted
  BY <1>3 DEF BooksOK, Counted, InProgress
<1>14. Counted' = Counted \cup {s}
  BY <1>2, <1>8, <1>10 DEF Counted, None
<1>15. Counting' = Counting
  <2>1. \A q \in Procs, t \in Sessions \ {s} :
            (Owes(q, t)' <=> Owes(q, t)) /\ (Undoes(q, t)' <=> Undoes(q, t))
    BY <1>1, <1>2, <1>9, <1>11 DEF Owes, Undoes
  <2>2. Owes(p, s)'
    BY <1>9, <1>11 DEF Owes
  <2>3. s \notin Counting /\ s \notin Counting'
    BY <1>13, <2>2 DEF Counting
  <2>4. \A t \in Sessions \ {s} : t \in Counting' <=> t \in Counting
    BY <1>13, <1>14, <2>1 DEF Counting
  <2>5. Counting \subseteq Sessions /\ Counting' \subseteq Sessions
    BY DEF Counting, Counted
  <2> QED  BY <2>3, <2>4, <2>5
<1>16. IsFiniteSet(Counted)'
  BY <1>14, FS_AddElement DEF SumsOK
<1>17. \A t \in Counting : row'[t].battery = row[t].battery
  BY <1>10, <1>13 DEF Counting, Counted
<1> QED  BY <1>7, <1>12, <1>15, <1>16, <1>17, SumsKeep

LEMMA CancelSums ==
    ASSUME LedgerInv, BooksOK, SumsOK, CancelWrite, ~tangled'
    PROVE  BooksOK' /\ SumsOK'
<1>1. PICK o, s : o = op["lwt"] /\ s = o.s
  OBVIOUS
<1>2. o \in [pc : {"cancel", "advance"}, s : Sessions, end : None .. Capacity]
      /\ o.pc = "cancel" /\ s \in Sessions
  BY <1>1, OpKinds, Names DEF CancelWrite, Does
<1>3. row[s].st \in Live /\ ~Others("lwt", s)
  BY <1>1 DEF CancelWrite, Entangle
<1>4. Exists(s) /\ row[s] \in Rows
  BY <1>2, <1>3, ExistingRow DEF Live
<1>5. PICK r : r = [row[s] EXCEPT !.st = "cancelled", !.end = o.end]
  OBVIOUS
<1>6. PICK n : n = [o EXCEPT !.pc = "advance"]
  OBVIOUS
<1>7. Set(s, r) /\ Turn("lwt", n) /\ UNCHANGED vehicle
  BY <1>1, <1>5, <1>6 DEF CancelWrite
<1>8. r.st = "cancelled" /\ r.battery = row[s].battery
  BY <1>4, <1>5 DEF Rows
<1>9. n.pc = "advance" /\ n.s = s
  BY <1>1, <1>2, <1>6
<1>10. row'[s] = r /\ \A t \in Sessions \ {s} : row'[t] = row[t]
  BY <1>2, <1>4, <1>7 DEF Set, LedgerInv, LedgerTypes
<1>11. op'["lwt"] = n /\ \A q \in Procs \ {"lwt"} : op'[q] = op[q]
  BY <1>7, Names DEF Turn, LedgerInv, LedgerTypes
<1>12. BooksOK'
  <2>1. ~Begun("lwt") /\ "lwt" \in Procs
    BY <1>1, <1>2, Names DEF Begun
  <2> QED  BY <1>2, <1>3, <1>7, <1>8, <1>9, <1>10, <2>1, BooksBegin DEF Gone
<1>13. Counted' = Counted
  BY <1>8, <1>10 DEF Counted
<1>14. Counting' = Counting
  <2>1. \A q \in Procs, t \in Sessions :
            (Owes(q, t)' <=> Owes(q, t)) /\ (Undoes(q, t)' <=> Undoes(q, t))
    BY <1>1, <1>2, <1>9, <1>11 DEF Owes, Undoes
  <2> QED  BY <1>13, <2>1 DEF Counting, Counted
<1>15. IsFiniteSet(Counted)'
  BY <1>13 DEF SumsOK
<1>16. \A t \in Counting : row'[t].battery = row[t].battery
  BY <1>8, <1>10 DEF Counting, Counted
<1> QED  BY <1>7, <1>12, <1>14, <1>15, <1>16, SumsKeep

LEMMA DeleteReadSums ==
    ASSUME LedgerInv, BooksOK, SumsOK, NEW u \in Users, NEW s \in Sessions, DeleteRead(u, s),
           ~tangled'
    PROVE  BooksOK' /\ SumsOK'
<1>1. PICK n : n = [pc |-> IF row[s].battery = None THEN "remove" ELSE "decrement",
                    s |-> s, battery |-> row[s].battery]
  OBVIOUS
<1>2. /\ Turn(u, n) /\ UNCHANGED <<row, vehicle>> /\ row[s].st \in Gone /\ ~Others(u, s)
      /\ op[u].pc = "idle" /\ u \in Procs
  BY <1>1, Names DEF DeleteRead, Entangle, Does
<1>3. /\ n.s = s /\ n.battery = row[s].battery
      /\ row[s].battery = None => n.pc = "remove"
      /\ row[s].battery # None => n.pc = "decrement"
  BY <1>1
<1>4. op'[u] = n /\ \A q \in Procs \ {u} : op'[q] = op[q]
  BY <1>2 DEF Turn, LedgerInv, LedgerTypes
<1>5. BooksOK'
  <2>1. ~Begun(u)
    BY <1>2 DEF Begun
  <2> QED  BY <1>2, <1>3, <2>1, BooksBegin
<1>6. Counted' = Counted
  BY <1>2 DEF Counted
<1>7. Counting' = Counting
  <2>1. \A q \in Procs, t \in Counted :
            (Owes(q, t)' <=> Owes(q, t)) /\ (Undoes(q, t)' <=> Undoes(q, t))
    BY <1>2, <1>3, <1>4 DEF Owes, Undoes, Counted
  <2> QED  BY <1>6, <2>1 DEF Counting
<1>8. IsFiniteSet(Counted)'
  BY <1>6 DEF SumsOK
<1> QED  BY <1>2, <1>5, <1>7, <1>8, SumsKeep

\* A step of p on the session whose books it keeps.
LEMMA BooksTurn ==
    ASSUME LedgerInv, BooksOK, NEW p \in Procs, NEW o, Turn(p, o), Begun(p),
           o.pc \in {"count", "remove"} =>
               o.s = op[p].s /\ o.battery = op[p].battery /\ Deals(p),
           o.pc \in {"idle", "count", "remove", "set"}, o.pc = "set" => o.s = op[p].s,
           \A s \in Sessions : row'[s] = row[s] \/ (s = op[p].s /\ row'[s] = Deleted
                                                    /\ o.pc = "idle")
    PROVE  BooksOK'
<1>1. op'[p] = o /\ \A q \in Procs \ {p} : op'[q] = op[q]
  BY DEF Turn, LedgerInv, LedgerTypes
<1>2. \A q \in Procs : Begun(q) => op[q].s \in Sessions
  BY OpKinds DEF Begun, Stops
<1>3. ASSUME NEW q \in Procs, Begun(q)'
      PROVE  /\ Begun(q) /\ op'[q].s = op[q].s
             /\ Deals(q)' => Deals(q) /\ op'[q].battery = op[q].battery
             /\ op'[q].pc = "decrement" => op[q].pc = "decrement"
             /\ row'[op[q].s].st \in Gone /\ row'[op[q].s].battery = row[op[q].s].battery
  <2>1. CASE q = p
    <3>1. o.pc \in {"count", "remove", "set"} /\ op'[p] = o
      BY <1>1, <1>3, <2>1 DEF Begun
    <3>2. row'[op[p].s] = row[op[p].s] /\ row[op[p].s].st \in Gone
      BY <1>2, <3>1 DEF BooksOK
    <3>3. o.s = op[p].s /\ o.pc # "decrement"
      BY <3>1
    <3>4. Deals(p)' => Deals(p) /\ o.battery = op[p].battery
      BY <3>1 DEF Deals
    <3> QED  BY <2>1, <3>1, <3>2, <3>3, <3>4
  <2>2. CASE q # p
    <3>1. op'[q] = op[q] /\ Begun(q)
      BY <1>1, <1>3, <2>2 DEF Begun
    <3>2. op[q].s # op[p].s
      BY <2>2, <3>1 DEF BooksOK
    <3>3. row'[op[q].s] = row[op[q].s] /\ row[op[q].s].st \in Gone
      BY <1>2, <3>1, <3>2 DEF BooksOK
    <3> QED  BY <3>1, <3>3 DEF Deals
  <2> QED  BY <2>1, <2>2
<1>4. \A s \in Sessions : row'[s].st \in InProgress => row'[s].battery = None
  BY DEF BooksOK, Deleted
<1> QED  BY <1>3, <1>4, BooksKeep

LEMMA StopCountSums ==
    ASSUME LedgerInv, BooksOK, SumsOK, NEW p \in Procs, StopCount(p)
    PROVE  BooksOK' /\ SumsOK'
<1> USE EnergyTypes
<1>1. PICK o, s : o = op[p] /\ s = o.s
  OBVIOUS
<1>2. o \in Stops /\ o.pc = "count" /\ s \in Sessions /\ o.battery \in 0 .. Capacity
  BY <1>1, OpKinds DEF StopCount, Does, Stops
<1>3. /\ Turn(p, Idle) /\ UNCHANGED row
      /\ vehicle' = [vehicle EXCEPT !.sessions = @ + 1, !.battery = @ + o.battery]
  BY <1>1 DEF StopCount
<1>4. op'[p] = Idle /\ \A q \in Procs \ {p} : op'[q] = op[q]
  BY <1>3 DEF Turn, LedgerInv, LedgerTypes
<1>5. Begun(p) /\ Owes(p, s) /\ row[s].battery = o.battery /\ row[s].battery \in 0 .. Capacity
  BY <1>1, <1>2 DEF Begun, Deals, Owes, BooksOK
<1>6. BooksOK'
  BY <1>3, <1>5, BooksTurn DEF Idle
<1>7. s \in Counted /\ s \notin Counting
  BY <1>2, <1>5 DEF Counted, Counting, None
<1>8. Counted' = Counted
  BY <1>3 DEF Counted
<1>9. Counting' = Counting \cup {s}
  <2>1. \A q \in Procs : ~Owes(q, s)' /\ ~Undoes(q, s)'
    <3>1. \A q \in Procs \ {p} : ~Owes(q, s) /\ ~Undoes(q, s)
      BY <1>1, <1>5 DEF BooksOK, Begun, Owes, Undoes
    <3> QED  BY <1>4, <3>1 DEF Owes, Undoes, Idle
  <2>2. \A q \in Procs, t \in Sessions \ {s} :
            (Owes(q, t)' <=> Owes(q, t)) /\ (Undoes(q, t)' <=> Undoes(q, t))
    BY <1>1, <1>2, <1>4 DEF Owes, Undoes, Idle
  <2>3. s \in Counting'
    BY <1>7, <1>8, <2>1 DEF Counting
  <2>4. \A t \in Sessions \ {s} : t \in Counting' <=> t \in Counting
    BY <1>8, <2>2 DEF Counting
  <2>5. Counting \subseteq Sessions /\ Counting' \subseteq Sessions
    BY DEF Counting, Counted
  <2> QED  BY <1>2, <2>3, <2>4, <2>5
<1>10. PICK C : C = Counting
  OBVIOUS
<1>11. IsFiniteSet(C) /\ s \notin C
  BY <1>7, <1>10, FS_Subset DEF SumsOK, Counting
<1>12. Cardinality(C \cup {s}) = Cardinality(C) + 1
  BY <1>11, FS_AddElement
<1>13. Cardinality(Delivered(C \cup {s})) = Cardinality(Delivered(C)) + o.battery
       /\ Cardinality(Delivered(C)) \in Nat
  BY <1>5, <1>11, DeliveredAdds
<1>14. Delivered(Counting)' = Delivered(C \cup {s})
  BY <1>3, <1>9, <1>10 DEF Delivered
<1>15. /\ vehicle'.sessions = vehicle.sessions + 1
       /\ vehicle'.battery = vehicle.battery + o.battery
       /\ vehicle.sessions = Prior.sessions + Cardinality(C)
       /\ vehicle.battery = Prior.battery + Cardinality(Delivered(C))
  BY <1>3, <1>10 DEF SumsOK, LedgerInv, LedgerTypes
<1>16. Cardinality(C) \in Nat /\ Prior.sessions \in Nat /\ Prior.battery \in Nat
  BY <1>11, FS_CardinalityType, LedgerAssumption
<1>17. vehicle'.sessions = Prior.sessions + Cardinality(C \cup {s})
       /\ vehicle'.battery = Prior.battery + Cardinality(Delivered(C \cup {s}))
  <2> DEFINE n == Cardinality(C)
             m == Cardinality(Delivered(C))
  <2>1. n \in Nat /\ m \in Nat /\ o.battery \in Int
    BY <1>2, <1>13, <1>16
  <2>2. /\ Cardinality(C \cup {s}) = n + 1 /\ Cardinality(Delivered(C \cup {s})) = m + o.battery
        /\ vehicle'.sessions = (Prior.sessions + n) + 1
        /\ vehicle'.battery = (Prior.battery + m) + o.battery
    BY <1>12, <1>13, <1>15
  <2> HIDE DEF n, m
  <2> QED  BY <1>16, <2>1, <2>2
<1>18. IsFiniteSet(Counted)'
  BY <1>8 DEF SumsOK
<1>19. Counting' = C \cup {s}
  BY <1>9, <1>10
<1> QED  BY <1>6, <1>14, <1>17, <1>18, <1>19 DEF SumsOK

LEMMA DecrementSums ==
    ASSUME LedgerInv, BooksOK, SumsOK, NEW u \in Users, DeleteDecrement(u)
    PROVE  BooksOK' /\ SumsOK'
<1> USE EnergyTypes
<1>1. PICK o, s : o = op[u] /\ s = o.s
  OBVIOUS
<1>2. PICK n : n = [o EXCEPT !.pc = "remove"]
  OBVIOUS
<1>3. o \in [pc : {"decrement", "remove"}, s : Sessions, battery : None .. Capacity]
      /\ o.pc = "decrement" /\ u \in Procs
  BY <1>1, OpKinds, Names DEF DeleteDecrement, Does
<1>4. /\ Turn(u, n) /\ UNCHANGED row
      /\ vehicle' = [vehicle EXCEPT !.sessions = AtLeast(@ - 1, 0),
                                    !.battery = AtLeast(@ - o.battery, 0)]
  BY <1>1, <1>2 DEF DeleteDecrement
<1>5. n.pc = "remove" /\ n.s = s /\ n.battery = o.battery /\ s \in Sessions
  BY <1>1, <1>2, <1>3
<1>6. op'[u] = n /\ \A q \in Procs \ {u} : op'[q] = op[q]
  BY <1>3, <1>4 DEF Turn, LedgerInv, LedgerTypes
<1>7. Begun(u) /\ Deals(u) /\ o.battery # None /\ row[s].battery = o.battery
      /\ o.battery \in 0 .. Capacity
  BY <1>1, <1>3 DEF Begun, Deals, BooksOK, None
<1>8. BooksOK'
  BY <1>1, <1>3, <1>4, <1>5, <1>7, BooksTurn
<1>9. s \in Counting
  <2>1. s \in Counted /\ ~Owes(u, s) /\ ~Undoes(u, s)
    BY <1>1, <1>3, <1>5, <1>7 DEF Counted, Owes, Undoes
  <2> QED  BY <1>1, <1>3, <1>7, <2>1, CountingAre
<1>10. Counted' = Counted
  BY <1>4 DEF Counted
<1>11. PICK C : C = Counting \ {s}
  OBVIOUS
<1>12. Counting = C \cup {s} /\ s \notin C
  BY <1>9, <1>11
<1>13. Counting' = C
  <2>1. Undoes(u, s)'
    BY <1>5, <1>6 DEF Undoes
  <2>2. \A q \in Procs, t \in Sessions \ {s} :
            (Owes(q, t)' <=> Owes(q, t)) /\ (Undoes(q, t)' <=> Undoes(q, t))
    BY <1>1, <1>3, <1>5, <1>6 DEF Owes, Undoes
  <2>3. s \notin Counting'
    BY <1>3, <2>1 DEF Counting
  <2>4. \A t \in Sessions \ {s} : t \in Counting' <=> t \in Counting
    BY <1>10, <2>2 DEF Counting
  <2>5. Counting \subseteq Sessions /\ Counting' \subseteq Sessions
    BY DEF Counting, Counted
  <2> QED  BY <1>11, <2>3, <2>4, <2>5
<1>14. IsFiniteSet(C)
  BY <1>11, FS_Subset DEF SumsOK, Counting
<1>15. Cardinality(C \cup {s}) = Cardinality(C) + 1
  BY <1>12, <1>14, FS_AddElement
<1>16. Cardinality(Delivered(C \cup {s})) = Cardinality(Delivered(C)) + o.battery
       /\ Cardinality(Delivered(C)) \in Nat
  BY <1>7, <1>12, <1>14, DeliveredAdds
<1>17. Delivered(Counting)' = Delivered(C) /\ Delivered(Counting) = Delivered(C \cup {s})
  BY <1>4, <1>12, <1>13 DEF Delivered
<1>18. /\ vehicle'.sessions = AtLeast(vehicle.sessions - 1, 0)
       /\ vehicle'.battery = AtLeast(vehicle.battery - o.battery, 0)
       /\ vehicle.sessions = Prior.sessions + Cardinality(C \cup {s})
       /\ vehicle.battery = Prior.battery + Cardinality(Delivered(C \cup {s}))
  BY <1>4, <1>12, <1>17 DEF SumsOK, LedgerInv, LedgerTypes
<1>19. Cardinality(C) \in Nat /\ Prior.sessions \in Nat /\ Prior.battery \in Nat
  BY <1>14, FS_CardinalityType, LedgerAssumption
<1>20. vehicle'.sessions = Prior.sessions + Cardinality(C)
       /\ vehicle'.battery = Prior.battery + Cardinality(Delivered(C))
  <2> DEFINE k == Cardinality(C)
             m == Cardinality(Delivered(C))
  <2>1. k \in Nat /\ m \in Nat /\ o.battery \in Nat
    BY <1>7, <1>16, <1>19
  <2>2. /\ vehicle'.sessions = AtLeast((Prior.sessions + (k + 1)) - 1, 0)
        /\ vehicle'.battery = AtLeast((Prior.battery + (m + o.battery)) - o.battery, 0)
    BY <1>15, <1>16, <1>18
  <2> HIDE DEF k, m
  <2>3. vehicle'.sessions = Prior.sessions + k /\ vehicle'.battery = Prior.battery + m
    BY <1>19, <2>1, <2>2 DEF AtLeast
  <2> QED  BY <2>3 DEF k, m
<1>21. IsFiniteSet(Counted)'
  BY <1>10 DEF SumsOK
<1> QED  BY <1>8, <1>13, <1>17, <1>20, <1>21 DEF SumsOK

LEMMA RemoveSums ==
    ASSUME LedgerInv, BooksOK, SumsOK, NEW u \in Users, DeleteRemove(u)
    PROVE  BooksOK' /\ SumsOK'
<1>1. PICK o, s : o = op[u] /\ s = o.s
  OBVIOUS
<1>2. o \in [pc : {"decrement", "remove"}, s : Sessions, battery : None .. Capacity]
      /\ o.pc = "remove" /\ u \in Procs /\ s \in Sessions
  BY <1>1, OpKinds, Names DEF DeleteRemove, Does
<1>3. Turn(u, Idle) /\ row' = [row EXCEPT ![s] = Deleted] /\ UNCHANGED vehicle
  BY <1>1 DEF DeleteRemove
<1>4. op'[u] = Idle /\ \A q \in Procs \ {u} : op'[q] = op[q]
  BY <1>2, <1>3 DEF Turn, LedgerInv, LedgerTypes
<1>5. row'[s] = Deleted /\ \A t \in Sessions \ {s} : row'[t] = row[t]
  BY <1>2, <1>3 DEF LedgerInv, LedgerTypes
<1>6. Begun(u) /\ Undoes(u, s)
  BY <1>1, <1>2 DEF Begun, Undoes
<1>7. BooksOK'
  BY <1>1, <1>2, <1>3, <1>5, <1>6, BooksTurn DEF Idle
<1>8. Counted' = Counted \ {s}
  BY <1>2, <1>5 DEF Counted, Deleted
<1>9. Counting' = Counting
  <2>1. \A q \in Procs, t \in Sessions \ {s} :
            (Owes(q, t)' <=> Owes(q, t)) /\ (Undoes(q, t)' <=> Undoes(q, t))
    BY <1>1, <1>4 DEF Owes, Undoes, Idle
  <2>2. s \notin Counting /\ s \notin Counting'
    BY <1>2, <1>6, <1>8 DEF Counting
  <2>3. \A t \in Sessions \ {s} : t \in Counting' <=> t \in Counting
    BY <1>8, <2>1 DEF Counting
  <2>4. Counting \subseteq Sessions /\ Counting' \subseteq Sessions
    BY DEF Counting, Counted
  <2> QED  BY <2>2, <2>3, <2>4
<1>10. IsFiniteSet(Counted)'
  BY <1>8, FS_Subset DEF SumsOK
<1>11. \A t \in Counting : row'[t].battery = row[t].battery
  BY <1>2, <1>5, <1>6 DEF Counting, Counted
<1> QED  BY <1>3, <1>7, <1>9, <1>10, <1>11, SumsKeep

LEMMA SumsStep == LedgerInv /\ SumsInv /\ [Next]_vars => SumsInv'
<1> SUFFICES ASSUME LedgerInv, SumsInv, [Next]_vars, ~tangled'  PROVE BooksOK' /\ SumsOK'
  BY DEF SumsInv
<1>1. \A p \in Procs : Begun(p) => op[p].s \in Sessions
  BY OpKinds DEF Begun, Stops
<1>2. CASE UNCHANGED vars
  <2>1. ~tangled /\ BooksOK /\ SumsOK
    BY <1>2 DEF vars, history, SumsInv
  <2>2. OpsQuiet /\ RowsQuiet
    BY <1>2, <2>1, QuietRows DEF vars, OpsQuiet
  <2> QED  BY <1>1, <1>2, <2>1, <2>2, SumsQuiet DEF vars
<1>3. CASE Next
  <2> USE <1>3
  <2>1. BooksOK /\ SumsOK
    BY TangledStays DEF SumsInv
  <2>2. CASE QuietStep
    BY <1>1, <2>1, <2>2, SumsQuiet DEF QuietStep
  <2>3. CASE CancelWrite
    BY <2>1, <2>3, CancelSums
  <2>13. CASE CancelCompare
    <3>1. PICK n : /\ Turn("lwt", n)
                   /\ n = Idle \/ n = [pc |-> "set", s |-> op["lwt"].s, end |-> op["lwt"].end,
                                      target |-> vehicle.target]
      BY <2>13 DEF CancelCompare
    <3>2. UNCHANGED <<row, vehicle>> /\ op["lwt"].pc = "advance" /\ "lwt" \in Procs
      BY <2>13, Names DEF CancelCompare, Does
    <3>3. n.pc = "idle" \/ (n.pc = "set" /\ n.s = op["lwt"].s)
      BY <3>1 DEF Idle
    <3>4. op'["lwt"] = n /\ \A q \in Procs \ {"lwt"} : op'[q] = op[q]
      BY <3>1, <3>2 DEF Turn, LedgerInv, LedgerTypes
    <3>5. BooksOK'
      BY <2>1, <3>1, <3>2, <3>3, BooksTurn DEF Begun, Deals
    <3>6. \A q \in Procs, t \in Sessions :
              (Owes(q, t)' <=> Owes(q, t)) /\ (Undoes(q, t)' <=> Undoes(q, t))
      BY <3>2, <3>3, <3>4 DEF Owes, Undoes
    <3>7. Counted' = Counted /\ Counting' = Counting
      BY <3>2, <3>6 DEF Counted, Counting
    <3>8. IsFiniteSet(Counted)'
      BY <2>1, <3>7 DEF SumsOK
    <3> QED  BY <2>1, <3>2, <3>5, <3>7, <3>8, SumsKeep
  <2>4. CASE CancelAdvance
    <3>1. Turn("lwt", Idle) /\ UNCHANGED row /\ op["lwt"].pc = "set" /\ "lwt" \in Procs
      BY <2>4, Names DEF CancelAdvance, Does
    <3>2. BooksOK'
      BY <2>1, <3>1, BooksTurn DEF Begun, Idle
    <3>3. op'["lwt"] = Idle /\ \A q \in Procs \ {"lwt"} : op'[q] = op[q]
      BY <3>1 DEF Turn, LedgerInv, LedgerTypes
    <3>4. Counted' = Counted /\ Counting' = Counting
      BY <3>1, <3>3 DEF Counted, Counting, Owes, Undoes, Idle
    <3>5. vehicle'.sessions = vehicle.sessions /\ vehicle'.battery = vehicle.battery
      BY <2>4 DEF CancelAdvance, LedgerInv, LedgerTypes
    <3>6. IsFiniteSet(Counted)'
      BY <2>1, <3>4 DEF SumsOK
    <3> QED  BY <2>1, <3>1, <3>2, <3>4, <3>5, <3>6, SumsKeep
  <2>5. CASE Restart
    <3>1. \A p \in Procs : op'[p] = Idle /\ ~Begun(p)
      BY <1>1, <2>5 DEF Restart, Entangle, BooksOf, Begun
    <3>2. OpsQuiet
      BY <3>1 DEF OpsQuiet, Begun, Idle
    <3>3. UNCHANGED <<row, vehicle>>
      BY <2>5 DEF Restart
    <3> QED  BY <1>1, <2>1, <3>2, <3>3, QuietRows, SumsQuiet
  <2>6. ASSUME NEW p \in Procs, StopVehicle(p)  PROVE BooksOK' /\ SumsOK'
    <3>1. PICK n : n = [op[p] EXCEPT !.pc = "count"]
      OBVIOUS
    <3>2. Turn(p, n) /\ UNCHANGED row /\ op[p].pc = "off" /\ op[p] \in Stops
      BY <2>6, <3>1, OpKinds DEF StopVehicle, Does
    <3>3. n.pc = "count" /\ n.s = op[p].s /\ n.battery = op[p].battery
      BY <3>1, <3>2 DEF Stops
    <3>4. BooksOK'
      BY <2>1, <3>2, <3>3, BooksTurn DEF Begun, Deals
    <3>5. op'[p] = n /\ \A q \in Procs \ {p} : op'[q] = op[q]
      BY <3>2 DEF Turn, LedgerInv, LedgerTypes
    <3>6. Counted' = Counted
      BY <3>2 DEF Counted
    <3>7. \A q \in Procs, t \in Sessions :
              (Owes(q, t)' <=> Owes(q, t)) /\ (Undoes(q, t)' <=> Undoes(q, t))
      BY <3>2, <3>3, <3>5 DEF Owes, Undoes
    <3>8. Counting' = Counting
      BY <3>6, <3>7 DEF Counting, Counted
    <3>9. vehicle'.sessions = vehicle.sessions /\ vehicle'.battery = vehicle.battery
      BY <2>6 DEF StopVehicle, LedgerInv, LedgerTypes
    <3>10. IsFiniteSet(Counted)'
      BY <2>1, <3>6 DEF SumsOK
    <3> QED  BY <2>1, <3>2, <3>4, <3>8, <3>9, <3>10, SumsKeep
  <2>7. ASSUME NEW p \in Procs, StopWrite(p)  PROVE BooksOK' /\ SumsOK'
    BY <2>1, <2>7, StopSums
  <2>8. ASSUME NEW p \in Procs, StopCount(p)  PROVE BooksOK' /\ SumsOK'
    BY <2>1, <2>8, StopCountSums
  <2>9. ASSUME NEW u \in Users, DeleteRemove(u)  PROVE BooksOK' /\ SumsOK'
    BY <2>1, <2>9, RemoveSums
  <2>10. ASSUME NEW u \in Users, DeleteDecrement(u)  PROVE BooksOK' /\ SumsOK'
    BY <2>1, <2>10, DecrementSums
  <2>11. ASSUME NEW u \in Users, NEW s \in Sessions, DeleteRead(u, s)  PROVE BooksOK' /\ SumsOK'
    BY <2>1, <2>11, DeleteReadSums
  <2>12. ASSUME NEW current \in Percents, NEW target \in Percents, EditPercents(current, target)
         PROVE  BooksOK' /\ SumsOK'
    <3>1. UNCHANGED <<row, op>>
      BY <2>12 DEF EditPercents
    <3>2. vehicle'.sessions = vehicle.sessions /\ vehicle'.battery = vehicle.battery
      BY <2>12 DEF EditPercents, LedgerInv, LedgerTypes
    <3> QED  BY <1>1, <2>1, <3>1, <3>2, QuietRows, SumsQuiet DEF OpsQuiet
  <2> QED
    BY <2>2, <2>3, <2>4, <2>5, <2>6, <2>7, <2>8, <2>9, <2>10, <2>11, <2>12, <2>13, QuietSteps
<1> QED  BY <1>2, <1>3

\* With no end and no deletion under way the lifetime statistics of the vehicle
\* are the sum over its sessions, however many they are.
THEOREM LifetimeHolds == Spec => []LifetimeIsExact
<1>1. LedgerInv /\ SumsInv /\ [Next]_vars => (LedgerInv /\ SumsInv)'
  BY LedgerStep, SumsStep
<1> QED  BY <1>1, LedgerInitInv, BooksInit, SumsImply, PTL DEF Spec

----------------------------------------------------------------------------
(***************************************************************************)
(* The charge.  While an end settles, kept holds its session and, when it  *)
(* is a cancellation, those whose ends the charge is already no less than. *)
(***************************************************************************)

Reached(s) == row[s].st \in Gone /\ row[s].end # None => vehicle.current >= row[s].end

SettlesAlone(p) ==
    /\ \A q \in Settling : q = p
    /\ op[p].s \in kept
    /\ Exists(op[p].s) => row[op[p].s].end \in {op[p].end, None}
    /\ op[p].pc = "off" => kept = {op[p].s}
    /\ op[p].pc \in {"advance", "set"} => \A s \in kept \ {op[p].s} : Reached(s)
    /\ op[p].pc = "set" => op[p].end > vehicle.current

KeptInv ==
    /\ kept \subseteq Sessions
    /\ kept # {} => \A p \in Settling : SettlesAlone(p)
    /\ Settling = {} => \A s \in kept : Reached(s)

LEMMA KeptInit == Init => KeptInv
BY DEF Init, KeptInv, Settling, Idle

LEMMA KeptImplies == KeptInv => ChargeIsKept
BY DEF KeptInv, Reached, ChargeIsKept

\* Nothing to keep, nothing to show.
LEMMA NothingKept == ASSUME kept' = {}  PROVE KeptInv'
BY DEF KeptInv

\* Neither the ends that settle nor the charge are touched.
LEMMA KeptQuiet ==
    ASSUME LedgerInv, KeptInv, EndsStay, Settling' = Settling,
           \A p \in Settling : op'[p] = op[p],
           vehicle'.current = vehicle.current, kept' = kept
    PROVE  KeptInv'
<1>1. \A s \in Sessions : Reached(s) => Reached(s)'
  BY DEF EndsStay, Reached
<1>2. ASSUME NEW p \in Settling, SettlesAlone(p)  PROVE SettlesAlone(p)'
  <2>1. op'[p] = op[p] /\ p \in Procs
    BY DEF Settling
  <2>2. op[p].s \in Sessions /\ Past(op[p].s)
    BY <2>1, OpKinds DEF Settling, LedgerInv, OpsOK, Follows, Stops
  <2>3. Exists(op[p].s)' => Exists(op[p].s) /\ row'[op[p].s].end \in {row[op[p].s].end, None}
    BY <2>2 DEF EndsStay
  <2> QED  BY <1>1, <1>2, <2>1, <2>2, <2>3 DEF SettlesAlone, KeptInv
<1> QED  BY <1>1, <1>2 DEF KeptInv

LEMMA KeptStop ==
    ASSUME LedgerInv, KeptInv, NEW p \in Procs, StopWrite(p)
    PROVE  KeptInv'
<1>1. CASE Settling # {}
  BY <1>1, NothingKept DEF StopWrite, Keep
<1>2. CASE Settling = {}
  <2>1. PICK o, s : o = op[p] /\ s = o.s
    OBVIOUS
  <2>2. o \in Stops /\ o.pc = "write" /\ s \in Sessions
    BY <2>1, OpKinds DEF StopWrite, Does, Stops
  <2>3. PICK r : r = [row[s] EXCEPT !.st = "completed", !.end = o.end, !.battery = o.battery]
    OBVIOUS
  <2>4. PICK n : n = [o EXCEPT !.pc = "off"]
    OBVIOUS
  <2>5. Set(s, r) /\ Turn(p, n) /\ kept' = {s}
    BY <1>2, <2>1, <2>3, <2>4 DEF StopWrite, Keep
  <2>6. n.pc = "off" /\ n.s = s /\ n.end = o.end
    BY <2>1, <2>2, <2>4 DEF Stops
  <2>7. op'[p] = n /\ \A q \in Procs \ {p} : op'[q] = op[q]
    BY <2>5 DEF Turn, LedgerInv, LedgerTypes
  <2>8. Settling' = {p}
    BY <1>2, <2>6, <2>7 DEF Settling
  <2>9. Exists(s)' => row'[s].end = o.end
    <3>1. CASE ~Exists(s)
      BY <2>5, <3>1 DEF Set, Exists
    <3>2. CASE Exists(s)
      <4>1. row[s] \in Rows
        BY <2>2, <3>2, ExistingRow
      <4>2. row'[s] = r
        BY <2>2, <2>5, <3>2 DEF Set, LedgerInv, LedgerTypes
      <4> QED  BY <2>3, <4>1, <4>2 DEF Rows
    <3> QED  BY <3>1, <3>2
  <2>10. SettlesAlone(p)'
    BY <2>5, <2>6, <2>7, <2>8, <2>9 DEF SettlesAlone, Exists
  <2> QED  BY <2>2, <2>5, <2>8, <2>10 DEF KeptInv
<1> QED  BY <1>1, <1>2

LEMMA KeptCancel ==
    ASSUME LedgerInv, KeptInv, CancelWrite
    PROVE  KeptInv'
<1>1. CASE Settling # {}
  BY <1>1, NothingKept DEF CancelWrite, Keep
<1>2. CASE Settling = {}
  <2>1. PICK o, s : o = op["lwt"] /\ s = o.s
    OBVIOUS
  <2>2. o \in [pc : {"cancel", "advance"}, s : Sessions, end : None .. Capacity]
        /\ o.pc = "cancel" /\ s \in Sessions /\ "lwt" \in Procs
    BY <2>1, OpKinds, Names DEF CancelWrite, Does
  <2>3. PICK r : r = [row[s] EXCEPT !.st = "cancelled", !.end = o.end]
    OBVIOUS
  <2>4. PICK n : n = [o EXCEPT !.pc = "advance"]
    OBVIOUS
  <2>5. Set(s, r) /\ Turn("lwt", n) /\ kept' = kept \cup {s} /\ UNCHANGED vehicle
    BY <1>2, <2>1, <2>3, <2>4 DEF CancelWrite, Keep
  <2>6. n.pc = "advance" /\ n.s = s /\ n.end = o.end
    BY <2>1, <2>2, <2>4
  <2>7. op'["lwt"] = n /\ \A q \in Procs \ {"lwt"} : op'[q] = op[q]
    BY <2>2, <2>5 DEF Turn, LedgerInv, LedgerTypes
  <2>8. Settling' = {"lwt"}
    BY <1>2, <2>2, <2>6, <2>7 DEF Settling
  <2>9. /\ Exists(s)' => row'[s].end = o.end
        /\ \A t \in Sessions \ {s} : row'[t] = row[t]
    <3>1. CASE ~Exists(s)
      BY <2>5, <3>1 DEF Set, Exists
    <3>2. CASE Exists(s)
      <4>1. row[s] \in Rows
        BY <2>2, <3>2, ExistingRow
      <4>2. row'[s] = r /\ \A t \in Sessions \ {s} : row'[t] = row[t]
        BY <2>2, <2>5, <3>2 DEF Set, LedgerInv, LedgerTypes
      <4> QED  BY <2>3, <4>1, <4>2 DEF Rows
    <3> QED  BY <3>1, <3>2
  <2>10. \A t \in kept \ {s} : Reached(t)'
    BY <1>2, <2>5, <2>9 DEF KeptInv, Reached
  <2>11. SettlesAlone("lwt")'
    BY <2>5, <2>6, <2>7, <2>8, <2>9, <2>10 DEF SettlesAlone, Exists
  <2> QED  BY <2>2, <2>5, <2>8, <2>11 DEF KeptInv
<1> QED  BY <1>1, <1>2

LEMMA KeptVehicle ==
    ASSUME LedgerInv, KeptInv, NEW p \in Procs, StopVehicle(p)
    PROVE  KeptInv'
<1>1. UNCHANGED <<row, kept>> /\ p \in Settling
  BY DEF StopVehicle, history, Settling, Does
<1>2. CASE kept = {}
  BY <1>1, <1>2, NothingKept
<1>3. CASE kept # {}
  <2>1. PICK o, s : o = op[p] /\ s = o.s
    OBVIOUS
  <2>2. SettlesAlone(p) /\ o.pc = "off" /\ o \in Stops
    BY <1>1, <1>3, <2>1, OpKinds DEF KeptInv, StopVehicle, Does
  <2>3. kept = {s} /\ Settling = {p}
    BY <1>1, <2>1, <2>2 DEF SettlesAlone
  <2>4. PICK n : n = [o EXCEPT !.pc = "count"]
    OBVIOUS
  <2>5. Turn(p, n) /\ n.pc = "count"
    BY <2>1, <2>2, <2>4 DEF StopVehicle, Stops
  <2>6. op'[p] = n /\ \A q \in Procs \ {p} : op'[q] = op[q]
    BY <2>5 DEF Turn, LedgerInv, LedgerTypes
  <2>7. Settling' = {}
    <3>1. \A q \in Procs \ {p} : op[q].pc \notin {"off", "advance", "set"}
      BY <2>3 DEF Settling
    <3> QED  BY <2>5, <2>6, <3>1 DEF Settling
  <2>8. vehicle'.current = o.end /\ o.end \in Int /\ s \in Sessions
    BY <2>1, <2>2, EnergyTypes DEF StopVehicle, LedgerInv, LedgerTypes, Stops
  <2>9. Reached(s)'
    <3>1. row[s].st \in Gone => Exists(s)
      BY <2>8, ExistingRow DEF Gone
    <3> QED  BY <1>1, <2>1, <2>2, <2>8, <3>1 DEF Reached, SettlesAlone
  <2> QED  BY <1>1, <2>3, <2>7, <2>8, <2>9 DEF KeptInv
<1> QED  BY <1>2, <1>3

LEMMA KeptCompare ==
    ASSUME LedgerInv, KeptInv, CancelCompare
    PROVE  KeptInv'
<1>1. UNCHANGED <<row, kept, vehicle>> /\ "lwt" \in Settling /\ "lwt" \in Procs
  BY Names DEF CancelCompare, history, Settling, Does
<1>2. CASE kept = {}
  BY <1>1, <1>2, NothingKept
<1>3. CASE kept # {}
  <2>1. PICK o, s : o = op["lwt"] /\ s = o.s
    OBVIOUS
  <2>2. SettlesAlone("lwt") /\ o.pc = "advance"
        /\ o \in [pc : {"cancel", "advance"}, s : Sessions, end : None .. Capacity]
    BY <1>1, <1>3, <2>1, OpKinds DEF KeptInv, CancelCompare, Does
  <2>3. Settling = {"lwt"}
    BY <1>1, <2>2 DEF SettlesAlone
  <2>4. PICK n : n = [pc |-> "set", s |-> s, end |-> o.end, target |-> vehicle.target]
    OBVIOUS
  <2>5. \/ o.end > vehicle.current /\ Turn("lwt", n)
        \/ ~(o.end > vehicle.current) /\ Turn("lwt", Idle)
    BY <2>1, <2>4 DEF CancelCompare
  <2>6. o.end \in Int /\ s \in Sessions /\ vehicle.current \in Int
    BY <2>1, <2>2, EnergyTypes DEF LedgerInv, LedgerTypes
  <2>7. \A t \in kept \ {s} : Reached(t)'
    BY <1>1, <2>1, <2>2 DEF SettlesAlone, Reached
  <2>8. CASE Turn("lwt", n) /\ o.end > vehicle.current
    <3>1. op'["lwt"] = n /\ \A q \in Procs \ {"lwt"} : op'[q] = op[q]
      BY <1>1, <2>8 DEF Turn, LedgerInv, LedgerTypes
    <3>2. n.pc = "set" /\ n.s = s /\ n.end = o.end
      BY <2>4
    <3>3. Settling' = {"lwt"}
      BY <1>1, <2>3, <3>1, <3>2 DEF Settling
    <3>4. SettlesAlone("lwt")'
      BY <1>1, <2>1, <2>2, <2>7, <2>8, <3>1, <3>2, <3>3 DEF SettlesAlone, Exists
    <3> QED  BY <1>1, <3>3, <3>4 DEF KeptInv
  <2>9. CASE Turn("lwt", Idle) /\ ~(o.end > vehicle.current)
    <3>1. op'["lwt"] = Idle /\ \A q \in Procs \ {"lwt"} : op'[q] = op[q]
      BY <1>1, <2>9 DEF Turn, LedgerInv, LedgerTypes
    <3>2. Settling' = {}
      BY <2>3, <3>1 DEF Settling, Idle
    <3>3. Reached(s)'
      <4>1. row[s].st \in Gone => Exists(s)
        BY <2>6, ExistingRow DEF Gone
      <4>2. vehicle.current >= o.end
        BY <2>6, <2>9
      <4> QED  BY <1>1, <2>1, <2>2, <4>1, <4>2 DEF Reached, SettlesAlone
    <3> QED  BY <1>1, <2>7, <3>2, <3>3 DEF KeptInv
  <2> QED  BY <2>5, <2>8, <2>9
<1> QED  BY <1>2, <1>3

LEMMA KeptAdvance ==
    ASSUME LedgerInv, KeptInv, CancelAdvance
    PROVE  KeptInv'
<1>1. UNCHANGED <<row, kept>> /\ "lwt" \in Settling /\ "lwt" \in Procs
  BY Names DEF CancelAdvance, history, Settling, Does
<1>2. CASE kept = {}
  BY <1>1, <1>2, NothingKept
<1>3. CASE kept # {}
  <2>1. PICK o, s : o = op["lwt"] /\ s = o.s
    OBVIOUS
  <2>2. SettlesAlone("lwt") /\ o.pc = "set"
        /\ o \in [pc : {"set"}, s : Sessions, end : 0 .. Capacity, target : 0 .. Capacity]
    BY <1>1, <1>3, <2>1, OpKinds DEF KeptInv, CancelAdvance, Does
  <2>3. Settling = {"lwt"}
    BY <1>1, <2>2 DEF SettlesAlone
  <2>4. op'["lwt"] = Idle /\ \A q \in Procs \ {"lwt"} : op'[q] = op[q]
    BY <1>1 DEF CancelAdvance, Turn, LedgerInv, LedgerTypes
  <2>5. Settling' = {}
    BY <2>3, <2>4 DEF Settling, Idle
  <2>6. /\ vehicle'.current = o.end /\ o.end > vehicle.current
        /\ o.end \in Int /\ s \in Sessions /\ vehicle.current \in Int
    BY <2>1, <2>2, EnergyTypes DEF CancelAdvance, SettlesAlone, LedgerInv, LedgerTypes
  <2>7. ASSUME NEW t \in kept  PROVE Reached(t)'
    <3>1. t \in Sessions
      BY DEF KeptInv
    <3>2. row[t].st \in Gone => Exists(t) /\ row[t].end \in Int
      BY <3>1, ExistingRow, EnergyTypes DEF Gone, Rows
    <3>3. CASE t = s
      <4>1. Exists(s) => row[s].end \in {o.end, None}
        BY <2>1, <2>2 DEF SettlesAlone
      <4> QED  BY <1>1, <2>6, <3>2, <3>3, <4>1 DEF Reached
    <3>4. CASE t # s
      <4>1. Reached(t)
        BY <2>1, <2>2, <3>4 DEF SettlesAlone
      <4> QED  BY <1>1, <2>6, <3>2, <4>1 DEF Reached
    <3> QED  BY <3>3, <3>4
  <2> QED  BY <1>1, <2>5, <2>7 DEF KeptInv
<1> QED  BY <1>2, <1>3

LEMMA KeptStep == LedgerInv /\ KeptInv /\ [Next]_vars => KeptInv'
<1> SUFFICES ASSUME LedgerInv, KeptInv, [Next]_vars  PROVE KeptInv'
  OBVIOUS
<1>1. CASE UNCHANGED vars
  <2>1. UNCHANGED <<row, op, vehicle, kept>>
    BY <1>1 DEF vars, history
  <2> QED  BY <2>1, QuietRows, KeptQuiet DEF Settling
<1>2. CASE Next
  <2>1. ASSUME NEW p \in Procs, NEW o, Turn(p, o), p \notin Settling,
               o.pc \notin {"off", "advance", "set"}
        PROVE  Settling' = Settling /\ \A q \in Settling : op'[q] = op[q]
    <3>1. op'[p] = o /\ \A q \in Procs \ {p} : op'[q] = op[q]
      BY <2>1 DEF Turn, LedgerInv, LedgerTypes
    <3> QED  BY <2>1, <3>1 DEF Settling
  <2>2. CASE QuietStep
    <3>1. \A p \in Procs : (p \in Settling <=> p \in Settling') /\ (p \in Settling => op'[p] = op[p])
      BY <2>2 DEF QuietStep, OpsQuiet, Begun, Settling
    <3>2. Settling' = Settling
      BY <3>1 DEF Settling
    <3> QED  BY <2>2, <3>1, <3>2, KeptQuiet DEF QuietStep, Settling
  <2>3. CASE CancelWrite
    BY <2>3, KeptCancel
  <2>4. CASE CancelCompare \/ CancelAdvance
    BY <2>4, KeptCompare, KeptAdvance
  <2>5. CASE Restart
    <3>1. CASE Settling # {}
      BY <2>5, <3>1, NothingKept DEF Restart, Keep
    <3>2. CASE Settling = {}
      <4>1. UNCHANGED <<row, vehicle, kept>> /\ Settling' = {}
        BY <2>5, <3>2 DEF Restart, Keep, Settling, Idle
      <4> QED  BY <3>2, <4>1, QuietRows, KeptQuiet
    <3> QED  BY <3>1, <3>2
  <2>6. ASSUME NEW p \in Procs, StopVehicle(p)  PROVE KeptInv'
    BY <2>6, KeptVehicle
  <2>7. ASSUME NEW p \in Procs, StopWrite(p)  PROVE KeptInv'
    BY <2>7, KeptStop
  <2>8. ASSUME NEW p \in Procs, StopCount(p)  PROVE KeptInv'
    <3>1. Turn(p, Idle) /\ p \notin Settling /\ UNCHANGED <<row, kept>>
      BY <2>8 DEF StopCount, Settling, Does, history
    <3>2. vehicle'.current = vehicle.current
      BY <2>8 DEF StopCount, LedgerInv, LedgerTypes
    <3> QED  BY <2>1, <3>1, <3>2, QuietRows, KeptQuiet DEF Idle
  <2>9. ASSUME NEW u \in Users, DeleteRemove(u)  PROVE KeptInv'
    <3>1. Turn(u, Idle) /\ u \in Procs /\ u \notin Settling /\ UNCHANGED <<vehicle, kept>>
          /\ row' = [row EXCEPT ![op[u].s] = Deleted]
      BY <2>9, Names DEF DeleteRemove, Settling, Does, history
    <3>2. EndsStay
      <4>1. \A t \in Sessions : row'[t] = row[t] \/ row'[t] = Deleted
        BY <3>1 DEF LedgerInv, LedgerTypes
      <4> QED  BY <4>1 DEF EndsStay, Exists, Deleted, Gone
    <3> QED  BY <2>1, <3>1, <3>2, KeptQuiet DEF Idle
  <2>10. ASSUME NEW u \in Users, DeleteDecrement(u)  PROVE KeptInv'
    <3>1. PICK n : n = [op[u] EXCEPT !.pc = "remove"]
      OBVIOUS
    <3>2. u \in Procs /\ op[u] \in [pc : {"decrement", "remove"}, s : Sessions, battery : None .. Capacity]
      BY <2>10, OpKinds, Names DEF DeleteDecrement, Does
    <3>3. Turn(u, n) /\ n.pc = "remove" /\ u \notin Settling /\ UNCHANGED <<row, kept>>
      BY <2>10, <3>1, <3>2 DEF DeleteDecrement, Settling, Does, history
    <3>4. vehicle'.current = vehicle.current
      BY <2>10 DEF DeleteDecrement, LedgerInv, LedgerTypes
    <3> QED  BY <2>1, <3>2, <3>3, <3>4, QuietRows, KeptQuiet
  <2>11. ASSUME NEW u \in Users, NEW s \in Sessions, DeleteRead(u, s)  PROVE KeptInv'
    <3>1. PICK n : n = [pc |-> IF row[s].battery = None THEN "remove" ELSE "decrement",
                        s |-> s, battery |-> row[s].battery]
      OBVIOUS
    <3>2. n.pc \in {"remove", "decrement"}
      BY <3>1
    <3>3. u \in Procs /\ Turn(u, n) /\ u \notin Settling /\ UNCHANGED <<row, vehicle, kept>>
      BY <2>11, <3>1, Names DEF DeleteRead, Settling, Does
    <3> QED  BY <2>1, <3>2, <3>3, QuietRows, KeptQuiet
  <2>12. ASSUME NEW current \in Percents, NEW target \in Percents, EditPercents(current, target)
         PROVE  KeptInv'
    BY <2>12, NothingKept DEF EditPercents
  <2> QED
    BY <1>2, <2>2, <2>3, <2>4, <2>5, <2>6, <2>7, <2>8, <2>9, <2>10, <2>11, <2>12, QuietSteps
<1> QED  BY <1>1, <1>2

\* What a session delivered before it was stopped or cancelled is in the
\* vehicle's charge when its end has settled.
THEOREM ChargeHolds == Spec => []ChargeIsKept
<1>1. LedgerInv /\ KeptInv /\ [Next]_vars => (LedgerInv /\ KeptInv)'
  BY LedgerStep, KeptStep
<1> QED  BY <1>1, LedgerInitInv, KeptInit, KeptImplies, PTL DEF Spec

=============================================================================
