----------------------- MODULE SensorReadings_proofs ------------------------
(***************************************************************************)
(* Reports are complete and fresh, and modules_lock is kept for no other   *)
(* reason than the one known, for any configurations of tags.              *)
(*                                                                         *)
(* IInv joins to the properties what a report's contents rest on: what is  *)
(* held for the next report was read since the last one, a CC2541's        *)
(* pressure is held with the calibration only, and a calibration that is   *)
(* held was read.                                                          *)
(***************************************************************************)
EXTENDS SensorReadings, NumberLemmas, TLAPS

Sensors == {"other"} \cup UNION {Dispatched(c) : c \in Chips}

\* The calibration of the tag at address addr has been read.
Calibrated(addr) == \E t \in calibrated : configured[t].addr = addr

HeldInv ==
  \A i \in DOMAIN inUse :
    /\ flag[i] \subseteq since[i]
    /\ "calibration" \in flag[i] => Calibrated(inUse[i].addr)
    /\ "pressure" \in flag[i] /\ inUse[i].chip = "cc2541" => "calibration" \in flag[i]

StateInv ==
  /\ MaxTags \in Nat /\ AreTags(configured) /\ AreTags(inUse)
  /\ flag \in [Tags -> SUBSET Sensors] /\ since \in [Tags -> SUBSET Sensors]
  /\ state = "creating" => lock = "free" /\ report = NoReport /\ \A i \in Tags : since[i] = {}

IInv == StateInv /\ HeldInv /\ ReadingsInv /\ ReportsFresh

\* The positions in a list of tags are tags.
LEMMA PositionsOf ==
  ASSUME NEW list, AreTags(list), MaxTags \in Nat
  PROVE  DOMAIN list = 1..Len(list) /\ Len(list) \in Nat /\ DOMAIN list \subseteq Tags
  BY DEF AreTags, Tags

\* A message goes to an entry with its tag's address.
LEMMA TargetIs ==
  ASSUME StateInv, NEW addr, Target(addr) # 0
  PROVE  Target(addr) \in DOMAIN inUse /\ inUse[Target(addr)].addr = addr
  <1> DEFINE found == {i \in DOMAIN inUse : inUse[i].addr = addr /\ (kind = "filter" => inUse[i].upper)}
  <1>1. found # {} /\ found \in SUBSET Nat
    BY PositionsOf DEF Target, StateInv
  <1>2. Target(addr) = CHOOSE i \in found : \A j \in found : i <= j
    BY <1>1 DEF Target
  <1>3. \E i \in found : \A j \in found : i <= j
    BY <1>1, Least
  <1> HIDE DEF found
  <1>4. Target(addr) \in found
    BY <1>2, <1>3
  <1> QED BY <1>4 DEF found

\* Nothing is held, and nothing reported, at first.
LEMMA InitIInv == Init => IInv
  <1> SUFFICES ASSUME Init PROVE IInv
    OBVIOUS
  <1>1. kind \in Kinds /\ AreTags(configured) /\ AreTags(inUse) /\ MaxTags \in Nat
    BY ConfigurationAssumption DEF Init
  <1>2. /\ flag \in [Tags -> SUBSET Sensors] /\ since \in [Tags -> SUBSET Sensors]
        /\ state = "creating" /\ lock = "free" /\ report = NoReport /\ calibrated = {}
        /\ \A i \in Tags : flag[i] = {} /\ since[i] = {}
    BY DEF Init
  <1>3. StateInv
    BY <1>1, <1>2 DEF StateInv
  <1>4. HeldInv
    BY <1>1, <1>2, PositionsOf DEF HeldInv
  <1>5. ReadingsInv
    BY <1>1, <1>2 DEF ReadingsInv, TypeOK, LockKeptBySecondTag
  <1>6. ReportsFresh
    BY <1>2 DEF ReportsFresh, NoReport
  <1> QED BY <1>3, <1>4, <1>5, <1>6 DEF IInv

\* The creation leaves all of it alone.
LEMMA CreateInv ==
  ASSUME IInv, Create
  PROVE  IInv'
  <1> USE DEF IInv
  <1>1. UNCHANGED <<kind, configured, inUse, flag, since, calibrated, report, turn, lock>>
        /\ state = "creating" /\ state' \in {"running", "crashed"}
    BY DEF Create, module
  <1>2. StateInv'
    BY <1>1 DEF StateInv, AreTags, Tags
  <1>3. HeldInv'
    BY <1>1 DEF HeldInv, Calibrated
  <1>4. ReadingsInv'
    BY <1>1 DEF ReadingsInv, TypeOK, LockKeptBySecondTag, StateInv, Tags
  <1>5. ReportsFresh'
    BY <1>1 DEF ReportsFresh
  <1> QED BY <1>2, <1>3, <1>4, <1>5

\* What a message of sensor leaves held by entry i, if it completes no report.
HeldAfter(i, sensor) ==
  IF sensor \in Dispatched(inUse[i].chip) THEN Resolved(inUse[i], flag[i], sensor) ELSE flag[i]

\* What the message changes: nothing is reported; the broker does not take the report;
\* a report goes out, of all sensors or of those configured; or a raw one does.
Kept(i, held) ==
  /\ flag' = [flag EXCEPT ![i] = held] /\ report' = NoReport /\ turn' = turn
  /\ \/ state' = state /\ lock' = lock
     \/ state' = "stuck" /\ lock = "kept" /\ lock' = lock
     \/ state' = "crashed" /\ kind = "filter" /\ lock' = lock

LostReport(i) ==
  /\ flag' = [flag EXCEPT ![i] = {}] /\ state' = state
  /\ report' = NoReport /\ turn' = turn /\ i # 1
  /\ kind = "cc2541" /\ lock' = "kept"

Reports(i, held, seen) ==
  /\ flag' = [flag EXCEPT ![i] = {}] /\ state' = state
  /\ inUse[i].sensors \subseteq held
  /\ report'.raw = FALSE /\ report'.tag = i /\ report'.since = seen
  /\ \/ report'.values = held \ {"calibration"} /\ lock = "free" /\ lock' = "free"
     \/ report'.values = held \cap inUse[i].sensors /\ lock' = lock /\ kind = "filter"

RawReport(i, held) ==
  /\ flag' = [flag EXCEPT ![i] = held] /\ state' = state /\ lock' = lock /\ turn' = turn
  /\ report'.raw = TRUE /\ kind = "filter"

\* The cases of the module's Receive, whatever its kind.
LEMMA ReceiveDoes ==
  ASSUME StateInv, kind \in Kinds, lock \in {"free", "kept"}, state = "running",
         NEW i \in DOMAIN inUse, NEW sensor, Receive(i, sensor)
  PROVE  \/ Kept(i, HeldAfter(i, sensor)) \/ LostReport(i)
         \/ Reports(i, HeldAfter(i, sensor), since[i] \cup {sensor}) \/ RawReport(i, HeldAfter(i, sensor))
  <1> DEFINE tag == inUse[i]
             held == HeldAfter(i, sensor)
             seen == since[i] \cup {sensor}
  <1>1. tag.chip \in {"cc2541", "cc2650"}
    BY DEF StateInv, AreTags, Chips
  <1>2. CASE ReportRaw(i, held, seen) /\ kind = "filter"
    BY <1>2 DEF ReportRaw, Report, Kept, RawReport
  <1>3. CASE ReportFiltered(i, held, seen) /\ kind = "filter" /\ Complete(tag, held)
    BY <1>3 DEF ReportFiltered, Report, Complete, Reports
  <1>4. CASE ReportTag(i, held, seen) /\ kind = "cc2541" /\ Complete(tag, held)
    BY <1>4 DEF ReportTag, Report, Keep, Publish, Complete, Values, Kept, LostReport, Reports
  <1>5. CASE Keep(i, held) /\ UNCHANGED <<state, lock>>
    BY <1>5 DEF Keep, Kept
  <1>6. \/ ReportRaw(i, held, seen) /\ kind = "filter"
        \/ ReportFiltered(i, held, seen) /\ kind = "filter" /\ Complete(tag, held)
        \/ ReportTag(i, held, seen) /\ kind = "cc2541" /\ Complete(tag, held)
        \/ Keep(i, held) /\ UNCHANGED <<state, lock>>
    BY DEF Receive, HeldAfter
  <1> QED BY <1>2, <1>3, <1>4, <1>5, <1>6

\* What a reading leaves true of what is held.
LEMMA ReadingInv ==
  ASSUME IInv, ConfigurationAssumption, NEW t, NEW sensor,
         t \in DOMAIN configured => sensor \in configured[t].sensors \cup {"calibration"} \cup Unasked,
         Reading(t, sensor)
  PROVE  IInv'
  <1> DEFINE i == Target(configured[t].addr)
             CalibratedThen(addr) == \E u \in calibrated' : configured[u].addr = addr
  <1>1. /\ state = "running" /\ t \in DOMAIN configured
        /\ UNCHANGED <<kind, configured, inUse>>
        /\ calibrated' = IF sensor = "calibration" THEN calibrated \cup {t} ELSE calibrated
    BY DEF Reading, module
  <1>2. /\ StateInv /\ HeldInv /\ TypeOK /\ LockKeptBySecondTag
    BY DEF IInv, ReadingsInv
  <1>3. t \in Tags /\ sensor \in Sensors
    <2>1. t \in Tags
      BY <1>1, <1>2, PositionsOf DEF StateInv
    <2>2. configured[t].sensors \subseteq Dispatched(configured[t].chip) /\ configured[t].chip \in Chips
      BY <1>1, <1>2 DEF StateInv, AreTags
    <2>3. "calibration" \in Sensors
      BY DEF Sensors, Dispatched, Chips
    <2>4. Unasked \subseteq Sensors
      BY DEF ConfigurationAssumption, Sensors
    <2> QED BY <1>1, <2>1, <2>2, <2>3, <2>4 DEF Sensors
  <1>4. calibrated \subseteq calibrated' /\ calibrated' \subseteq Tags
    BY <1>1, <1>2, <1>3 DEF TypeOK
  <1>5. sensor = "calibration" => t \in calibrated'
    BY <1>1
  <1>6. \A addr : Calibrated(addr) => CalibratedThen(addr)
    BY <1>1, <1>4 DEF Calibrated
  <1> HIDE DEF CalibratedThen
  <1>7. CASE i = 0
    <2>1. report' = NoReport /\ UNCHANGED <<state, flag, since, turn, lock>>
      BY <1>7 DEF Reading
    <2>2. StateInv'
      BY <1>1, <1>2, <2>1 DEF StateInv, AreTags, Tags
    <2>3. HeldInv'
      BY <1>1, <1>2, <1>6, <2>1 DEF HeldInv, Calibrated, CalibratedThen
    <2>4. ReadingsInv'
      BY <1>1, <1>2, <1>4, <2>1 DEF ReadingsInv, TypeOK, LockKeptBySecondTag, NoReport, Tags
    <2>5. ReportsFresh'
      BY <2>1 DEF ReportsFresh, NoReport
    <2> QED BY <2>2, <2>3, <2>4, <2>5 DEF IInv
  <1>8. CASE i # 0
    <2> DEFINE tag == inUse[i]
               held == HeldAfter(i, sensor)
               seen == since[i] \cup {sensor}
    <2>1. /\ Receive(i, sensor)
          /\ since' = [since EXCEPT ![i] = IF turn' # turn THEN {} ELSE @ \cup {sensor}]
      BY <1>8 DEF Reading
    <2>2. i \in DOMAIN inUse /\ tag.addr = configured[t].addr
      BY <1>2, <1>8, TargetIs
    <2>3. i \in Tags /\ Len(inUse) \in Nat /\ DOMAIN inUse = 1..Len(inUse) /\ DOMAIN inUse \subseteq Tags
      BY <1>2, <2>2, PositionsOf DEF StateInv
    <2>4. /\ flag[i] \subseteq held /\ held \subseteq flag[i] \cup {sensor}
          /\ "pressure" \in held /\ "pressure" \notin flag[i] /\ tag.chip = "cc2541"
                => "calibration" \in held
      BY DEF Resolved, HeldAfter
    <2>5. /\ held \subseteq seen /\ held \subseteq Sensors /\ seen \subseteq Sensors
      <3>1. flag[i] \subseteq since[i] /\ flag[i] \subseteq Sensors /\ since[i] \subseteq Sensors
        BY <1>2, <2>2, <2>3 DEF HeldInv, StateInv
      <3> QED BY <1>3, <2>4, <3>1
    <2>6. "calibration" \in held => CalibratedThen(tag.addr)
      <3>1. CASE "calibration" \in flag[i]
        BY <1>2, <1>6, <2>2, <3>1 DEF HeldInv
      <3>2. CASE sensor = "calibration"
        BY <1>1, <1>5, <2>2, <3>2 DEF CalibratedThen
      <3> QED BY <2>4, <3>1, <3>2
    <2>7. "pressure" \in held /\ tag.chip = "cc2541" => "calibration" \in held
      BY <1>2, <2>2, <2>4 DEF HeldInv
    <2>8. Kept(i, held) \/ LostReport(i) \/ Reports(i, held, seen) \/ RawReport(i, held)
      BY <1>1, <1>2, <2>1, <2>2, ReceiveDoes DEF TypeOK
    <2> USE DEF Kept, LostReport, Reports, RawReport
    <2> HIDE DEF i, tag, held, seen, CalibratedThen
    <2>9. \/ flag' = [flag EXCEPT ![i] = held] /\ since' = [since EXCEPT ![i] = seen]
          \/ /\ flag' = [flag EXCEPT ![i] = {}]
             /\ since' = [since EXCEPT ![i] = {}] \/ since' = [since EXCEPT ![i] = seen]
      BY <2>1, <2>8 DEF seen
    <2>10. StateInv'
      <3>1. flag' \in [Tags -> SUBSET Sensors] /\ since' \in [Tags -> SUBSET Sensors]
        BY <1>2, <2>3, <2>5, <2>9 DEF StateInv
      <3>2. state' # "creating"
        BY <1>1, <2>8
      <3> QED BY <1>1, <1>2, <3>1, <3>2 DEF StateInv, AreTags, Tags
    <2>11. HeldInv'
      <3> SUFFICES ASSUME NEW j \in DOMAIN inUse
                   PROVE  /\ flag'[j] \subseteq since'[j]
                          /\ "calibration" \in flag'[j] => CalibratedThen(inUse[j].addr)
                          /\ "pressure" \in flag'[j] /\ inUse[j].chip = "cc2541" => "calibration" \in flag'[j]
        BY <1>1 DEF HeldInv, Calibrated, CalibratedThen
      <3>1. flag \in [Tags -> SUBSET Sensors] /\ since \in [Tags -> SUBSET Sensors] /\ j \in Tags
        BY <1>2, <2>3 DEF StateInv
      <3>2. CASE j = i
        <4>1. (flag'[j] = held /\ since'[j] = seen) \/ flag'[j] = {}
          BY <2>3, <2>9, <3>1, <3>2
        <4> QED BY <2>5, <2>6, <2>7, <3>2, <4>1 DEF tag
      <3>3. CASE j # i
        <4>1. flag'[j] = flag[j] /\ since'[j] = since[j]
          BY <2>3, <2>9, <3>1, <3>3
        <4> QED BY <1>2, <1>6, <4>1 DEF HeldInv
      <3> QED BY <3>2, <3>3
    <2>12. TypeOK'
      <3>1. \A j \in Tags' : flag'[j] \cup since'[j] \subseteq Sensors
        BY <1>2, <2>10 DEF StateInv
      <3>2. state' \in {"running", "stuck", "crashed"} /\ lock' \in {"free", "kept"}
        BY <1>1, <1>2, <2>8 DEF TypeOK
      <3> QED BY <1>1, <1>2, <1>4, <3>1, <3>2 DEF TypeOK, Sensors, Tags
    <2>13. LockKeptBySecondTag'
      <3>1. lock' = "kept" => kind = "cc2541" /\ Len(inUse) > 1 /\ report'.tag # 1
        <4>1. LostReport(i) => Len(inUse) > 1
          BY <2>2, <2>3
        <4> QED BY <1>2, <2>8, <4>1 DEF LockKeptBySecondTag, NoReport, TypeOK
      <3>2. state' = "stuck" => lock' = "kept"
        BY <1>1, <2>8
      <3>3. state' = "crashed" => kind = "filter"
        BY <1>1, <2>8
      <3> QED BY <1>1, <3>1, <3>2, <3>3 DEF LockKeptBySecondTag
    <2>14. ReportsFresh'
      <3> SUFFICES ASSUME report'.tag # 0, ~report'.raw
                   PROVE  /\ inUse[report'.tag].sensors \subseteq report'.values
                          /\ report'.values \subseteq report'.since
                          /\ (inUse[report'.tag].chip = "cc2541" /\ "pressure" \in report'.values)
                                => CalibratedThen(inUse[report'.tag].addr)
        BY <1>1 DEF ReportsFresh, CalibratedThen
      <3>1. Reports(i, held, seen)
        BY <2>8 DEF NoReport
      <3>2. "calibration" \notin tag.sensors
        BY <1>2, <2>2 DEF StateInv, AreTags, tag
      <3>3. tag.sensors \subseteq report'.values /\ report'.values \subseteq held
        BY <3>1, <3>2 DEF tag
      <3> QED BY <2>5, <2>6, <2>7, <3>1, <3>3 DEF tag
    <2> QED BY <2>10, <2>11, <2>12, <2>13, <2>14 DEF IInv, ReadingsInv
  <1> QED BY <1>7, <1>8

\* Every step keeps the invariant.
LEMMA NextInv ==
  ASSUME IInv, ConfigurationAssumption, [Next]_vars
  PROVE  IInv'
  <1>1. CASE Create
    BY <1>1, CreateInv
  <1>2. CASE \E t \in DOMAIN configured :
                \E sensor \in configured[t].sensors \cup {"calibration"} \cup Unasked : Reading(t, sensor)
    BY <1>2, ReadingInv
  <1>3. CASE UNCHANGED vars
    BY <1>3 DEF vars, IInv, StateInv, AreTags, Tags, HeldInv, Calibrated, ReadingsInv, TypeOK,
                LockKeptBySecondTag, ReportsFresh
  <1> QED BY <1>1, <1>2, <1>3 DEF Next

\* What a report's contents rest on holds in every state the module reaches.
THEOREM Invariance == Spec => []IInv
  <1>1. Init => IInv
    BY InitIInv
  <1>2. IInv /\ [Next]_vars => IInv'
    BY NextInv, ConfigurationAssumption
  <1> QED BY <1>1, <1>2, PTL DEF Spec

\* Every report of a tag has all of its sensors, each read since the tag's last report, a
\* CC2541's pressure only after its calibration: whatever the configurations, and however
\* the readings of the tags interleave.
THEOREM ReportsAreFresh == Spec => []ReportsFresh
  <1>1. IInv => ReportsFresh
    BY DEF IInv
  <1> QED BY <1>1, Invariance, PTL

\* modules_lock is kept by a CC2541 resolver's report for a tag other than its first only,
\* the module waits for it for no other reason, and only the filter crashes on a reading.
THEOREM LockKeptAsKnown == Spec => []ReadingsInv
  <1>1. IInv => ReadingsInv
    BY DEF IInv
  <1> QED BY <1>1, Invariance, PTL
-----------------------------------------------------------------------------
(* The filters a module keeps of its configuration.                         *)
\* What is left of the filters at the places s: the first and the last.
FirstAndLast(filters, s) ==
  IF s = {} THEN <<>>
  ELSE IF s = {Max(s)} THEN <<filters[Max(s)]>>
  ELSE <<filters[CHOOSE i \in s : \A j \in s : i <= j], filters[Max(s)]>>

LEMMA ParsedStep ==
  ASSUME NEW n \in Nat, NEW filters, NEW s \in SUBSET (1..n), s # {}
  PROVE  FirstAndLast(filters, s) = AppendFilter(FirstAndLast(filters, s \ {Max(s)}), filters[Max(s)])
  <1> DEFINE m == Max(s)
             r == s \ {m}
             first(t) == CHOOSE i \in t : \A j \in t : i <= j
  <1>1. m \in s /\ (\A i \in s : i <= m) /\ \A i \in s : i \in Nat
    BY MaxIs
  <1> HIDE DEF m
  <1>2. CASE r = {}
    <2>1. s = {m}
      BY <1>1, <1>2
    <2> QED BY <1>2, <2>1 DEF FirstAndLast, AppendFilter, m
  <1>3. CASE r # {}
    <2>1. PICK i \in r : \A j \in r : i <= j
      BY <1>1, <1>3, Least
    <2>2. \A j \in s : i <= j
      BY <1>1, <2>1
    <2>3. first(s) = i /\ first(r) = i
      <3>1. ASSUME NEW t, t \subseteq s, i \in t, \A j \in t : i <= j
            PROVE  first(t) = i
        <4>1. first(t) \in t /\ \A j \in t : first(t) <= j
          <5>1. PICK y \in t : \A j \in t : y <= j
            BY <3>1
          <5> QED BY <5>1
        <4> HIDE DEF first
        <4>2. first(t) <= i /\ i <= first(t) /\ first(t) \in Nat /\ i \in Nat
          BY <1>1, <3>1, <4>1
        <4> QED BY <4>2
      <3>2. i \in s /\ r \subseteq s
        OBVIOUS
      <3> HIDE DEF r, first
      <3> QED BY <2>1, <2>2, <3>1, <3>2
    <2>4. r = {Max(r)} => Max(r) = i
      BY <2>1
    <2>5. FirstAndLast(filters, r) # <<>> /\ Head(FirstAndLast(filters, r)) = filters[i]
      <3> HIDE DEF r
      <3>1. CASE r = {Max(r)}
        <4>1. FirstAndLast(filters, r) = <<filters[i]>>
          BY <1>3, <2>4, <3>1 DEF FirstAndLast
        <4> QED BY <4>1
      <3>2. CASE r # {Max(r)}
        <4>1. FirstAndLast(filters, r) = <<filters[i], filters[Max(r)]>>
          BY <1>3, <2>3, <3>2 DEF FirstAndLast
        <4> QED BY <4>1
      <3> QED BY <3>1, <3>2
    <2>6. s # {m} /\ s # {}
      BY <1>1, <1>3
    <2>7. FirstAndLast(filters, s) = <<filters[i], filters[m]>>
      BY <2>3, <2>6 DEF FirstAndLast, m
    <2>8. AppendFilter(FirstAndLast(filters, r), filters[m]) = <<filters[i], filters[m]>>
      BY <2>5 DEF AppendFilter
    <2> QED BY <2>7, <2>8 DEF m
  <1> QED BY <1>2, <1>3

\* Of the filters a module is configured with it uses the first and the last: each one
\* parsed takes the place of the one before it (filter.c:295).
THEOREM FiltersLost ==
  ASSUME NEW n \in Nat, NEW filters, DOMAIN filters = 1..n
  PROVE  Parsed(filters) = IF n = 0 THEN <<>> ELSE IF n = 1 THEN <<filters[1]>>
                           ELSE <<filters[1], filters[n]>>
  <1> DEFINE Step(it) == [s \in SUBSET (1..n) |->
                            IF s = {} THEN <<>> ELSE AppendFilter(it[s \ {Max(s)}], filters[Max(s)])]
             iter == CHOOSE it : it = Step(it)
             fold == [s \in SUBSET (1..n) |-> FirstAndLast(filters, s)]
  <1>1. Parsed(filters) = iter[1..n]
    BY DEF Parsed, FoldLeft, MapThenFoldSet
  <1>2. fold = Step(fold)
    <2>1. ASSUME NEW s \in SUBSET (1..n)
          PROVE  fold[s] = IF s = {} THEN <<>> ELSE AppendFilter(fold[s \ {Max(s)}], filters[Max(s)])
      <3>1. CASE s = {}
        BY <3>1 DEF FirstAndLast
      <3>2. CASE s # {}
        BY <3>2, ParsedStep
      <3> QED BY <3>1, <3>2
    <2> QED BY <2>1
  <1>3. iter = Step(iter)
    <2> HIDE DEF fold, Step
    <2> QED BY <1>2
  <1>4. ASSUME NEW j \in Nat, j <= n
        PROVE  /\ 1..j \in SUBSET (1..n)
               /\ j > 0 => 1..j # {} /\ Max(1..j) = j /\ (1..j) \ {Max(1..j)} = 1..(j - 1)
    <2>1. 1..j \in SUBSET (1..n)
      BY <1>4
    <2>2. ASSUME j > 0 PROVE 1..j # {} /\ Max(1..j) = j
      <3>1. j \in 1..j
        BY <2>2
      <3>2. Max(1..j) \in 1..j /\ \A i \in 1..j : i <= Max(1..j)
        BY <2>1, <3>1, MaxIs
      <3> QED BY <3>1, <3>2
    <2>3. (1..j) \ {j} = 1..(j - 1)
      OBVIOUS
    <2> QED BY <2>1, <2>2, <2>3
  <1>5. iter[1..n] = fold[1..n]
    <2> DEFINE T == {j \in Nat : j <= n => iter[1..j] = fold[1..j]}
    <2> HIDE DEF iter, fold
    <2>1. 0 \in T
      <3>1. 1..0 = {} /\ {} \in SUBSET (1..n)
        OBVIOUS
      <3> QED BY <1>2, <1>3, <3>1
    <2>2. ASSUME NEW j \in Nat, j \in T PROVE j + 1 \in T
      <3> SUFFICES ASSUME j + 1 <= n PROVE iter[1..(j + 1)] = fold[1..(j + 1)]
        OBVIOUS
      <3> DEFINE s == 1..(j + 1)
      <3>1. s \in SUBSET (1..n) /\ s # {} /\ s \ {Max(s)} = 1..j
        BY <1>4
      <3>2. iter[1..j] = fold[1..j]
        BY <2>2
      <3> HIDE DEF s
      <3>3. iter[s] = AppendFilter(iter[1..j], filters[Max(s)])
        BY <1>3, <3>1
      <3>4. fold[s] = AppendFilter(fold[1..j], filters[Max(s)])
        BY <1>2, <3>1
      <3> QED BY <3>2, <3>3, <3>4 DEF s
    <2>3. n \in T
      <3> HIDE DEF T
      <3> QED BY <2>1, <2>2, InductionOnNat
    <2> QED BY <2>3
  <1>6. fold[1..n] = IF n = 0 THEN <<>> ELSE IF n = 1 THEN <<filters[1]>>
                     ELSE <<filters[1], filters[n]>>
    <2>1. CASE n = 0
      <3>1. 1..n = {} /\ 1..n \in SUBSET (1..n)
        BY <2>1
      <3> QED BY <2>1, <3>1 DEF FirstAndLast
    <2>2. CASE n > 0
      <3>1. 1..n # {} /\ Max(1..n) = n /\ 1..n \in SUBSET (1..n)
        BY <1>4, <2>2
      <3>2. (CHOOSE i \in 1..n : \A j \in 1..n : i <= j) = 1
        <4> DEFINE i1 == CHOOSE i \in 1..n : \A j \in 1..n : i <= j
        <4>1. 1 \in 1..n /\ \A j \in 1..n : 1 <= j
          BY <2>2
        <4>2. i1 \in 1..n /\ \A j \in 1..n : i1 <= j
          BY <4>1
        <4> HIDE DEF i1
        <4>3. i1 = 1
          BY <4>1, <4>2
        <4> QED BY <4>3 DEF i1
      <3>3. 1..n = {n} <=> n = 1
        BY <2>2
      <3>4. fold[1..n] = FirstAndLast(filters, 1..n)
        BY <3>1
      <3>5. FirstAndLast(filters, 1..n) =
              IF n = 1 THEN <<filters[1]>> ELSE <<filters[1], filters[n]>>
        <4> DEFINE all == 1..n
        <4>1. /\ all # {} /\ Max(all) = n /\ (all = {n} <=> n = 1)
              /\ (CHOOSE i \in all : \A j \in all : i <= j) = 1
          BY <3>1, <3>2, <3>3
        <4> HIDE DEF all
        <4>2. FirstAndLast(filters, all) =
                IF n = 1 THEN <<filters[1]>> ELSE <<filters[1], filters[n]>>
          <5>1. CASE n = 1
            <6>1. all = {Max(all)}
              BY <4>1, <5>1
            <6>2. FirstAndLast(filters, all) = <<filters[Max(all)]>>
              BY <4>1, <6>1 DEF FirstAndLast
            <6> QED BY <4>1, <5>1, <6>2
          <5>2. CASE n # 1
            <6>1. all # {Max(all)}
              BY <4>1, <5>2
            <6>2. FirstAndLast(filters, all) =
                    <<filters[CHOOSE i \in all : \A j \in all : i <= j], filters[Max(all)]>>
              BY <4>1, <6>1 DEF FirstAndLast
            <6> QED BY <4>1, <5>2, <6>2
          <5> QED BY <5>1, <5>2
        <4> QED BY <4>2 DEF all
      <3> HIDE DEF fold
      <3> QED BY <2>2, <3>4, <3>5
    <2> QED BY <2>1, <2>2
  <1> QED BY <1>1, <1>5, <1>6
=============================================================================
