--------------------------- MODULE SensorReadings ---------------------------
(***************************************************************************)
(* What becomes of the readings of SensorTags: the resolver modules         *)
(* (modules/resolver/ticc2541 and ticc2650), and the filter module          *)
(* (modules/filter) with the sample filters it loads                        *)
(* (samples/ble_filter_gateway/filters).  Each collects the readings of a   *)
(* tag, one message per sensor, and publishes a report once all sensors     *)
(* configured for the tag have been read.                                  *)
(*                                                                         *)
(* One module with its configuration, from its creation on.  The BLE        *)
(* modules are the environment (BleModule): they read what is configured    *)
(* again and again, a CC2541's calibration once.  The broker is, too: a     *)
(* publish for a handle it does not know returns with modules_lock kept,    *)
(* and the next one never returns (Broker).  Physical values are left out:  *)
(* a value is known by whether it was read since the last report.  So are   *)
(* content of an unexpected size, which changes nothing, and memory that    *)
(* runs out.                                                               *)
(***************************************************************************)
EXTENDS Naturals, Sequences, FiniteSets, SequencesExt

CONSTANTS
    Configurations,  \* of modules: [kind, filters], a filter being a sequence of tags
    MaxTags,
    Unasked          \* characteristics that are read although no report needs them

\* A tag, as the configuration names it: is its address written in capitals, as the BLE
\* module writes it; its chip; the sensors to be reported ("sensor-types").
Chips == {"cc2541", "cc2650"}
Kinds == Chips \cup {"filter"}

\* The characteristics each chip's dispatch table knows; "other" is one it does not.
Dispatched(chip) ==
    {"temperature", "humidity", "pressure", "movement"} \cup
    (IF chip = "cc2541" THEN {"calibration"} ELSE {"brightness"})

VARIABLES
    kind,        \* of the module
    configured,  \* the tags of its configuration
    inUse,       \* those in its list, in the list's order
    state,       \* "creating", "running", "stuck" in a publish, "crashed"
    flag,        \* for each tag in use, the values held for the next report
    since,       \* the sensors read since the last report
    calibrated,  \* tags whose calibration the BLE module has read
    report,      \* what the last step has reported: [tag, values, since, raw]
    turn,        \* for each tag configured, flips with every report that is not raw
    lock         \* modules_lock: "free" or "kept"

vars == <<kind, configured, inUse, state, flag, since, calibrated, report, turn, lock>>

Tags == 1..MaxTags
module == <<kind, configured, inUse>>

\* FILTER_ParseConfigurationFromJson appends a filter after the head of the list, which
\* loses what followed the head.
AppendFilter(list, filter) == IF list = <<>> THEN <<filter>> ELSE <<Head(list), filter>>
Parsed(filters) == FoldLeft(AppendFilter, <<>>, filters)

\* The tags of a configuration: a report asks for sensors of the tag's chip, and never for
\* the calibration.
AreTags(list) ==
    /\ list \in Seq(Range(list)) /\ Len(list) <= MaxTags
    /\ \A i \in DOMAIN list :
          /\ list[i].chip \in Chips
          /\ list[i].sensors \subseteq Dispatched(list[i].chip) \ {"calibration"}

ASSUME ConfigurationAssumption ==
    /\ MaxTags \in Nat
    /\ Unasked \subseteq {"other"} \cup UNION {Dispatched(c) : c \in Chips}
    /\ \A c \in Configurations :
          /\ c.kind \in Kinds
          /\ AreTags(FlattenSeq(c.filters)) /\ AreTags(FlattenSeq(Parsed(c.filters)))

\* The entry that takes a message of a tag: the first with its address; the filter compares
\* addresses as they are written.
Target(addr) ==
    LET found == {i \in DOMAIN inUse : inUse[i].addr = addr /\ (kind = "filter" => inUse[i].upper)}
    IN IF found = {} THEN 0 ELSE CHOOSE i \in found : \A j \in found : i <= j

NoReport == [tag |-> 0, values |-> {}, since |-> {}, raw |-> FALSE]

Init ==
    /\ \E c \in Configurations :
          /\ kind = c.kind
          /\ configured = FlattenSeq(c.filters) /\ inUse = FlattenSeq(Parsed(c.filters))
    /\ state = "creating"
    /\ flag = [i \in Tags |-> {}] /\ since = [i \in Tags |-> {}]
    /\ calibrated = {} /\ report = NoReport
    /\ turn = [i \in Tags |-> FALSE]
    /\ lock = "free"

\* The resolvers' parsers leave nextEntry of the last tag unset, and Create follows it; the
\* filter's Create calls a library's functions even if the library was not found.
Create ==
    /\ state = "creating" /\ state' \in {"running", "crashed"}
    /\ UNCHANGED <<module, flag, since, calibrated, report, turn, lock>>

-----------------------------------------------------------------------------
(* One message. *)

\* resolve_*: a CC2541's pressure needs the calibration among the values held.
Resolved(tag, held, sensor) ==
    IF sensor = "pressure" /\ tag.chip = "cc2541" /\ "calibration" \notin held
    THEN held ELSE held \cup {sensor}

Values(held) == held \ {"calibration"}

\* Mutation of Complete: exactly those configured, instead of at least those.
CompleteExactly(tag, held) == tag.sensors = held \ {"calibration"}

Complete(tag, held) == tag.sensors \subseteq held

\* Mutation of Publish: the broker knows no entry.
PublishUnknown(attached) ==
    \/ lock = "kept" /\ state' = "stuck" /\ UNCHANGED lock
    \/ lock = "free" /\ lock' = "kept" /\ UNCHANGED state

\* Broker_Publish with the handle of an entry: the module's is that of the first.
Publish(attached) ==
    \/ lock = "kept" /\ state' = "stuck" /\ UNCHANGED lock
    \/ lock = "free" /\ lock' = (IF attached THEN "free" ELSE "kept") /\ UNCHANGED state

Report(i, values, seen, raw) ==
    /\ report' = [tag |-> i, values |-> values, since |-> seen, raw |-> raw]
    /\ turn' = IF raw THEN turn
               ELSE [t \in Tags |-> IF t \in DOMAIN configured
                                       /\ configured[t].addr = inUse[i].addr
                                    THEN ~turn[t] ELSE turn[t]]

\* Nothing is reported.
Keep(i, held) ==
    /\ flag' = [flag EXCEPT ![i] = held]
    /\ report' = NoReport
    /\ UNCHANGED turn

\* TI_CC2541_Resolver_Receive publishes with the handle of the tag's entry, and starts anew
\* whether or not the broker has taken the report.
ReportTag(i, held, seen) ==
    /\ Publish(i = 1)
    /\ IF state' = "stuck" THEN Keep(i, held)
       ELSE /\ flag' = [flag EXCEPT ![i] = {}]
            /\ IF i = 1 THEN Report(i, Values(held), seen, FALSE)
               ELSE report' = NoReport /\ UNCHANGED turn

\* TICC2650_Resolve reports what it was asked to.  A characteristic unknown to it, and to
\* TICC2541_Resolve, which never leaves the loop over its table, any, is reported as it
\* came, and the JSON value freed twice.
ReportRaw(i, held, seen) ==
    /\ flag' = [flag EXCEPT ![i] = held]
    /\ \/ Report(i, {}, seen, TRUE) /\ UNCHANGED <<state, lock>>
       \/ state' = "crashed" /\ report' = NoReport /\ UNCHANGED <<turn, lock>>

\* Mutation of ReportFiltered: what has been reported stays held.
ReportFilteredAgain(i, held, seen) ==
    /\ flag' = [flag EXCEPT ![i] = held]
    /\ Report(i, held \cap inUse[i].sensors, seen, FALSE)
    /\ UNCHANGED <<state, lock>>

\* FILTER_Receive publishes for itself, whatever the tag.
ReportFiltered(i, held, seen) ==
    /\ flag' = [flag EXCEPT ![i] = {}]
    /\ Report(i, held \cap inUse[i].sensors, seen, FALSE)
    /\ UNCHANGED <<state, lock>>

\* The module's Receive.  TI_CC2650_Resolver_Receive leaves the loop over its table as soon
\* as an entry has taken the message, and what publishes is behind that exit.
Receive(i, sensor) ==
    LET tag == inUse[i]
        known == sensor \in Dispatched(tag.chip)
        seen == since[i] \cup {sensor}
        held == IF known THEN Resolved(tag, flag[i], sensor) ELSE flag[i]
    IN CASE kind = "filter" /\ (tag.chip = "cc2541" \/ ~known) -> ReportRaw(i, held, seen)
         [] kind = "filter" /\ tag.chip = "cc2650" /\ known /\ Complete(tag, held) ->
               ReportFiltered(i, held, seen)
         [] kind = "cc2541" /\ known /\ Complete(tag, held) -> ReportTag(i, held, seen)
         [] OTHER -> Keep(i, held) /\ UNCHANGED <<state, lock>>

\* The BLE module has read a characteristic of a configured tag.
Reading(t, sensor) ==
    /\ state = "running" /\ t \in DOMAIN configured
    /\ LET tag == configured[t]
           i == Target(tag.addr)
       IN /\ sensor = "calibration" => tag.chip = "cc2541" /\ t \notin calibrated
          /\ calibrated' = IF sensor = "calibration" THEN calibrated \cup {t} ELSE calibrated
          /\ IF i = 0 THEN report' = NoReport /\ UNCHANGED <<state, flag, since, turn, lock>>
             ELSE /\ Receive(i, sensor)
                  /\ since' = [since EXCEPT ![i] = IF turn' # turn THEN {} ELSE @ \cup {sensor}]
    /\ UNCHANGED module

Next ==
    \/ Create
    \/ \E t \in DOMAIN configured :
          \E sensor \in configured[t].sensors \cup {"calibration"} \cup Unasked : Reading(t, sensor)

Periodic(t, sensor) ==
    /\ t \in DOMAIN configured /\ sensor \in configured[t].sensors \cup {"calibration"}
    /\ Reading(t, sensor)

\* The gateway creates the module; the BLE modules read what is configured periodically,
\* and the calibration once.
Fairness ==
    /\ WF_vars(Create)
    /\ \A t \in Tags : \A sensor \in {"calibration"} \cup UNION {Dispatched(c) : c \in Chips} :
          WF_vars(Periodic(t, sensor))

Spec == Init /\ [][Next]_vars /\ Fairness

-----------------------------------------------------------------------------

TypeOK ==
    /\ kind \in Kinds
    /\ state \in {"creating", "running", "stuck", "crashed"}
    /\ \A i \in Tags : flag[i] \cup since[i] \subseteq {"other"} \cup UNION {Dispatched(c) : c \in Chips}
    /\ calibrated \subseteq Tags /\ lock \in {"free", "kept"}

\* modules_lock is kept only once a resolver module has reported for a tag other than the
\* first of its list, whose entry the broker does not know, and the module is stuck only
\* behind that; only the filter crashes on what it receives.
LockKeptBySecondTag ==
    /\ lock = "kept" => kind = "cc2541" /\ Len(inUse) > 1 /\ report.tag # 1
    /\ state = "stuck" => lock = "kept"
    /\ (state = "crashed" /\ \E i \in Tags : since[i] # {}) => kind = "filter"

ReadingsInv == TypeOK /\ LockKeptBySecondTag

\* A report has every sensor configured for its tag, each read since the tag's last
\* report, in whatever order and interleaved with whichever other tags, and a CC2541's
\* pressure only after its calibration.
ReportsFresh ==
    (report.tag # 0 /\ ~report.raw) =>
       LET tag == inUse[report.tag]
       IN /\ tag.sensors \subseteq report.values
          /\ report.values \subseteq report.since
          /\ (tag.chip = "cc2541" /\ "pressure" \in report.values) =>
                \E t \in calibrated : configured[t].addr = tag.addr

Reported(t) == turn[t] # turn'[t]
KeepsBeingReported(t) == []<><<Reported(t)>>_vars

\* Why a tag may fall silent: the process or the worker is lost; a CC2541's report gives
\* up the calibration too, which is read once, and the filter for it reports raw only; the
\* CC2650 module never reports; the filter's list has lost the tag, or spells it otherwise.
Silent(t) ==
    \/ t \notin DOMAIN configured
    \/ state \in {"crashed", "stuck"} \/ lock = "kept"
    \/ LET tag == configured[t]
       IN \/ tag.chip = "cc2541" /\ (kind = "filter" \/ "pressure" \in tag.sensors)
          \/ kind = "cc2650"
          \/ Target(tag.addr) = 0

\* While its sensors are read again and again, a tag is reported again and again, but for
\* the reasons above.
KeepsReporting == \A t \in Tags : KeepsBeingReported(t) \/ <>[]Silent(t)

\* What the samples' readme says of both chips (ble_json_gateway/src/readme.md:8, 10, 44).
EveryTagReports ==
    \A t \in Tags :
       KeepsBeingReported(t) \/ <>[](t \notin DOMAIN configured \/ state = "crashed")
=============================================================================
