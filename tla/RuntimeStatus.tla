---------------------------- MODULE RuntimeStatus ----------------------------
(***************************************************************************)
(* runtime_status of a GATEWAY_HANDLE: the threads that call               *)
(* Gateway_UpdateFromJson take turns by it, and gateway_destroy_internal   *)
(* waits by it until IoT Hub has been told that the gateway ends.          *)
(*                                                                         *)
(* The IoT Hub client is external: one thread of its own calls, one after  *)
(* the other, gateway_deviceTwinCallback for every change of the desired   *)
(* properties and reportedStateCallback when the reported state was sent,  *)
(* and IoTHubClient_Destroy joins that thread.                             *)
(***************************************************************************)
EXTENDS Naturals

CONSTANTS
    Hub,              \* the thread of the IoT Hub client
    Callers,          \* threads of the application that update the gateway
    MaxUpdates,       \* bound: updates begun in a behaviour
    Answers,          \* whether the hub answers the reported state: a subset of BOOLEAN
    LateChanges       \* whether the twin may change while the gateway is destroyed

Threads == Callers \cup {Hub}

ASSUME RuntimeAssumption ==
    /\ Hub \notin Callers
    /\ MaxUpdates \in Nat
    /\ Answers \subseteq BOOLEAN /\ Answers # {}
    /\ LateChanges \in BOOLEAN

VARIABLES
    status,   \* gw->runtime_status
    pc,       \* pc[t]: "idle", "spin" or "update"
    main,     \* where gateway_destroy_internal is
    report,   \* the reported state: "none", "sent", "lost", "answered"
    updates   \* updates begun

vars == <<status, pc, main, report, updates>>

TypeOK ==
    /\ status \in {"running", "updating", "updated", "terminated"}
    /\ pc \in [Threads -> {"idle", "spin", "update"}]
    /\ main \in {"no", "send", "wait", "join", "free", "done"}
    /\ report \in {"none", "sent", "lost", "answered"}
    /\ updates \in 0..MaxUpdates
    /\ status = "updating" => \E t \in Threads : pc[t] = "update"

\* Gateway_CreateFromJson has started the gateway and registered the twin callback.
Init ==
    /\ status = "running"
    /\ pc = [t \in Threads |-> "idle"]
    /\ main = "no" /\ report = "none" /\ updates = 0

Destroying == main # "no"

\* A change of the twin, while the client is there; an application calls
\* Gateway_UpdateFromJson only with a gateway that is not being destroyed.
BeginUpdate(t) ==
    /\ pc[t] = "idle"
    /\ updates < MaxUpdates /\ updates' = updates + 1
    /\ Destroying => t = Hub /\ LateChanges /\ main \in {"send", "wait"}
    /\ pc' = [pc EXCEPT ![t] = "spin"]
    /\ UNCHANGED <<status, main, report>>

\* Mutation of EnterUpdate: the status is not looked at.
EnterUpdateUnchecked(t) ==
    /\ pc[t] = "spin"
    /\ status' = "updating"
    /\ pc' = [pc EXCEPT ![t] = "update"]
    /\ UNCHANGED <<main, report, updates>>

\* Under update_lock: status # UPDATING, status := UPDATING.  While it is UPDATING the
\* thread tries again.
EnterUpdate(t) ==
    /\ pc[t] = "spin" /\ status # "updating"
    /\ status' = "updating"
    /\ pc' = [pc EXCEPT ![t] = "update"]
    /\ UNCHANGED <<main, report, updates>>

\* Mutation of EndUpdate: the status is left.
EndUpdateKeepsStatus(t) ==
    /\ pc[t] = "update"
    /\ pc' = [pc EXCEPT ![t] = "idle"]
    /\ UNCHANGED <<status, main, report, updates>>

\* Under update_lock: status := UPDATED, however the update went
EndUpdate(t) ==
    /\ pc[t] = "update"
    /\ status' = "updated"
    /\ pc' = [pc EXCEPT ![t] = "idle"]
    /\ UNCHANGED <<main, report, updates>>

\* gateway_destroy_internal, called when the application updates no more: status :=
\* RUNNING, without the lock ...
Destroy ==
    /\ main = "no" /\ \A t \in Callers : pc[t] = "idle"
    /\ status' = "running" /\ main' = "send"
    /\ UNCHANGED <<pc, report, updates>>

\* ... and the reported state is sent.
SendReportedState ==
    /\ main = "send" /\ main' = "wait"
    /\ \E answered \in Answers : report' = IF answered THEN "sent" ELSE "lost"
    /\ UNCHANGED <<status, pc, updates>>

\* Mutation of ReportedStateCallback: the callback does nothing.
ReportedStateIgnored ==
    /\ report = "sent" /\ pc[Hub] = "idle"
    /\ report' = "answered"
    /\ UNCHANGED <<status, pc, main, updates>>

\* Under update_lock: status := TERMINATED
ReportedStateCallback ==
    /\ report = "sent" /\ pc[Hub] = "idle"
    /\ report' = "answered" /\ status' = "terminated"
    /\ UNCHANGED <<pc, main, updates>>

\* The status is looked at once a second.
StatusTerminated ==
    /\ main = "wait" /\ status = "terminated"
    /\ main' = "join"
    /\ UNCHANGED <<status, pc, report, updates>>

\* Mutation of ClientDestroyed: the client's thread is not joined.
ClientAbandoned ==
    /\ main = "join"
    /\ main' = "free"
    /\ UNCHANGED <<status, pc, report, updates>>

\* IoTHubClient_Destroy: its thread is joined.
ClientDestroyed ==
    /\ main = "join" /\ pc[Hub] = "idle"
    /\ main' = "free"
    /\ UNCHANGED <<status, pc, report, updates>>

\* The links, the modules, the broker and the handle go.
GatewayFreed ==
    /\ main = "free" /\ main' = "done"
    /\ UNCHANGED <<status, pc, report, updates>>

UpdateStep(t) == EnterUpdate(t) \/ EndUpdate(t)
DestroyStep == SendReportedState \/ StatusTerminated \/ ClientDestroyed \/ GatewayFreed

Next ==
    \/ \E t \in Threads : BeginUpdate(t) \/ UpdateStep(t)
    \/ Destroy \/ DestroyStep \/ ReportedStateCallback

Spec == Init /\ [][Next]_vars

\* Threads run and an update comes to its end; nobody has to update or destroy.
FairSpec ==
    /\ Spec
    /\ \A t \in Threads : WF_vars(UpdateStep(t))
    /\ WF_vars(DestroyStep) /\ WF_vars(ReportedStateCallback)
-----------------------------------------------------------------------------
\* Two updates never change the registry at the same time ...
OneUpdate == \A t, u \in Threads : pc[t] = "update" /\ pc[u] = "update" => t = u

\* ... and none does, or is about to, once the gateway is being freed.
FreedAlone == main \in {"free", "done"} => \A t \in Threads : pc[t] = "idle"

\* An update that waits for its turn gets it once no new ones keep coming (their
\* number is bounded here): the turn is a status that the threads poll, and a thread
\* that is always late at it would wait for ever.
UpdateServed == \A t \in Threads : pc[t] = "spin" ~> pc[t] = "update"

\* Gateway_Destroy returns.
DestroyReturns == Destroying ~> main = "done"

\* What the code does achieve: when the hub answers, Gateway_Destroy returns unless an
\* update that ends late writes over TERMINATED before the once-a-second look at it.
Overwritten == main = "wait" /\ report = "answered" /\ status \in {"updating", "updated"}
DestroyReturnsUnlessOverwritten == Destroying ~> (main = "done" \/ Overwritten)
=============================================================================
