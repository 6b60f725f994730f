------------------------ MODULE RuntimeStatus_proofs ------------------------
(***************************************************************************)
(* Updates take turns, and a gateway is freed alone, for any number of     *)
(* updating threads and any behaviour of the hub.                          *)
(***************************************************************************)
EXTENDS RuntimeStatus, TLAPS

\* Who updates holds the status; only gateway_destroy_internal, which writes it without
\* asking, can take it away, and then from the hub's thread alone, because ...
TurnInv == \A t \in Threads : pc[t] = "update" => status = "updating" \/ (Destroying /\ t = Hub)

\* ... the application has stopped.
CallersGone == Destroying => \A t \in Callers : pc[t] = "idle"

\* The hub is told of the end by gateway_destroy_internal alone.
ReportInv == report # "none" => Destroying

IInv == TypeOK /\ TurnInv /\ CallersGone /\ ReportInv /\ OneUpdate /\ FreedAlone

LEMMA InitIInv == Init => IInv
  BY RuntimeAssumption
     DEF Init, IInv, TypeOK, TurnInv, CallersGone, ReportInv, OneUpdate, FreedAlone, Destroying,
         Threads

\* While the gateway is destroyed only the hub's thread can be in an update.
LEMMA HubAlone ==
  ASSUME IInv, Destroying, NEW t \in Threads, pc[t] # "idle"
  PROVE  t = Hub
  BY DEF IInv, CallersGone, Threads

\* Every step preserves the invariant.
LEMMA NextIInv == IInv /\ [Next]_vars => IInv'
<1> SUFFICES ASSUME IInv, [Next]_vars PROVE IInv'
  OBVIOUS
<1> USE RuntimeAssumption DEF IInv, Threads
<1>1. ASSUME NEW t \in Threads, BeginUpdate(t) PROVE IInv'
  <2>1. TypeOK'
    <3>1. updates' \in 0..MaxUpdates
      BY <1>1 DEF BeginUpdate, TypeOK
    <3> QED
      BY <1>1, <3>1 DEF BeginUpdate, TypeOK
  <2>2. TurnInv' /\ OneUpdate' /\ ReportInv'
    BY <1>1 DEF BeginUpdate, TurnInv, OneUpdate, ReportInv, TypeOK, Destroying
  <2>3. CallersGone' /\ FreedAlone'
    BY <1>1 DEF BeginUpdate, CallersGone, FreedAlone, TypeOK, Destroying
  <2> QED
    BY <2>1, <2>2, <2>3
<1>2. ASSUME NEW t \in Threads, EnterUpdate(t) PROVE IInv'
  <2>1. \A u \in Threads : pc[u] # "update"
    <3>1. SUFFICES ASSUME NEW u \in Threads, pc[u] = "update" PROVE FALSE
      OBVIOUS
    <3>2. Destroying /\ u = Hub
      BY <1>2, <3>1 DEF EnterUpdate, TurnInv
    <3>3. t = Hub
      BY <1>2, <3>2, HubAlone DEF EnterUpdate
    <3> QED
      BY <1>2, <3>1, <3>2, <3>3 DEF EnterUpdate
  <2>2. TypeOK'
    BY <1>2 DEF EnterUpdate, TypeOK
  <2>3. TurnInv' /\ OneUpdate' /\ ReportInv'
    BY <1>2, <2>1 DEF EnterUpdate, TurnInv, OneUpdate, ReportInv, TypeOK, Destroying
  <2>4. CallersGone' /\ FreedAlone'
    BY <1>2 DEF EnterUpdate, CallersGone, FreedAlone, TypeOK, Destroying
  <2> QED
    BY <2>2, <2>3, <2>4
<1>3. ASSUME NEW t \in Threads, EndUpdate(t) PROVE IInv'
  <2>1. \A u \in Threads : u # t => pc[u] # "update"
    BY <1>3 DEF EndUpdate, OneUpdate
  <2>2. TypeOK'
    BY <1>3 DEF EndUpdate, TypeOK
  <2>3. TurnInv' /\ OneUpdate' /\ ReportInv'
    BY <1>3, <2>1 DEF EndUpdate, TurnInv, OneUpdate, ReportInv, TypeOK, Destroying
  <2>4. CallersGone' /\ FreedAlone'
    BY <1>3 DEF EndUpdate, CallersGone, FreedAlone, TypeOK, Destroying
  <2> QED
    BY <2>2, <2>3, <2>4
<1>4. CASE Destroy
  BY <1>4 DEF Destroy, TypeOK, TurnInv, CallersGone, ReportInv, OneUpdate, FreedAlone, Destroying
<1>5. CASE SendReportedState
  <2>1. TypeOK'
    BY <1>5 DEF SendReportedState, TypeOK
  <2> QED
    BY <1>5, <2>1
       DEF SendReportedState, TurnInv, CallersGone, ReportInv, OneUpdate, FreedAlone, Destroying
<1>6. CASE StatusTerminated
  BY <1>6 DEF StatusTerminated, TypeOK, TurnInv, CallersGone, ReportInv, OneUpdate, FreedAlone,
              Destroying
<1>7. CASE ClientDestroyed
  <2>1. \A t \in Threads : pc[t] = "idle"
    BY <1>7, HubAlone DEF ClientDestroyed, Destroying
  <2> QED
    BY <1>7, <2>1 DEF ClientDestroyed, TypeOK, TurnInv, CallersGone, ReportInv, OneUpdate,
                      FreedAlone, Destroying
<1>8. CASE GatewayFreed
  BY <1>8 DEF GatewayFreed, TypeOK, TurnInv, CallersGone, ReportInv, OneUpdate, FreedAlone,
              Destroying
<1>9. CASE ReportedStateCallback
  <2>1. Destroying
    BY <1>9 DEF ReportedStateCallback, ReportInv
  <2>2. \A t \in Threads : pc[t] # "update"
    BY <1>9, <2>1, HubAlone DEF ReportedStateCallback
  <2> QED
    BY <1>9, <2>1, <2>2 DEF ReportedStateCallback, TypeOK, TurnInv, CallersGone, ReportInv,
                            OneUpdate, FreedAlone, Destroying
<1>10. CASE UNCHANGED vars
  BY <1>10 DEF vars, TypeOK, TurnInv, CallersGone, ReportInv, OneUpdate, FreedAlone, Destroying
<1> QED
  BY <1>1, <1>2, <1>3, <1>4, <1>5, <1>6, <1>7, <1>8, <1>9, <1>10
     DEF Next, UpdateStep, DestroyStep

LEMMA SpecIInv == Spec => []IInv
  BY InitIInv, NextIInv, PTL DEF Spec

\* The status is one of its four values, and "updating" only while a thread updates.
THEOREM TypeCorrect == Spec => []TypeOK
  BY SpecIInv, PTL DEF IInv

\* At most one thread is in Gateway_UpdateFromJson's update at a time, although
\* gateway_destroy_internal overwrites the status without the lock.
THEOREM UpdatesTakeTurns == Spec => []OneUpdate
  BY SpecIInv, PTL DEF IInv

\* When gateway_destroy_internal frees the registry, no update is going on and none
\* waits for its turn.
THEOREM GatewayFreedAlone == Spec => []FreedAlone
  BY SpecIInv, PTL DEF IInv
-----------------------------------------------------------------------------
(* What there is of DestroyReturns without fairness: the answer of the hub is  *)
(* seen by the waiting thread unless something writes over it, and only an     *)
(* update that a late change of the twin began can.                            *)
AnswerKept == report = "answered" => status # "running"

LEMMA NextAnswerKept == IInv /\ AnswerKept /\ [Next]_vars => AnswerKept'
<1> SUFFICES ASSUME IInv, AnswerKept, [Next]_vars PROVE AnswerKept'
  OBVIOUS
<1>1. ASSUME NEW t \in Threads, BeginUpdate(t) \/ EnterUpdate(t) \/ EndUpdate(t)
      PROVE  AnswerKept'
  BY <1>1 DEF BeginUpdate, EnterUpdate, EndUpdate, AnswerKept
<1>2. CASE Destroy
  BY <1>2 DEF Destroy, AnswerKept, IInv, ReportInv, Destroying
<1>3. CASE DestroyStep
  BY <1>3 DEF DestroyStep, SendReportedState, StatusTerminated, ClientDestroyed, GatewayFreed,
              AnswerKept
<1>4. CASE ReportedStateCallback \/ UNCHANGED vars
  BY <1>4 DEF ReportedStateCallback, vars, AnswerKept
<1> QED
  BY <1>1, <1>2, <1>3, <1>4 DEF Next, UpdateStep

\* When the hub has answered, the once-a-second look of gateway_destroy_internal ends the
\* wait, or an update has written over TERMINATED: there is no third way to miss it.
THEOREM AnswerSeenUnlessOverwritten ==
  Spec => [](main = "wait" /\ report = "answered" => status = "terminated" \/ Overwritten)
<1>1. Init => AnswerKept
  BY DEF Init, AnswerKept
<1>2. IInv /\ AnswerKept => (main = "wait" /\ report = "answered" => status = "terminated" \/ Overwritten)
  BY DEF IInv, TypeOK, AnswerKept, Overwritten
<1> QED
  BY <1>1, <1>2, SpecIInv, NextAnswerKept, PTL DEF Spec

\* The hub's thread answers between two of its updates.
AnswerFinal == report = "answered" => pc[Hub] = "idle" /\ status = "terminated"

\* If the twin does not change while the gateway is destroyed, nothing writes over
\* TERMINATED: an update that was going on when the destruction began has set UPDATED
\* before the hub's thread can bring the answer.
THEOREM OnlyLateChangesOverwrite ==
  ASSUME ~LateChanges
  PROVE  Spec => []~Overwritten
<1>1. Init => AnswerFinal
  BY DEF Init, AnswerFinal
<1>2. IInv /\ AnswerFinal /\ [Next]_vars => AnswerFinal'
  <2> SUFFICES ASSUME IInv, AnswerFinal, [Next]_vars PROVE AnswerFinal'
    OBVIOUS
  <2>1. ASSUME NEW t \in Threads, BeginUpdate(t) \/ EnterUpdate(t) \/ EndUpdate(t)
        PROVE  AnswerFinal'
    <3>1. report' = report
      BY <2>1 DEF BeginUpdate, EnterUpdate, EndUpdate
    <3>2. CASE report = "answered"
      <4>1. Destroying
        BY <3>2 DEF IInv, ReportInv
      <4>2. ~BeginUpdate(t)
        BY <4>1 DEF BeginUpdate
      <4>3. pc[t] # "idle"
        BY <2>1, <4>2 DEF EnterUpdate, EndUpdate
      <4>4. t = Hub
        BY <4>1, <4>3, HubAlone
      <4> QED BY <3>2, <4>3, <4>4 DEF AnswerFinal
    <3> QED BY <3>1, <3>2 DEF AnswerFinal
  <2>2. CASE Destroy
    BY <2>2 DEF Destroy, AnswerFinal, IInv, ReportInv, Destroying
  <2>3. CASE DestroyStep
    BY <2>3 DEF DestroyStep, SendReportedState, StatusTerminated, ClientDestroyed, GatewayFreed,
                AnswerFinal
  <2>4. CASE ReportedStateCallback \/ UNCHANGED vars
    BY <2>4 DEF ReportedStateCallback, vars, AnswerFinal
  <2> QED
    BY <2>1, <2>2, <2>3, <2>4 DEF Next, UpdateStep
<1>3. AnswerFinal => ~Overwritten
  BY DEF AnswerFinal, Overwritten
<1> QED
  BY <1>1, <1>2, <1>3, SpecIInv, PTL DEF Spec
=============================================================================
