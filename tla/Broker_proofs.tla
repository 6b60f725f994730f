--------------------------- MODULE Broker_proofs ---------------------------
(***************************************************************************)
(* TLAPS proofs about Broker: typing, the lifetime of BROKER_MODULEINFO    *)
(* and of its socket, the release of modules_lock, the exclusion of        *)
(* nn_close and nn_recv; and about what the modules of a gateway see of    *)
(* it: a link keeps its subscription, every sink receives in the one order *)
(* of publication, and Broker implements MessageBus.                       *)
(***************************************************************************)
EXTENDS Broker, TLAPS

\* What Send leaves in the sockets is a function of the right type.
LEMMA SendType ==
  ASSUME NEW msg \in Msg, rcvq \in [Fds -> Seq(Msg)]
  PROVE  Send(msg) \in [Fds -> Seq(Msg)]
  BY DEF Send

LEMMA QuitType == ASSUME NEW m \in Modules PROVE Quit(m) \in Msg
  BY DEF Quit, Msg, Kinds

\* The worker actions that take a message off the socket keep it typed.
LEMMA FirstType ==
  ASSUME NEW m \in Modules, TypeOK, fd[m] \in Fds, rcvq[fd[m]] # <<>>
  PROVE  /\ First(m) \in Msg
         /\ [rcvq EXCEPT ![fd[m]] = Tail(@)] \in [Fds -> Seq(Msg)]
  <1>1. rcvq[fd[m]] \in Seq(Msg)
    BY DEF TypeOK
  <1>2. Head(rcvq[fd[m]]) \in Msg /\ Tail(rcvq[fd[m]]) \in Seq(Msg)
    BY <1>1
  <1>3. QED
    BY <1>2 DEF TypeOK, First

-----------------------------------------------------------------------------
(* The inductive invariant.                                                *)

\* A caller in the middle of Broker_RemoveModule holds modules_lock, and the
\* module it removes is still in the list.
LockInv ==
    /\ modulesLock \notin Modules
    /\ \A c \in Callers : cpc[c] # "idle" => modulesLock = c /\ cmod[c] \in modules

\* Only the socket of the module being joined is closed, no two modules have the
\* same socket, and one that is not attached has none.
SocketInv ==
    /\ \A m \in modules : sock[fd[m]] = "closed" => \E c \in Callers : cpc[c] = "join" /\ cmod[c] = m
    /\ \A m, n \in modules : fd[m] = fd[n] => m = n
    /\ \A m \in Modules \ modules : fd[m] = NoFd

\* A worker that runs, and not on a freed BROKER_MODULEINFO, is that of a module in the list.
RunsAttached == \A m \in Modules : wpc[m] \notin {"exited", "freed"} => m \in modules

\* The worker holds its socket lock for as long as it is in nn_recv.
RecvInv == \A m \in Modules : wpc[m] = "recv" => ~SocketLockFree(m)

IInv == TypeOK /\ RunsAttached /\ LockInv /\ SocketInv /\ RecvInv

LEMMA InitInv == Init => IInv
  BY ThreadAssumption, BoundAssumption
     DEF Init, IInv, TypeOK, RunsAttached, LockInv, SocketInv, RecvInv, WorkerStates,
         CallerStates, Threads

\* With modules_lock free nobody is removing, so every attached socket is open.
LEMMA FreeLock ==
  ASSUME IInv, modulesLock = NoThread
  PROVE  /\ \A c \in Callers : cpc[c] = "idle"
         /\ \A m \in modules : fd[m] \in Fds /\ sock[fd[m]] = "open"
  <1>1. \A c \in Callers : cpc[c] = "idle"
    BY ThreadAssumption DEF IInv, LockInv
  <1>2. ASSUME NEW m \in modules
        PROVE  fd[m] \in Fds /\ sock[fd[m]] = "open"
    <2>1. fd[m] \in Fds /\ sock[fd[m]] \in {"open", "closed"}
      BY DEF IInv, TypeOK
    <2>2. sock[fd[m]] # "closed"
      BY <1>1 DEF IInv, SocketInv
    <2>3. QED
      BY <2>1, <2>2
  <1>3. QED
    BY <1>1, <1>2

\* A running worker has a socket.
LEMMA WorkerHasSocket ==
  ASSUME IInv, NEW m \in Modules, wpc[m] \notin {"exited", "freed"}
  PROVE  m \in modules /\ fd[m] \in Fds
  BY DEF IInv, TypeOK, RunsAttached

-----------------------------------------------------------------------------
LEMMA AddModuleInv ==
  ASSUME IInv, NEW c \in Callers, NEW m \in Modules, AddModule(c, m)
  PROVE  IInv'
  <1>1. PICK f \in Fds : /\ sock[f] = "closed"
                         /\ fd' = [fd EXCEPT ![m] = f]
                         /\ sock' = [sock EXCEPT ![f] = "open"]
                         /\ subs' = [subs EXCEPT ![f] = {<<"quit", m>>}]
                         /\ rcvq' = [rcvq EXCEPT ![f] = <<>>]
    BY DEF AddModule
  <1>2. \A n \in modules : fd[n] \in Fds /\ sock[fd[n]] = "open" /\ fd[n] # f
    BY <1>1, FreeLock DEF AddModule
  <1>3. TypeOK'
    <2>1. <<>> \in Seq(Msg)
      OBVIOUS
    <2>2. {<<"quit", m>>} \in SUBSET (Kinds \X Modules)
      BY DEF Kinds
    <2>3. QED
      BY <1>1, <1>2, <2>1, <2>2 DEF IInv, TypeOK, AddModule, WorkerStates
  <1>4. RunsAttached'
    BY DEF IInv, TypeOK, RunsAttached, AddModule
  <1>5. LockInv'
    BY DEF IInv, LockInv, AddModule
  <1>6. SocketInv'
    BY <1>1, <1>2 DEF IInv, TypeOK, AddModule, SocketInv
  <1>7. RecvInv'
    BY DEF IInv, TypeOK, RecvInv, AddModule, SocketLockFree
  <1>8. QED
    BY <1>3, <1>4, <1>5, <1>6, <1>7 DEF IInv

LEMMA LinkInv ==
  ASSUME IInv, NEW c \in Callers, NEW l \in Routes,
         AddLink(c, l[1], l[2]) \/ RemoveLink(c, l[1], l[2])
  PROVE  IInv'
  <1>1. l[1] \in Modules /\ l[2] \in Modules /\ l = <<l[1], l[2]>>
    BY ThreadAssumption
  <1>2. CASE AddLink(c, l[1], l[2])
    <2>1. fd[l[2]] \in Fds /\ <<"data", l[1]>> \in Kinds \X Modules
      BY <1>1, <1>2 DEF AddLink, IInv, TypeOK, Kinds
    <2>2. TypeOK'
      BY <1>1, <1>2, <2>1 DEF AddLink, IInv, TypeOK
    <2>3. QED
      BY <1>2, <2>2 DEF AddLink, IInv, RunsAttached, LockInv, SocketInv, RecvInv,
                        SocketLockFree
  <1>3. CASE RemoveLink(c, l[1], l[2])
    BY <1>3 DEF RemoveLink, IInv, TypeOK, RunsAttached, LockInv, SocketInv, RecvInv,
                SocketLockFree
  <1>4. QED
    BY <1>2, <1>3

LEMMA PublishInv ==
  ASSUME IInv, NEW s \in Modules, PublishData(s),
         UNCHANGED <<modules, modulesLock, fd, socketLock, sock, subs, cpc, cmod, removals,
                     last, linked>>,
         wpc' \in [Modules -> WorkerStates],
         \A m \in Modules : (wpc'[m] = "exited" <=> wpc[m] = "exited")
                            /\ (wpc'[m] = "recv" <=> wpc[m] = "recv")
                            /\ (wpc'[m] = "freed" <=> wpc[m] = "freed")
  PROVE  IInv'
  <1> DEFINE msg == [kind |-> "data", src |-> s, id |-> published + 1]
  <1>1. msg \in Msg /\ published' \in Nat
    BY DEF Msg, Kinds, IInv, TypeOK, PublishData
  <1>2. Send(msg) \in [Fds -> Seq(Msg)]
    BY <1>1, SendType DEF IInv, TypeOK
  <1>3. rcvq' \in [Fds -> Seq(Msg)]
    BY <1>2 DEF PublishData
  <1>4. TypeOK'
    BY <1>1, <1>3 DEF IInv, TypeOK
  <1>5. QED
    BY <1>4 DEF IInv, RunsAttached, LockInv, SocketInv, RecvInv, SocketLockFree

LEMMA RemoveModuleInv ==
  ASSUME IInv, NEW c \in Callers, NEW m \in Modules,
         RemoveModule(c, m) \/ RemoveModuleHarshly(c, m)
  PROVE  IInv'
  <1>1. /\ \A d \in Callers : cpc[d] = "idle"
        /\ fd[m] \in Fds
        /\ m \in modules
        /\ modulesLock = NoThread /\ modulesLock' = c
        /\ cmod' = [cmod EXCEPT ![c] = m]
        /\ UNCHANGED <<modules, fd, socketLock, wpc, published, last>>
        /\ removals' = removals + 1
        /\ linked' \subseteq linked
    BY FreeLock DEF RemoveModule, RemoveModuleHarshly
  <1>2. cpc' \in [Callers -> CallerStates] /\ cpc'[c] # "idle"
        /\ \A d \in Callers : d # c => cpc'[d] = cpc[d]
    <2>1. PICK v \in {"stop", "join"} : cpc' = [cpc EXCEPT ![c] = v]
      BY DEF RemoveModule, RemoveModuleHarshly
    <2>2. cpc \in [Callers -> CallerStates]
      BY DEF IInv, TypeOK
    <2>3. QED
      BY <2>1, <2>2 DEF CallerStates
  <1>3. rcvq' \in [Fds -> Seq(Msg)]
    <2>1. CASE RemoveModule(c, m)
      BY <2>1, QuitType, SendType DEF RemoveModule, IInv, TypeOK
    <2>2. CASE RemoveModuleHarshly(c, m)
      <3>1. <<>> \in Seq(Msg)
        OBVIOUS
      <3>2. QED
        BY <2>2, <3>1 DEF RemoveModuleHarshly, Close, IInv, TypeOK
    <2>3. QED
      BY <2>1, <2>2
  <1>4. /\ sock' \in [Fds -> {"open", "closed"}]
        /\ subs' \in [Fds -> SUBSET (Kinds \X Modules)]
        /\ \A f \in Fds : f # fd[m] => sock'[f] = sock[f]
        /\ sock'[fd[m]] = "closed" => cpc'[c] = "join"
    <2>1. CASE RemoveModule(c, m)
      BY <1>1, <2>1, FreeLock DEF RemoveModule, IInv, TypeOK
    <2>2. CASE RemoveModuleHarshly(c, m)
      BY <1>1, <2>2 DEF RemoveModuleHarshly, Close, IInv, TypeOK
    <2>3. QED
      BY <2>1, <2>2
  <1>5. TypeOK'
    <2>1. modulesLock' \in Threads \cup {NoThread} /\ removals' \in Nat
      BY <1>1 DEF IInv, TypeOK, Threads
    <2>2. cmod' \in [Callers -> Modules \cup {NoThread}]
      BY <1>1 DEF IInv, TypeOK
    <2>3. linked' \subseteq Modules \X Modules
      <3>1. linked \subseteq Modules \X Modules
        BY DEF IInv, TypeOK
      <3>2. QED
        BY <1>1, <3>1
    <2>4. QED
      BY <1>1, <1>2, <1>3, <1>4, <2>1, <2>2, <2>3 DEF IInv, TypeOK
  <1>6. LockInv'
    BY <1>1, <1>2, ThreadAssumption DEF IInv, TypeOK, LockInv
  <1>7. SocketInv'
    <2>1. ASSUME NEW n \in modules, sock'[fd[n]] = "closed"
          PROVE  cpc'[c] = "join" /\ cmod'[c] = n
      BY <1>1, <1>4, <2>1, FreeLock DEF IInv, TypeOK, SocketInv
    <2>2. QED
      BY <1>1, <2>1 DEF IInv, SocketInv
  <1>8. QED
    BY <1>1, <1>5, <1>6, <1>7 DEF IInv, RunsAttached, RecvInv, SocketLockFree

LEMMA StopModuleInv ==
  ASSUME IInv, NEW c \in Callers, StopModule(c)
  PROVE  IInv'
  <1> DEFINE m == cmod[c]
  <1>1. m \in modules /\ m \in Modules /\ fd[m] \in Fds /\ cpc[c] = "stop"
    BY DEF StopModule, IInv, TypeOK, LockInv
  <1>2. TypeOK'
    <2>1. <<>> \in Seq(Msg) /\ "join" \in CallerStates
      BY DEF CallerStates
    <2>2. QED
      BY <1>1, <2>1 DEF StopModule, Close, IInv, TypeOK
  <1>3. SocketInv'
    <2>1. ASSUME NEW n \in modules, sock'[fd[n]] = "closed"
          PROVE  \E d \in Callers : cpc'[d] = "join" /\ cmod'[d] = n
      <3>1. CASE n = m
        BY <1>1, <3>1 DEF StopModule, IInv, TypeOK
      <3>2. CASE n # m
        <4>1. sock[fd[n]] = "closed"
          BY <1>1, <2>1, <3>2 DEF StopModule, Close, IInv, TypeOK, SocketInv
        <4>2. PICK d \in Callers : cpc[d] = "join" /\ cmod[d] = n
          BY <4>1 DEF IInv, SocketInv
        <4>3. QED
          BY <1>1, <4>2 DEF StopModule, IInv, TypeOK
      <3>3. QED
        BY <3>1, <3>2
    <2>2. QED
      BY <2>1 DEF StopModule, IInv, SocketInv
  <1>4. LockInv'
    BY <1>1 DEF StopModule, IInv, TypeOK, LockInv
  <1>5. QED
    BY <1>2, <1>3, <1>4 DEF StopModule, IInv, RunsAttached, RecvInv, SocketLockFree

LEMMA JoinModuleInv ==
  ASSUME IInv, NEW c \in Callers, JoinModule(c) \/ JoinModuleFails(c)
  PROVE  IInv'
  <1> DEFINE m == cmod[c]
  <1>1. /\ m \in modules /\ m \in Modules
        /\ cpc[c] = "join" /\ modulesLock = c
        /\ \A d \in Callers : cpc[d] # "idle" => d = c
    BY DEF JoinModule, JoinModuleFails, IInv, TypeOK, LockInv
  <1>2. \A d \in Callers : cpc'[d] = "idle"
    BY <1>1 DEF JoinModule, JoinModuleFails, IInv, TypeOK
  <1>3. TypeOK'
    BY <1>1 DEF JoinModule, JoinModuleFails, IInv, TypeOK, CallerStates, WorkerStates
  <1>4. RunsAttached'
    BY <1>1 DEF JoinModule, JoinModuleFails, Joinable, IInv, TypeOK, RunsAttached
  <1>5. LockInv'
    BY <1>2, ThreadAssumption DEF JoinModule, JoinModuleFails, LockInv
  <1>6. SocketInv'
    <2>1. modules' = modules \ {m} /\ fd' = [fd EXCEPT ![m] = NoFd] /\ UNCHANGED sock
      BY DEF JoinModule, JoinModuleFails
    <2>2. ASSUME NEW n \in modules, n # m
          PROVE  sock[fd[n]] # "closed" /\ fd'[n] = fd[n]
      BY <1>1, <2>1, <2>2 DEF IInv, TypeOK, SocketInv
    <2>3. \A n \in Modules \ modules' : fd'[n] = NoFd
      BY <1>1, <2>1 DEF IInv, TypeOK, SocketInv
    <2>4. QED
      BY <1>1, <2>1, <2>2, <2>3 DEF IInv, SocketInv
  <1>7. QED
    BY <1>1, <1>3, <1>4, <1>5, <1>6
       DEF JoinModule, JoinModuleFails, IInv, TypeOK, RecvInv, SocketLockFree

LEMMA WorkerLockInv ==
  ASSUME IInv, NEW m \in Modules, WorkerLock(m)
  PROVE  IInv'
  <1>1. m \in modules
    BY DEF WorkerLock, IInv, RunsAttached
  <1>2. TypeOK'
    BY DEF WorkerLock, IInv, TypeOK, WorkerStates, Threads
  <1>3. RecvInv'
    BY ThreadAssumption DEF WorkerLock, IInv, TypeOK, RecvInv, SocketLockFree
  <1>4. QED
    BY <1>1, <1>2, <1>3 DEF WorkerLock, IInv, TypeOK, RunsAttached, LockInv, SocketInv

LEMMA WorkerDiscardInv ==
  ASSUME IInv, NEW m \in Modules, WorkerDiscard(m)
  PROVE  IInv'
  <1>1. rcvq' \in [Fds -> Seq(Msg)]
    BY WorkerHasSocket, FirstType DEF WorkerDiscard, IInv
  <1>2. TypeOK'
    BY <1>1 DEF WorkerDiscard, IInv, TypeOK
  <1>3. QED
    BY <1>2 DEF WorkerDiscard, IInv, RunsAttached, LockInv, SocketInv, RecvInv,
                SocketLockFree

\* WorkerQuit, WorkerReceive and WorkerSkip differ in where the worker goes next.
LEMMA TakeInv ==
  ASSUME IInv, NEW m \in Modules, wpc[m] = "recv", Take(m),
         NEW next \in {"exited", "receive", "lock"}, wpc' = [wpc EXCEPT ![m] = next],
         last' \in [Modules -> Nat]
  PROVE  IInv'
  <1>1. m \in modules /\ fd[m] \in Fds
    BY WorkerHasSocket
  <1>2. rcvq' \in [Fds -> Seq(Msg)]
    BY <1>1, FirstType DEF Take, IInv
  <1>3. TypeOK'
    BY <1>2 DEF Take, IInv, TypeOK, WorkerStates
  <1>4. RecvInv'
    BY DEF Take, IInv, TypeOK, RecvInv, SocketLockFree
  <1>5. RunsAttached'
    BY <1>1 DEF Take, IInv, TypeOK, RunsAttached
  <1>6. QED
    BY <1>3, <1>4, <1>5 DEF Take, IInv, LockInv, SocketInv

LEMMA WorkerTakesInv ==
  ASSUME IInv, NEW m \in Modules, WorkerQuit(m) \/ WorkerReceive(m) \/ WorkerSkip(m)
  PROVE  IInv'
  <1>1. wpc[m] = "recv" /\ Take(m)
    BY DEF WorkerQuit, WorkerReceive, WorkerSkip
  <1>2. PICK next \in {"exited", "receive", "lock"} :
          /\ wpc' = [wpc EXCEPT ![m] = next]
          /\ UNCHANGED last \/ last' = [last EXCEPT ![m] = First(m).id]
    BY DEF WorkerQuit, WorkerReceive, WorkerSkip
  <1>3. First(m) \in Msg
    BY <1>1, WorkerHasSocket, FirstType DEF IInv, Take
  <1>4. First(m).id \in Nat
    BY <1>3 DEF Msg
  <1>5. last' \in [Modules -> Nat]
    BY <1>2, <1>4 DEF IInv, TypeOK
  <1>6. QED
    BY <1>1, <1>2, <1>5, TakeInv

LEMMA WorkerErrorInv ==
  ASSUME IInv, NEW m \in Modules, WorkerError(m)
  PROVE  IInv'
  <1>1. TypeOK' /\ RecvInv' /\ RunsAttached'
    BY DEF WorkerError, IInv, TypeOK, RecvInv, RunsAttached, SocketLockFree, WorkerStates
  <1>2. QED
    BY <1>1 DEF WorkerError, IInv, LockInv, SocketInv

LEMMA WorkerRunsInv ==
  ASSUME IInv, NEW m \in Modules, WorkerCallPublish(m) \/ WorkerReturn(m)
  PROVE  IInv'
  <1>1. PICK next \in {"publish", "lock"} :
          wpc[m] = "receive" /\ wpc' = [wpc EXCEPT ![m] = next]
    BY DEF WorkerCallPublish, WorkerReturn
  <1>2. UNCHANGED <<modules, modulesLock, fd, socketLock, sock, subs, rcvq, cpc, cmod,
                    published, removals, last, linked>>
    BY DEF WorkerCallPublish, WorkerReturn
  <1>3. TypeOK' /\ RecvInv' /\ RunsAttached'
    BY <1>1, <1>2 DEF IInv, TypeOK, RecvInv, RunsAttached, SocketLockFree, WorkerStates
  <1>4. QED
    BY <1>2, <1>3 DEF IInv, LockInv, SocketInv

LEMMA WorkerPublishInv ==
  ASSUME IInv, NEW m \in Modules, WorkerPublish(m)
  PROVE  IInv'
  <1>1. /\ wpc' \in [Modules -> WorkerStates]
        /\ \A n \in Modules : (wpc'[n] = "exited" <=> wpc[n] = "exited")
                              /\ (wpc'[n] = "recv" <=> wpc[n] = "recv")
    BY DEF WorkerPublish, IInv, TypeOK, WorkerStates
  <1>2. QED
    BY <1>1, PublishInv DEF WorkerPublish

LEMMA CallerPublishInv ==
  ASSUME IInv, NEW c \in Callers, NEW s \in Modules, Publish(c, s) \/ PublishUnknown(c, s)
  PROVE  IInv'
  <1>1. CASE Publish(c, s)
    BY <1>1, PublishInv DEF Publish, IInv, TypeOK
  <1>2. CASE PublishUnknown(c, s)
    <2>1. \A d \in Callers : cpc[d] = "idle"
      BY <1>2, FreeLock DEF PublishUnknown
    <2>2. TypeOK'
      BY <1>2 DEF PublishUnknown, IInv, TypeOK, Threads
    <2>3. LockInv'
      BY <1>2, <2>1, ThreadAssumption DEF PublishUnknown, LockInv
    <2>4. QED
      BY <1>2, <2>2, <2>3 DEF PublishUnknown, IInv, RunsAttached, SocketInv, RecvInv,
                              SocketLockFree
  <1>3. QED
    BY <1>1, <1>2

\* The invariant is inductive.
LEMMA NextInv == IInv /\ [Next]_vars => IInv'
  <1> SUFFICES ASSUME IInv, [Next]_vars PROVE IInv'
    OBVIOUS
  <1>1. ASSUME NEW c \in Callers, CallerStep(c) PROVE IInv'
    BY <1>1, AddModuleInv, LinkInv, RemoveModuleInv, StopModuleInv, JoinModuleInv,
       CallerPublishInv DEF CallerStep
  <1>2. ASSUME NEW m \in Modules, WorkerStep(m) PROVE IInv'
    BY <1>2, WorkerLockInv, WorkerDiscardInv, WorkerTakesInv, WorkerErrorInv,
       WorkerRunsInv, WorkerPublishInv
       DEF WorkerStep
  <1>3. CASE UNCHANGED vars
    BY <1>3 DEF vars, IInv, TypeOK, RunsAttached, LockInv, SocketInv, RecvInv,
                SocketLockFree
  <1>4. QED
    BY <1>1, <1>2, <1>3 DEF Next

LEMMA Invariance == Spec => []IInv
  BY InitInv, NextInv, PTL DEF Spec

-----------------------------------------------------------------------------
\* Typing, and: an attached module always has a socket.
THEOREM TypeCorrect == Spec => []TypeOK
  <1>1. IInv => TypeOK
    BY DEF IInv
  <1>2. QED
    BY <1>1, Invariance, PTL

\* Broker_RemoveModule frees a BROKER_MODULEINFO only when no worker runs on it,
\* whatever calls are made, even if the quit message cannot be sent, as long as
\* ThreadAPI_Join does not fail.
THEOREM NoUseAfterFree ==
  ASSUME ~JoinFails
  PROVE  Spec => []InfoOutlivesWorker
  <1> DEFINE Joined == \A m \in Modules : wpc[m] # "freed"
  <1>1. Init => Joined
    BY DEF Init
  <1>2. IInv /\ Joined /\ [Next]_vars => Joined'
    <2> SUFFICES ASSUME IInv, Joined, [Next]_vars PROVE Joined'
      OBVIOUS
    <2>1. ASSUME NEW c \in Callers, CallerStep(c) PROVE Joined'
      <3>1. (\E m \in Modules : AddModule(c, m)) \/ wpc' = wpc
        BY <2>1 DEF CallerStep, AddLink, RemoveLink, Publish, PublishUnknown,
                    RemoveModule, RemoveModuleHarshly, StopModule, JoinModule, JoinModuleFails
      <3>2. QED
        BY <3>1 DEF AddModule, IInv, TypeOK
    <2>2. ASSUME NEW m \in Modules, WorkerStep(m) PROVE Joined'
      BY <2>2 DEF WorkerStep, WorkerLock, WorkerDiscard, WorkerQuit, WorkerReceive, WorkerSkip,
                  WorkerError, WorkerCallPublish, WorkerPublish, WorkerReturn, IInv, TypeOK
    <2>3. CASE UNCHANGED vars
      BY <2>3 DEF vars
    <2>4. QED
      BY <2>1, <2>2, <2>3 DEF Next
  <1>3. IInv /\ Joined => InfoOutlivesWorker
    BY DEF IInv, RunsAttached, InfoOutlivesWorker
  <1>4. QED
    BY <1>1, <1>2, <1>3, Invariance, PTL DEF Spec

\* No worker reads a socket that nn_socket gave to another module meanwhile.
THEOREM SocketOwnership == Spec => []WorkerOwnsSocket
  <1>1. IInv => WorkerOwnsSocket
    <2> SUFFICES ASSUME IInv, NEW m \in Modules, NEW n \in Modules,
                        n \in modules, fd[m] = fd[n]
                 PROVE  m = n
      BY DEF WorkerOwnsSocket
    <2>1. fd[n] \in Fds /\ fd[n] # NoFd
      BY ThreadAssumption DEF IInv, TypeOK
    <2>2. m \in modules
      BY <2>1 DEF IInv, SocketInv
    <2>3. QED
      BY <2>2 DEF IInv, SocketInv
  <1>2. QED
    BY <1>1, Invariance, PTL

\* As long as nobody publishes for a module that is not attached, modules_lock
\* is only ever held by a thread inside Broker_RemoveModule.
THEOREM LockReleased ==
  ASSUME ~StrayPublish
  PROVE  Spec => []ModulesLockReleased
  <1>1. Init => ModulesLockReleased
    BY DEF Init, ModulesLockReleased
  <1>2. IInv /\ ModulesLockReleased /\ [Next]_vars => ModulesLockReleased'
    <2> SUFFICES ASSUME IInv, ModulesLockReleased, [Next]_vars PROVE ModulesLockReleased'
      OBVIOUS
    <2>1. ASSUME NEW c \in Callers, NEW m \in Modules,
                 RemoveModule(c, m) \/ RemoveModuleHarshly(c, m)
          PROVE  ModulesLockReleased'
      BY <2>1 DEF RemoveModule, RemoveModuleHarshly, IInv, TypeOK, ModulesLockReleased
    <2>2. ASSUME NEW c \in Callers, StopModule(c) PROVE ModulesLockReleased'
      BY <2>2 DEF StopModule, IInv, TypeOK, ModulesLockReleased
    <2>3. ASSUME NEW c \in Callers, JoinModule(c) \/ JoinModuleFails(c)
          PROVE  ModulesLockReleased'
      BY <2>3 DEF JoinModule, JoinModuleFails, ModulesLockReleased
    <2>4. ASSUME UNCHANGED <<modulesLock, cpc>> PROVE ModulesLockReleased'
      BY <2>4 DEF ModulesLockReleased
    <2>5. ASSUME NEW m \in Modules, WorkerStep(m)
          PROVE  UNCHANGED <<modulesLock, cpc>>
      BY <2>5 DEF WorkerStep, WorkerLock, WorkerDiscard, WorkerQuit, WorkerReceive, WorkerSkip,
                  WorkerError, WorkerCallPublish, WorkerPublish, WorkerReturn, Take
    <2>6. CASE UNCHANGED vars
      BY <2>4, <2>6 DEF vars
    <2>7. ASSUME NEW c \in Callers, CallerStep(c) PROVE ModulesLockReleased'
      <3>1. CASE \E m \in Modules : AddModule(c, m) \/ Publish(c, m) \/ PublishUnknown(c, m)
        BY <2>4, <3>1 DEF AddModule, Publish, PublishUnknown
      <3>2. CASE \E l \in Routes : AddLink(c, l[1], l[2]) \/ RemoveLink(c, l[1], l[2])
        BY <2>4, <3>2 DEF AddLink, RemoveLink
      <3>3. QED
        BY <2>1, <2>2, <2>3, <2>7, <3>1, <3>2 DEF CallerStep
    <2>8. QED
      BY <2>4, <2>5, <2>6, <2>7 DEF Next
  <1>3. QED
    BY <1>1, <1>2, Invariance, PTL DEF Spec

\* When every quit message can be sent, nn_close never meets nn_recv.
THEOREM CloseRecvExclusion ==
  ASSUME ~Faults
  PROVE  Spec => NoCloseDuringRecv
  <1> DEFINE Kept == \A m \in Modules :
                       wpc[m] = "recv" /\ sock[fd[m]] = "open" => sock'[fd[m]] = "open"
  <1>1. IInv /\ [Next]_vars => [Kept]_vars
    <2> SUFFICES ASSUME IInv, Next, NEW m \in Modules,
                        wpc[m] = "recv", sock[fd[m]] = "open"
                 PROVE  sock'[fd[m]] = "open"
      OBVIOUS
    <2>1. m \in modules /\ fd[m] \in Fds /\ ~SocketLockFree(m)
      BY WorkerHasSocket DEF IInv, RecvInv
    <2>2. ASSUME NEW c \in Callers, NEW n \in Modules, AddModule(c, n)
          PROVE  sock'[fd[m]] = "open"
      BY <2>1, <2>2 DEF AddModule, IInv, TypeOK
    <2>3. ASSUME NEW c \in Callers, StopModule(c)
          PROVE  sock'[fd[m]] = "open"
      <3>1. cmod[c] \in modules /\ cmod[c] # m
        BY <2>1, <2>3 DEF StopModule, IInv, LockInv
      <3>2. fd[cmod[c]] # fd[m]
        BY <2>1, <3>1 DEF IInv, SocketInv
      <3>3. QED
        BY <2>1, <2>3, <3>2 DEF StopModule, Close, IInv, TypeOK
    <2>4. ASSUME NEW n \in Modules, WorkerStep(n)
          PROVE  UNCHANGED sock
      BY <2>4 DEF WorkerStep, WorkerLock, WorkerDiscard, WorkerQuit, WorkerReceive, WorkerSkip,
                  WorkerError, WorkerCallPublish, WorkerPublish, WorkerReturn, Take
    <2>5. ASSUME NEW c \in Callers, CallerStep(c),
                 ~StopModule(c), \A n \in Modules : ~AddModule(c, n)
          PROVE  UNCHANGED sock
      BY <2>5 DEF CallerStep, RemoveModule, RemoveModuleHarshly, Publish, PublishUnknown,
                  AddLink, RemoveLink, JoinModule, JoinModuleFails
    <2>6. QED
      BY <2>2, <2>3, <2>4, <2>5 DEF Next
  <1>2. QED
    BY <1>1, Invariance, PTL DEF Spec, NoCloseDuringRecv
-----------------------------------------------------------------------------
(* What the modules of a gateway see of the broker.                        *)
\* Every link the callers see is subscribed on the socket of a sink that is
\* attached and that nobody is removing.
SubscribedInv ==
    \A l \in linked : /\ l[2] \in modules /\ ~Removing(l[2])
                      /\ <<"data", l[1]>> \in subs[fd[l[2]]]

\* A quit message has number 0; a data message the number of its publication.
Numbered ==
    \A f \in Fds : \A i \in DOMAIN rcvq[f] :
        IF IsData(rcvq[f][i]) THEN rcvq[f][i].id \in 1..published ELSE rcvq[f][i].id = 0

\* The data messages in a socket are in the order of their publication.
Ordered ==
    \A f \in Fds : \A i, j \in DOMAIN rcvq[f] :
        i < j /\ IsData(rcvq[f][i]) /\ IsData(rcvq[f][j]) => rcvq[f][i].id < rcvq[f][j].id

\* What waits for a module was published after what it received.
Unseen ==
    /\ \A m \in Modules : last[m] <= published
    /\ \A m \in modules : \A i \in DOMAIN rcvq[fd[m]] :
        IsData(rcvq[fd[m]][i]) => last[m] < rcvq[fd[m]][i].id

\* A socket is subscribed to no other quit guid than that of its module.
OwnGuid == \A m \in modules, n \in Modules : <<"quit", n>> \in subs[fd[m]] => n = m

\* The socket is closed by the time its worker is joined.
JoinedIsClosed == \A c \in Callers : cpc[c] = "join" => sock[fd[cmod[c]]] = "closed"

OrderInv == Numbered /\ Ordered /\ Unseen /\ OwnGuid
BusInv == OrderInv /\ SubscribedInv /\ JoinedIsClosed

-----------------------------------------------------------------------------
(* What the three things that happen to a socket's messages do to their order. *)

\* A message arrives at the end of the queues.
LEMMA SendOrder ==
  ASSUME TypeOK, Numbered, Ordered, NEW msg \in Msg, rcvq' = Send(msg), published' \in Nat,
         IF IsData(msg) THEN msg.id = published + 1 /\ published' = published + 1
                        ELSE msg.id = 0 /\ published' = published
  PROVE  Numbered' /\ Ordered'
  <1>1. ASSUME NEW f \in Fds
        PROVE  rcvq[f] \in Seq(Msg) /\ rcvq'[f] \in {rcvq[f], Append(rcvq[f], msg)}
    BY DEF TypeOK, Send
  <1>2. ASSUME NEW f \in Fds, NEW i \in DOMAIN rcvq'[f]
        PROVE  \/ i \in DOMAIN rcvq[f] /\ rcvq'[f][i] = rcvq[f][i]
               \/ rcvq'[f][i] = msg /\ \A j \in DOMAIN rcvq'[f] : j <= i
    <2>1. CASE rcvq'[f] = rcvq[f]
      BY <1>2, <2>1
    <2>2. CASE rcvq'[f] = Append(rcvq[f], msg)
      <3>1. /\ Len(rcvq[f]) \in Nat /\ DOMAIN rcvq[f] = 1..Len(rcvq[f])
            /\ DOMAIN rcvq'[f] = 1..Len(rcvq[f]) + 1
            /\ \A j \in 1..Len(rcvq[f]) : rcvq'[f][j] = rcvq[f][j]
            /\ rcvq'[f][Len(rcvq[f]) + 1] = msg
        BY <1>1, <2>2
      <3>2. QED
        BY <1>2, <3>1
    <2>3. QED
      BY <1>1, <2>1, <2>2
  <1>3. published \in Nat /\ published <= published'
    BY DEF TypeOK
  <1>4. Numbered'
    BY <1>2, <1>3 DEF Numbered, IsData
  <1>5. Ordered'
    <2>1. ASSUME NEW f \in Fds, NEW i \in DOMAIN rcvq'[f], NEW j \in DOMAIN rcvq'[f], i < j,
                 rcvq'[f][i].kind = "data", rcvq'[f][j].kind = "data"
          PROVE  rcvq'[f][i].id < rcvq'[f][j].id
      <3>1. i \in Nat /\ j \in Nat
        BY <1>1, <2>1
      <3>2. i \in DOMAIN rcvq[f] /\ rcvq'[f][i] = rcvq[f][i]
        BY <1>2, <2>1, <3>1
      <3>3. CASE j \in DOMAIN rcvq[f] /\ rcvq'[f][j] = rcvq[f][j]
        BY <2>1, <3>2, <3>3 DEF Ordered, IsData
      <3>4. CASE rcvq'[f][j] = msg
        BY <1>3, <2>1, <3>2, <3>4 DEF Numbered, IsData
      <3>5. QED
        BY <1>2, <3>3, <3>4
    <2>2. QED
      BY <2>1 DEF Ordered, IsData
  <1>6. QED
    BY <1>4, <1>5

\* The first message leaves socket f.
LEMMA TailOrder ==
  ASSUME TypeOK, Numbered, Ordered, NEW f \in Fds, rcvq[f] # <<>>,
         rcvq' = [rcvq EXCEPT ![f] = Tail(@)], published' = published
  PROVE  Numbered' /\ Ordered'
  <1>1. rcvq[f] \in Seq(Msg)
    BY DEF TypeOK
  <1>2. /\ \A g \in Fds : g # f => rcvq'[g] = rcvq[g]
        /\ rcvq'[f] = Tail(rcvq[f])
    BY DEF TypeOK
  <1>3. \A i \in DOMAIN Tail(rcvq[f]) :
          i \in Nat /\ i + 1 \in DOMAIN rcvq[f] /\ Tail(rcvq[f])[i] = rcvq[f][i + 1]
    BY <1>1
  <1>4. Numbered'
    BY <1>2, <1>3 DEF Numbered, IsData
  <1>5. Ordered'
    BY <1>2, <1>3 DEF Ordered, IsData
  <1>6. QED
    BY <1>4, <1>5

\* Socket f is emptied.
LEMMA EmptyOrder ==
  ASSUME TypeOK, Numbered, Ordered, NEW f \in Fds,
         rcvq' = [rcvq EXCEPT ![f] = <<>>], published' = published
  PROVE  Numbered' /\ Ordered'
  <1>1. \A g \in Fds : rcvq'[g] = rcvq[g] \/ rcvq'[g] = <<>>
    BY DEF TypeOK
  <1>2. QED
    BY <1>1 DEF Numbered, Ordered, IsData

-----------------------------------------------------------------------------
LEMMA InitBusInv == Init => BusInv
  BY DEF Init, BusInv, OrderInv, Numbered, Ordered, Unseen, OwnGuid, SubscribedInv,
         JoinedIsClosed

\* Steps that touch no message.
LEMMA QuietOrder ==
  ASSUME OrderInv, UNCHANGED <<modules, fd, rcvq, published, last, subs>>
  PROVE  OrderInv'
  BY DEF OrderInv, Numbered, Ordered, Unseen, OwnGuid, IsData

LEMMA QuietBus ==
  ASSUME BusInv, UNCHANGED <<modules, fd, rcvq, published, last, subs, sock, cpc, cmod>>,
         linked' \subseteq linked
  PROVE  BusInv'
  BY QuietOrder DEF BusInv, SubscribedInv, JoinedIsClosed, Removing

LEMMA AddModuleBus ==
  ASSUME IInv, BusInv, NEW c \in Callers, NEW m \in Modules, AddModule(c, m)
  PROVE  BusInv'
  <1>1. PICK f \in Fds : /\ sock[f] = "closed"
                         /\ fd' = [fd EXCEPT ![m] = f]
                         /\ sock' = [sock EXCEPT ![f] = "open"]
                         /\ subs' = [subs EXCEPT ![f] = {<<"quit", m>>}]
                         /\ rcvq' = [rcvq EXCEPT ![f] = <<>>]
    BY DEF AddModule
  <1>2. /\ \A n \in modules : fd[n] \in Fds /\ sock[fd[n]] = "open" /\ fd[n] # f
        /\ \A d \in Callers : cpc[d] = "idle"
        /\ m \notin modules /\ modules' = modules \cup {m}
        /\ UNCHANGED <<cpc, cmod, published, last, linked>>
    BY <1>1, FreeLock DEF AddModule
  <1>3. /\ fd'[m] = f /\ \A n \in modules : fd'[n] = fd[n]
        /\ rcvq'[f] = <<>> /\ \A g \in Fds : g # f => rcvq'[g] = rcvq[g]
        /\ subs'[f] = {<<"quit", m>>} /\ \A g \in Fds : g # f => subs'[g] = subs[g]
    BY <1>1, <1>2 DEF IInv, TypeOK
  <1>4. Numbered' /\ Ordered'
    BY <1>1, <1>2, EmptyOrder DEF IInv, BusInv, OrderInv
  <1>5. Unseen'
    <2>1. Unseen /\ last' = last /\ published' = published
      BY <1>2 DEF BusInv, OrderInv
    <2>2. ASSUME NEW n \in modules', NEW i \in DOMAIN rcvq'[fd'[n]], rcvq'[fd'[n]][i].kind = "data"
          PROVE  last[n] < rcvq'[fd'[n]][i].id
      <3>1. n # m
        BY <1>3, <2>2
      <3>2. n \in modules /\ rcvq'[fd'[n]] = rcvq[fd[n]]
        BY <1>2, <1>3, <3>1
      <3>3. QED
        BY <2>1, <2>2, <3>2 DEF Unseen, IsData
    <2>3. QED
      BY <2>1, <2>2 DEF Unseen, IsData
  <1>6. OwnGuid'
    BY <1>2, <1>3 DEF BusInv, OrderInv, OwnGuid
  <1>7. SubscribedInv'
    <2>1. ASSUME NEW l \in linked
          PROVE  l[2] \in modules /\ <<"data", l[1]>> \in subs'[fd'[l[2]]]
      BY <1>2, <1>3 DEF BusInv, SubscribedInv
    <2>2. QED
      BY <1>2, <2>1 DEF SubscribedInv, Removing
  <1>8. JoinedIsClosed'
    BY <1>2 DEF JoinedIsClosed
  <1>9. QED
    BY <1>4, <1>5, <1>6, <1>7, <1>8 DEF BusInv, OrderInv

LEMMA LinkBus ==
  ASSUME IInv, BusInv, NEW c \in Callers, NEW l \in Routes,
         AddLink(c, l[1], l[2]) \/ RemoveLink(c, l[1], l[2])
  PROVE  BusInv'
  <1>1. l[1] \in Modules /\ l[2] \in Modules /\ l = <<l[1], l[2]>>
    BY ThreadAssumption
  <1>2. CASE AddLink(c, l[1], l[2])
    <2>1. /\ \A d \in Callers : cpc[d] = "idle"
          /\ l[2] \in modules /\ fd[l[2]] \in Fds
          /\ linked' = linked \cup {<<l[1], l[2]>>}
          /\ UNCHANGED <<modules, fd, sock, rcvq, cpc, cmod, published, last>>
      BY <1>1, <1>2, FreeLock DEF AddLink
    <2>2. \A g \in Fds : subs'[g] = IF g = fd[l[2]] THEN subs[g] \cup {<<"data", l[1]>>}
                                                   ELSE subs[g]
      BY <1>2, <2>1 DEF AddLink, IInv, TypeOK
    <2>3. \A n \in modules : fd[n] \in Fds
      BY DEF IInv, TypeOK
    <2>4. OwnGuid'
      <3>1. ASSUME NEW m \in modules, NEW n \in Modules, <<"quit", n>> \in subs'[fd[m]]
            PROVE  <<"quit", n>> \in subs[fd[m]]
        <4>1. <<"quit", n>> # <<"data", l[1]>>
          OBVIOUS
        <4>2. QED
          BY <2>2, <2>3, <3>1, <4>1
      <3>2. QED
        BY <2>1, <3>1 DEF BusInv, OrderInv, OwnGuid
    <2>5. SubscribedInv'
      <3>1. ASSUME NEW k \in linked'
            PROVE  k[2] \in modules /\ <<"data", k[1]>> \in subs'[fd[k[2]]]
        <4>1. CASE k \in linked
          BY <2>2, <2>3, <4>1 DEF BusInv, SubscribedInv
        <4>2. CASE k = <<l[1], l[2]>>
          BY <2>1, <2>2, <4>2
        <4>3. QED
          BY <2>1, <3>1, <4>1, <4>2
      <3>2. QED
        BY <2>1, <3>1 DEF SubscribedInv, Removing
    <2>6. QED
      BY <2>1, <2>4, <2>5 DEF BusInv, OrderInv, Numbered, Ordered, Unseen, IsData,
                              JoinedIsClosed
  <1>3. CASE RemoveLink(c, l[1], l[2])
    <2>1. /\ UNCHANGED <<modules, fd, rcvq, published, last, subs, sock, cpc, cmod>>
          /\ linked' \subseteq linked
      BY <1>3 DEF RemoveLink
    <2>2. QED
      BY <2>1, QuietBus
  <1>4. QED
    BY <1>2, <1>3

\* A published message is newer than all there is.
LEMMA PublishBus ==
  ASSUME IInv, BusInv, NEW s \in Modules, PublishData(s),
         UNCHANGED <<modules, fd, sock, subs, cpc, cmod, last, linked>>
  PROVE  BusInv'
  <1> DEFINE msg == [kind |-> "data", src |-> s, id |-> published + 1]
  <1>1. msg \in Msg /\ rcvq' = Send(msg) /\ published' = published + 1 /\ published \in Nat
    BY DEF Msg, Kinds, IInv, TypeOK, PublishData
  <1>2. Numbered' /\ Ordered'
    BY <1>1, SendOrder DEF IInv, BusInv, OrderInv, IsData
  <1>3. \A f \in Fds : rcvq[f] \in Seq(Msg) /\ rcvq'[f] \in {rcvq[f], Append(rcvq[f], msg)}
    BY <1>1 DEF IInv, TypeOK, Send
  <1>4. Unseen'
    <2>0. ASSUME NEW f \in Fds, NEW i \in DOMAIN rcvq'[f]
          PROVE  \/ i \in DOMAIN rcvq[f] /\ rcvq'[f][i] = rcvq[f][i]
                 \/ rcvq'[f][i] = msg
      <3> HIDE DEF msg
      <3>1. QED
        BY <1>1, <1>3, <2>0
    <2>1. \A m \in Modules : last[m] \in Nat
      BY DEF IInv, TypeOK
    <2>2. ASSUME NEW m \in modules, NEW i \in DOMAIN rcvq'[fd[m]], IsData(rcvq'[fd[m]][i])
          PROVE  last[m] < rcvq'[fd[m]][i].id
      <3>1. m \in Modules /\ fd[m] \in Fds /\ last[m] <= published
        BY DEF IInv, TypeOK, BusInv, OrderInv, Unseen
      <3>2. CASE i \in DOMAIN rcvq[fd[m]] /\ rcvq'[fd[m]][i] = rcvq[fd[m]][i]
        BY <2>2, <3>2 DEF BusInv, OrderInv, Unseen, IsData
      <3>3. CASE rcvq'[fd[m]][i] = msg
        BY <1>1, <2>1, <3>1, <3>3
      <3>4. QED
        BY <2>0, <3>1, <3>2, <3>3
    <2>3. QED
      BY <1>1, <2>1, <2>2 DEF BusInv, OrderInv, Unseen, IsData
  <1>5. QED
    BY <1>2, <1>4 DEF BusInv, OrderInv, OwnGuid, SubscribedInv, JoinedIsClosed, Removing

LEMMA RemoveModuleBus ==
  ASSUME IInv, BusInv, NEW c \in Callers, NEW m \in Modules,
         RemoveModule(c, m) \/ RemoveModuleHarshly(c, m)
  PROVE  BusInv'
  <1>1. /\ \A d \in Callers : cpc[d] = "idle"
        /\ fd[m] \in Fds /\ m \in modules
        /\ cmod' = [cmod EXCEPT ![c] = m]
        /\ linked' = {l \in linked : l[1] # m /\ l[2] # m}
        /\ UNCHANGED <<modules, fd, published, last>>
        /\ \A n \in modules : fd[n] \in Fds
    BY FreeLock DEF RemoveModule, RemoveModuleHarshly, IInv, TypeOK
  <1>2. \A d \in Callers : d # c => cpc'[d] = "idle"
    BY <1>1 DEF RemoveModule, RemoveModuleHarshly, IInv, TypeOK
  <1>3. \A n \in Modules : Removing(n)' => n = m
    BY <1>1, <1>2 DEF Removing, IInv, TypeOK
  <1>4. \A g \in Fds : subs'[g] = subs[g] \/ (g = fd[m] /\ subs'[g] = {})
    BY DEF RemoveModule, RemoveModuleHarshly, Close, IInv, TypeOK
  <1>5. OwnGuid'
    BY <1>1, <1>4 DEF BusInv, OrderInv, OwnGuid
  <1>6. SubscribedInv'
    <2>1. ASSUME NEW l \in linked', fd[l[2]] = fd[m] PROVE FALSE
      BY <1>1, <2>1 DEF IInv, SocketInv, BusInv, SubscribedInv
    <2>2. \A l \in linked : l[2] \in Modules
      BY DEF IInv, TypeOK
    <2>3. QED
      BY <1>1, <1>3, <1>4, <2>1, <2>2 DEF BusInv, SubscribedInv
  <1>7. CASE RemoveModule(c, m)
    <2>1. Quit(m) \in Msg /\ rcvq' = Send(Quit(m)) /\ published \in Nat
          /\ ~IsData(Quit(m)) /\ Quit(m).id = 0
      BY <1>7, QuitType DEF RemoveModule, IInv, TypeOK, Quit, IsData
    <2>2. Numbered' /\ Ordered'
      BY <1>1, <2>1, SendOrder DEF IInv, BusInv, OrderInv
    <2>3. \A f \in Fds : rcvq[f] \in Seq(Msg) /\ rcvq'[f] \in {rcvq[f], Append(rcvq[f], Quit(m))}
      BY <2>1 DEF IInv, TypeOK, Send
    <2>4. \A f \in Fds : \A i \in DOMAIN rcvq'[f] : IsData(rcvq'[f][i])
            => i \in DOMAIN rcvq[f] /\ rcvq'[f][i] = rcvq[f][i]
      BY <2>1, <2>3
    <2>5. Unseen'
      <3>1. Unseen /\ fd' = fd /\ modules' = modules /\ last' = last /\ published' = published
        BY <1>1 DEF BusInv, OrderInv
      <3>2. ASSUME NEW n \in modules, NEW i \in DOMAIN rcvq'[fd[n]], rcvq'[fd[n]][i].kind = "data"
            PROVE  last[n] < rcvq'[fd[n]][i].id
        <4>1. i \in DOMAIN rcvq[fd[n]] /\ rcvq'[fd[n]][i] = rcvq[fd[n]][i]
          BY <1>1, <2>4, <3>2 DEF IsData
        <4>2. QED
          BY <3>1, <3>2, <4>1 DEF Unseen, IsData
      <3>3. QED
        BY <3>1, <3>2 DEF Unseen, IsData
    <2>6. JoinedIsClosed'
      BY <1>2, <1>7 DEF RemoveModule, JoinedIsClosed, IInv, TypeOK
    <2>7. QED
      BY <1>5, <1>6, <2>2, <2>5, <2>6 DEF BusInv, OrderInv
  <1>8. CASE RemoveModuleHarshly(c, m)
    <2>1. rcvq' = [rcvq EXCEPT ![fd[m]] = <<>>] /\ sock' = [sock EXCEPT ![fd[m]] = "closed"]
      BY <1>8 DEF RemoveModuleHarshly, Close
    <2>2. Numbered' /\ Ordered'
      BY <1>1, <2>1, EmptyOrder DEF IInv, BusInv, OrderInv
    <2>3. Unseen'
      BY <1>1, <2>1 DEF BusInv, OrderInv, Unseen, IsData, IInv, TypeOK
    <2>4. JoinedIsClosed'
      BY <1>1, <1>2, <2>1 DEF JoinedIsClosed, IInv, TypeOK
    <2>5. QED
      BY <1>5, <1>6, <2>2, <2>3, <2>4 DEF BusInv, OrderInv
  <1>9. QED
    BY <1>7, <1>8

LEMMA StopModuleBus ==
  ASSUME IInv, BusInv, NEW c \in Callers, StopModule(c)
  PROVE  BusInv'
  <1> DEFINE m == cmod[c]
  <1>1. /\ m \in modules /\ fd[m] \in Fds
        /\ cpc[c] = "stop" /\ cpc' = [cpc EXCEPT ![c] = "join"]
        /\ \A d \in Callers : cpc[d] # "idle" => d = c
        /\ rcvq' = [rcvq EXCEPT ![fd[m]] = <<>>]
        /\ sock' = [sock EXCEPT ![fd[m]] = "closed"]
        /\ subs' = [subs EXCEPT ![fd[m]] = {}]
        /\ UNCHANGED <<modules, fd, cmod, published, last, linked>>
        /\ \A n \in modules : fd[n] \in Fds
    BY DEF StopModule, Close, IInv, TypeOK, LockInv
  <1>2. Numbered' /\ Ordered'
    BY <1>1, EmptyOrder DEF IInv, BusInv, OrderInv
  <1>3. Unseen'
    BY <1>1 DEF BusInv, OrderInv, Unseen, IsData, IInv, TypeOK
  <1>4. OwnGuid'
    BY <1>1 DEF BusInv, OrderInv, OwnGuid, IInv, TypeOK
  <1>5. SubscribedInv'
    <2>1. \A n \in Modules : Removing(n)' => Removing(n)
      BY <1>1 DEF Removing, IInv, TypeOK
    <2>2. ASSUME NEW l \in linked
          PROVE  l[2] \in modules /\ l[2] # m /\ fd[l[2]] # fd[m]
      <3>1. l[2] \in modules /\ ~Removing(l[2])
        BY <2>2 DEF BusInv, SubscribedInv
      <3>2. Removing(m)
        BY <1>1 DEF Removing
      <3>3. l[2] # m
        BY <3>1, <3>2
      <3>4. QED
        BY <1>1, <3>1, <3>3 DEF IInv, SocketInv
    <2>3. \A l \in linked : l[2] \in Modules
      BY DEF IInv, TypeOK
    <2>4. \A g \in Fds : g # fd[m] => subs'[g] = subs[g]
      BY <1>1 DEF IInv, TypeOK
    <2>5. ASSUME NEW l \in linked
          PROVE  l[2] \in modules' /\ ~Removing(l[2])' /\ <<"data", l[1]>> \in subs'[fd'[l[2]]]
      <3>1. l[2] \in modules /\ ~Removing(l[2]) /\ <<"data", l[1]>> \in subs[fd[l[2]]]
        BY <2>5 DEF BusInv, SubscribedInv
      <3>2. ~Removing(l[2])'
        BY <2>1, <2>3, <2>5, <3>1
      <3>3. subs'[fd[l[2]]] = subs[fd[l[2]]]
        BY <1>1, <2>2, <2>4, <2>5
      <3>4. QED
        BY <1>1, <3>1, <3>2, <3>3
    <2>6. QED
      BY <1>1, <2>5 DEF SubscribedInv
  <1>6. JoinedIsClosed'
    BY <1>1 DEF JoinedIsClosed, IInv, TypeOK
  <1>7. QED
    BY <1>2, <1>3, <1>4, <1>5, <1>6 DEF BusInv, OrderInv

LEMMA JoinModuleBus ==
  ASSUME IInv, BusInv, NEW c \in Callers, JoinModule(c) \/ JoinModuleFails(c)
  PROVE  BusInv'
  <1> DEFINE m == cmod[c]
  <1>1. /\ m \in modules /\ cpc[c] = "join"
        /\ modules' = modules \ {m}
        /\ \A n \in modules' : fd'[n] = fd[n]
        /\ UNCHANGED <<sock, subs, rcvq, published, last, linked>>
        /\ cpc' = [cpc EXCEPT ![c] = "idle"]
    BY DEF JoinModule, JoinModuleFails, IInv, TypeOK, LockInv
  <1>2. \A d \in Callers : cpc'[d] = "idle"
    BY <1>1 DEF JoinModule, JoinModuleFails, IInv, TypeOK, LockInv
  <1>3. SubscribedInv'
    BY <1>1, <1>2 DEF BusInv, SubscribedInv, Removing
  <1>4. OrderInv'
    BY <1>1 DEF BusInv, OrderInv, Numbered, Ordered, Unseen, OwnGuid, IsData
  <1>5. QED
    BY <1>2, <1>3, <1>4 DEF BusInv, JoinedIsClosed

\* What a worker takes off its socket is its quit message or a data message
\* that is newer than all it received before.
LEMMA FirstIsNew ==
  ASSUME IInv, BusInv, NEW m \in modules, rcvq[fd[m]] # <<>>
  PROVE  /\ First(m) \in Msg
         /\ 1 \in DOMAIN rcvq[fd[m]] /\ First(m) = rcvq[fd[m]][1]
         /\ IsData(First(m)) => last[m] < First(m).id /\ First(m).id <= published
         /\ ~IsData(First(m)) => First(m).id = 0
         /\ Matched(m) /\ ~IsQuit(m, First(m)) => IsData(First(m))
  <1>1. /\ m \in Modules /\ fd[m] \in Fds /\ rcvq[fd[m]] \in Seq(Msg) /\ published \in Nat
        /\ last[m] \in Nat
    BY DEF IInv, TypeOK
  <1>2. 1 \in DOMAIN rcvq[fd[m]] /\ First(m) = rcvq[fd[m]][1] /\ First(m) \in Msg
    BY <1>1 DEF First
  <1>3. IsData(First(m)) => last[m] < First(m).id /\ First(m).id <= published
    <2> HAVE IsData(First(m))
    <2>1. last[m] < First(m).id
      BY <1>2 DEF BusInv, OrderInv, Unseen
    <2>2. First(m).id \in 1..published
      BY <1>1, <1>2 DEF BusInv, OrderInv, Numbered
    <2>3. QED
      BY <1>1, <2>1, <2>2
  <1>4. ~IsData(First(m)) => First(m).id = 0
    BY <1>1, <1>2 DEF BusInv, OrderInv, Numbered, IsData
  <1>5. ASSUME Matched(m), ~IsData(First(m)) PROVE First(m) = Quit(m)
    <2>1. /\ First(m).kind = "quit" /\ First(m).src \in Modules /\ First(m).id = 0
          /\ First(m) = [kind |-> First(m).kind, src |-> First(m).src, id |-> First(m).id]
      BY <1>2, <1>4, <1>5 DEF Msg, Kinds, IsData
    <2>2. <<"quit", First(m).src>> \in subs[fd[m]]
      BY <1>5, <2>1 DEF Matched, Topic
    <2>3. First(m).src = m
      BY <2>1, <2>2 DEF BusInv, OrderInv, OwnGuid
    <2>4. QED
      BY <2>1, <2>3 DEF Quit
  <1>6. QED
    BY <1>2, <1>3, <1>4, <1>5 DEF IsQuit

\* The first message of m's socket is taken or discarded.
LEMMA TakeBus ==
  ASSUME IInv, BusInv, NEW m \in modules, rcvq[fd[m]] # <<>>,
         rcvq' = [rcvq EXCEPT ![fd[m]] = Tail(@)],
         UNCHANGED <<modules, fd, sock, subs, cpc, cmod, published, linked>>,
         \/ last' = last
         \/ last' = [last EXCEPT ![m] = First(m).id] /\ IsData(First(m))
  PROVE  BusInv'
  <1>1. /\ m \in Modules /\ fd[m] \in Fds /\ rcvq[fd[m]] \in Seq(Msg) /\ published \in Nat
        /\ last \in [Modules -> Nat]
        /\ \A n \in modules : n \in Modules /\ fd[n] \in Fds
    BY DEF IInv, TypeOK
  <1>2. Numbered' /\ Ordered'
    BY <1>1, TailOrder DEF IInv, BusInv, OrderInv
  <1>3. \A i \in DOMAIN Tail(rcvq[fd[m]]) :
          i \in Nat /\ i + 1 \in DOMAIN rcvq[fd[m]] /\ 1 < i + 1
          /\ Tail(rcvq[fd[m]])[i] = rcvq[fd[m]][i + 1]
    BY <1>1
  <1>4. \A n \in modules : n # m => rcvq'[fd[n]] = rcvq[fd[n]] /\ last'[n] = last[n]
    BY <1>1 DEF IInv, TypeOK, SocketInv
  <1>5. rcvq'[fd[m]] = Tail(rcvq[fd[m]])
    BY <1>1 DEF IInv, TypeOK
  <1>6. ASSUME NEW i \in DOMAIN rcvq'[fd[m]], IsData(rcvq'[fd[m]][i])
        PROVE  last'[m] < rcvq'[fd[m]][i].id
    <2>1. /\ i + 1 \in DOMAIN rcvq[fd[m]] /\ 1 < i + 1
          /\ rcvq'[fd[m]][i] = rcvq[fd[m]][i + 1]
      BY <1>3, <1>5, <1>6
    <2>2. last[m] < rcvq'[fd[m]][i].id
      BY <1>6, <2>1 DEF BusInv, OrderInv, Unseen, IsData
    <2>3. IsData(First(m)) => First(m).id < rcvq'[fd[m]][i].id
      BY <1>1, <1>6, <2>1, FirstIsNew DEF BusInv, OrderInv, Ordered, IsData
    <2>4. QED
      BY <1>1, <2>2, <2>3
  <1>7. ASSUME NEW n \in Modules PROVE last'[n] <= published
    <2>1. last[n] <= published
      BY DEF BusInv, OrderInv, Unseen
    <2>2. QED
      BY <1>1, <2>1, FirstIsNew
  <1>8. Unseen'
    <2>1. ASSUME NEW n \in modules, NEW i \in DOMAIN rcvq'[fd[n]], IsData(rcvq'[fd[n]][i])
          PROVE  last'[n] < rcvq'[fd[n]][i].id
      <3>1. CASE n = m
        BY <1>6, <2>1, <3>1
      <3>2. CASE n # m
        BY <1>4, <2>1, <3>2 DEF BusInv, OrderInv, Unseen, IsData
      <3>3. QED
        BY <3>1, <3>2
    <2>2. QED
      BY <1>7, <2>1 DEF Unseen, IsData
  <1>9. QED
    BY <1>2, <1>8 DEF BusInv, OrderInv, OwnGuid, SubscribedInv, JoinedIsClosed, Removing

LEMMA WorkerBus ==
  ASSUME IInv, BusInv, NEW m \in Modules, WorkerStep(m)
  PROVE  BusInv'
  <1>1. CASE WorkerLock(m) \/ WorkerError(m) \/ WorkerCallPublish(m) \/ WorkerReturn(m)
    BY <1>1, QuietBus DEF WorkerLock, WorkerError, WorkerCallPublish, WorkerReturn
  <1>2. CASE WorkerPublish(m)
    BY <1>2, PublishBus DEF WorkerPublish
  <1>3. CASE WorkerDiscard(m) \/ WorkerQuit(m) \/ WorkerSkip(m) \/ WorkerReceive(m)
    <2>1. wpc[m] = "recv" /\ rcvq[fd[m]] # <<>>
      BY <1>3 DEF WorkerDiscard, WorkerQuit, WorkerSkip, WorkerReceive, Take
    <2>2. m \in modules
      BY <2>1, WorkerHasSocket
    <2>3. CASE WorkerDiscard(m) \/ WorkerQuit(m) \/ WorkerSkip(m)
      BY <2>1, <2>2, <2>3, TakeBus DEF WorkerDiscard, WorkerQuit, WorkerSkip, Take
    <2>4. CASE WorkerReceive(m)
      <3>1. IsData(First(m))
        BY <2>1, <2>2, <2>4, FirstIsNew DEF WorkerReceive, Take
      <3>2. QED
        BY <2>1, <2>2, <2>4, <3>1, TakeBus DEF WorkerReceive, Take
    <2>5. QED
      BY <1>3, <2>3, <2>4
  <1>4. QED
    BY <1>1, <1>2, <1>3 DEF WorkerStep

LEMMA CallerBus ==
  ASSUME IInv, BusInv, NEW c \in Callers, CallerStep(c)
  PROVE  BusInv'
  <1>1. ASSUME NEW s \in Modules, Publish(c, s) PROVE BusInv'
    BY <1>1, PublishBus DEF Publish
  <1>2. ASSUME NEW s \in Modules, PublishUnknown(c, s) PROVE BusInv'
    BY <1>2, QuietBus DEF PublishUnknown
  <1>3. QED
    BY <1>1, <1>2, AddModuleBus, LinkBus, RemoveModuleBus, StopModuleBus, JoinModuleBus
       DEF CallerStep

LEMMA NextBus == IInv /\ BusInv /\ [Next]_vars => BusInv'
  <1> SUFFICES ASSUME IInv, BusInv, [Next]_vars PROVE BusInv'
    OBVIOUS
  <1>1. CASE UNCHANGED vars
    BY <1>1, QuietBus DEF vars
  <1>2. QED
    BY <1>1, CallerBus, WorkerBus DEF Next

LEMMA BusInvariance == Spec => []BusInv
  BY InitBusInv, NextBus, Invariance, PTL DEF Spec

-----------------------------------------------------------------------------
\* A link that was added and not removed is subscribed, whatever calls and
\* failures come between.
THEOREM LinksSubscribed == Spec => []LinkedIsSubscribed
  <1>1. BusInv => LinkedIsSubscribed
    BY DEF BusInv, SubscribedInv, LinkedIsSubscribed
  <1>2. QED
    BY <1>1, BusInvariance, PTL

\* No module receives a message twice or after a later one, for any number of
\* publishing threads, links and removals.
THEOREM ReceivedInOrder == Spec => OneOrder
  <1> DEFINE Newer == \A m \in Modules : wpc[m] = "recv" /\ wpc'[m] = "receive"
                                          => last'[m] > last[m]
  <1>1. IInv /\ BusInv /\ [Next]_vars => [Newer]_vars
    <2> SUFFICES ASSUME IInv, BusInv, Next, NEW m \in Modules,
                        wpc[m] = "recv", wpc'[m] = "receive"
                 PROVE  last'[m] > last[m]
      OBVIOUS
    <2>1. ASSUME NEW c \in Callers, CallerStep(c) PROVE FALSE
      <3>1. (\E n \in Modules : AddModule(c, n)) \/ wpc' = wpc \/ JoinModuleFails(c)
        BY <2>1 DEF CallerStep, AddLink, RemoveLink, Publish, PublishUnknown,
                    RemoveModule, RemoveModuleHarshly, StopModule, JoinModule
      <3>2. ASSUME NEW n \in Modules, AddModule(c, n) PROVE wpc'[m] \in {wpc[m], "lock"}
        BY <3>2 DEF AddModule, IInv, TypeOK
      <3>3. ASSUME JoinModuleFails(c) PROVE wpc'[m] \in {wpc[m], "freed"}
        BY <3>3 DEF JoinModuleFails, IInv, TypeOK
      <3>4. QED
        BY <3>1, <3>2, <3>3
    <2>2. ASSUME NEW n \in Modules, WorkerStep(n), ~WorkerReceive(m) PROVE FALSE
      BY <2>2 DEF WorkerStep, WorkerLock, WorkerDiscard, WorkerQuit, WorkerReceive, WorkerSkip,
                  WorkerError, WorkerCallPublish, WorkerPublish, WorkerReturn, IInv, TypeOK
    <2>3. WorkerReceive(m)
      BY <2>1, <2>2 DEF Next
    <2>4. m \in modules /\ rcvq[fd[m]] # <<>> /\ Matched(m) /\ ~IsQuit(m, First(m))
          /\ last' = [last EXCEPT ![m] = First(m).id]
      BY <2>3, WorkerHasSocket DEF WorkerReceive, Take
    <2>5. last \in [Modules -> Nat] /\ First(m).id \in Nat /\ last[m] < First(m).id
      BY <2>4, FirstIsNew DEF Msg, IInv, TypeOK
    <2>6. QED
      BY <2>4, <2>5
  <1>2. QED
    BY <1>1, Invariance, BusInvariance, PTL DEF Spec, OneOrder

-----------------------------------------------------------------------------
(* Broker implements MessageBus: what a socket holds and the links it is     *)
(* subscribed to, under the mapping of Broker, and then one bus step (or no  *)
(* step) for each step of the broker.                                        *)

LEMMA PendingAppend ==
  ASSUME NEW q \in Seq(Msg), NEW msg \in Msg
  PROVE  Pending(Append(q, msg)) = IF IsData(msg) THEN Pending(q) \cup {BusMsg(msg)} ELSE Pending(q)
  <1> DEFINE r == Append(q, msg)
  <1>1. /\ DOMAIN q \subseteq DOMAIN r /\ \A i \in DOMAIN q : r[i] = q[i]
        /\ Len(q) + 1 \in DOMAIN r /\ r[Len(q) + 1] = msg
        /\ \A i \in DOMAIN r : i \in DOMAIN q \/ i = Len(q) + 1
    OBVIOUS
  <1> HIDE DEF r
  <1>2. Pending(r) = IF IsData(msg) THEN Pending(q) \cup {BusMsg(msg)} ELSE Pending(q)
    BY <1>1 DEF Pending, IsData
  <1>3. QED
    BY <1>2 DEF r

\* Where the messages of a queue are in its tail.
LEMMA TailIndex ==
  ASSUME NEW q \in Seq(Msg), q # <<>>
  PROVE  /\ \A i \in DOMAIN Tail(q) : i \in Nat /\ i > 0 /\ i + 1 \in DOMAIN q /\ Tail(q)[i] = q[i + 1]
         /\ \A i \in DOMAIN q : i # 1 => i - 1 \in DOMAIN Tail(q) /\ Tail(q)[i - 1] = q[i]
  <1>1. Len(q) \in Nat /\ Len(q) > 0 /\ DOMAIN q = 1..Len(q)
    OBVIOUS
  <1>2. Tail(q) \in Seq(Msg) /\ Len(Tail(q)) = Len(q) - 1 /\ DOMAIN Tail(q) = 1..(Len(q) - 1)
    BY <1>1
  <1>3. \A i \in 1..(Len(q) - 1) : Tail(q)[i] = q[i + 1]
    BY <1>1
  <1>4. ASSUME NEW i \in DOMAIN q, i # 1
        PROVE  i - 1 \in DOMAIN Tail(q) /\ Tail(q)[i - 1] = q[i]
    <2>1. i \in Nat /\ i - 1 \in 1..(Len(q) - 1)
      BY <1>1, <1>4
    <2>2. Tail(q)[i - 1] = q[(i - 1) + 1] /\ (i - 1) + 1 = i
      BY <1>3, <2>1
    <2>3. QED
      BY <1>2, <2>1, <2>2
  <1>5. QED
    BY <1>1, <1>2, <1>3, <1>4

\* A socket's pending data messages, with the next one first.
LEMMA PendingTail ==
  ASSUME IInv, BusInv, NEW m \in modules, rcvq[fd[m]] # <<>>
  PROVE  /\ IsData(First(m)) =>
              /\ BusMsg(First(m)) \in Pending(rcvq[fd[m]])
              /\ \A other \in Pending(rcvq[fd[m]]) : BusMsg(First(m)).id <= other.id
              /\ Pending(Tail(rcvq[fd[m]])) = Pending(rcvq[fd[m]]) \ {BusMsg(First(m))}
         /\ ~IsData(First(m)) => Pending(Tail(rcvq[fd[m]])) = Pending(rcvq[fd[m]])
  <1> DEFINE q == rcvq[fd[m]]
             t == Tail(rcvq[fd[m]])
  <1>1. q \in Seq(Msg) /\ fd[m] \in Fds
    BY DEF IInv, TypeOK
  <1>2. /\ \A i \in DOMAIN t : i \in Nat /\ i > 0 /\ i + 1 \in DOMAIN q /\ t[i] = q[i + 1]
        /\ \A i \in DOMAIN q : i # 1 => i - 1 \in DOMAIN t /\ t[i - 1] = q[i]
    BY <1>1, TailIndex
  <1>3. 1 \in DOMAIN q /\ q[1] = First(m)
    BY FirstIsNew
  <1>4. ASSUME IsData(First(m)), NEW i \in DOMAIN q, IsData(q[i]), i # 1
        PROVE  First(m).id < q[i].id
    <2>1. i \in Nat /\ 1 < i
      BY <1>1, <1>4
    <2>2. IsData(q[1])
      BY <1>3, <1>4
    <2>3. QED
      BY <1>1, <1>3, <1>4, <2>1, <2>2 DEF BusInv, OrderInv, Ordered
  <1>5. First(m).id \in Nat /\ \A i \in DOMAIN q : q[i].id \in Nat
    <2>1. \A i \in DOMAIN q : q[i] \in Msg
      BY <1>1
    <2>2. \A i \in DOMAIN q : q[i].id \in Nat
      BY <2>1 DEF Msg
    <2>3. QED
      BY <1>3, <2>2
  <1> HIDE DEF q, t
  <1>6. ASSUME IsData(First(m)), NEW i \in DOMAIN q, IsData(q[i]), i # 1
        PROVE  BusMsg(q[i]) # BusMsg(First(m))
    BY <1>4, <1>5, <1>6 DEF BusMsg
  <1>7. Pending(q) = {BusMsg(q[i]) : i \in {j \in DOMAIN q : IsData(q[j])}}
        /\ Pending(t) = {BusMsg(t[i]) : i \in {j \in DOMAIN t : IsData(t[j])}}
    BY DEF Pending
  <1>8. ASSUME NEW x
        PROVE  x \in Pending(t) <=> \E i \in DOMAIN q : i # 1 /\ IsData(q[i]) /\ x = BusMsg(q[i])
    <2>1. ASSUME x \in Pending(t)
          PROVE  \E i \in DOMAIN q : i # 1 /\ IsData(q[i]) /\ x = BusMsg(q[i])
      <3>1. PICK j \in DOMAIN t : IsData(t[j]) /\ x = BusMsg(t[j])
        BY <1>7, <2>1
      <3>2. j + 1 \in DOMAIN q /\ t[j] = q[j + 1] /\ j + 1 # 1
        BY <1>2
      <3>3. QED
        BY <3>1, <3>2
    <2>2. ASSUME NEW i \in DOMAIN q, i # 1, IsData(q[i]), x = BusMsg(q[i])
          PROVE  x \in Pending(t)
      BY <1>2, <1>7, <2>2
    <2>3. QED
      BY <2>1, <2>2
  <1>9. ASSUME NEW x
        PROVE  x \in Pending(q) <=> \E i \in DOMAIN q : IsData(q[i]) /\ x = BusMsg(q[i])
    BY <1>7
  <1>10. CASE IsData(First(m))
    <2>1. BusMsg(First(m)) \in Pending(q)
      BY <1>3, <1>9, <1>10
    <2>2. ASSUME NEW other \in Pending(q) PROVE BusMsg(First(m)).id <= other.id
      <3>1. PICK i \in DOMAIN q : IsData(q[i]) /\ other = BusMsg(q[i])
        BY <1>9
      <3>2. First(m).id <= q[i].id
        BY <1>3, <1>4, <1>5, <1>10, <3>1
      <3>3. QED
        BY <3>1, <3>2 DEF BusMsg
    <2>3. Pending(t) = Pending(q) \ {BusMsg(First(m))}
      <3>1. ASSUME NEW x PROVE x \in Pending(t) <=> x \in Pending(q) /\ x # BusMsg(First(m))
        BY <1>3, <1>6, <1>8, <1>9, <1>10
      <3>2. QED
        BY <3>1
    <2>4. QED
      BY <1>10, <2>1, <2>2, <2>3 DEF q, t
  <1>11. CASE ~IsData(First(m))
    <2>1. ASSUME NEW x PROVE x \in Pending(t) <=> x \in Pending(q)
      BY <1>3, <1>8, <1>9, <1>11
    <2>2. Pending(t) = Pending(q)
      BY <2>1
    <2>3. QED
      BY <1>11, <2>2 DEF q, t
  <1>12. QED
    BY <1>10, <1>11

\* A module that is not attached has no queue and no links on the bus.
LEMMA DetachedBus ==
  ASSUME NEW m, m \notin modules
  PROVE  BusQueue(m) = {} /\ BusLinks(m) = {} /\ ~Live(m)
  BY DEF BusQueue, BusLinks, Live

LEMMA InitBus == Init => Bus!BusInit
  BY DEF Init, Bus!BusInit, BusQueue, BusLinks, Live

\* The mapping in the state after a step.
LEMMA PrimedMapping ==
  ASSUME NEW n
  PROVE  /\ Live(n)' = (n \in modules' /\ sock'[fd'[n]] = "open")
         /\ BusQueue(n)' = IF Live(n)' THEN Pending(rcvq'[fd'[n]]) ELSE {}
         /\ BusLinks(n)' = IF Live(n)' THEN {s \in Modules : <<"data", s>> \in subs'[fd'[n]]} ELSE {}
  BY DEF Live, BusQueue, BusLinks, Pending, IsData, BusMsg

\* A module whose socket a step leaves alone looks the same on the bus.
LEMMA SameModule ==
  ASSUME NEW n, n \in modules <=> n \in modules',
         n \in modules => /\ fd'[n] = fd[n] /\ sock'[fd[n]] = sock[fd[n]]
                          /\ subs'[fd[n]] = subs[fd[n]]
                          /\ Pending(rcvq'[fd[n]]) = Pending(rcvq[fd[n]])
  PROVE  Live(n)' = Live(n) /\ BusLinks(n)' = BusLinks(n) /\ BusQueue(n)' = BusQueue(n)
  <1>1. Live(n)' = Live(n)
    BY PrimedMapping DEF Live
  <1>2. CASE n \in modules
    <2>1. BusQueue(n)' = BusQueue(n)
      BY <1>1, <1>2, PrimedMapping DEF BusQueue
    <2>2. BusLinks(n)' = BusLinks(n)
      BY <1>1, <1>2, PrimedMapping DEF BusLinks
    <2>3. QED
      BY <1>1, <2>1, <2>2
  <1>3. CASE n \notin modules
    <2>1. ~Live(n) /\ ~Live(n)'
      BY <1>1, <1>3 DEF Live
    <2>2. QED
      BY <1>1, <2>1, PrimedMapping DEF BusLinks, BusQueue
  <1>4. QED
    BY <1>2, <1>3

\* The bus does not change in a step that leaves the sockets, their messages
\* and the running handlers alone.
LEMMA SameBus ==
  ASSUME TypeOK, UNCHANGED <<modules, published, last>>,
         \A n \in modules : fd'[n] = fd[n] /\ sock'[fd[n]] = sock[fd[n]]
                            /\ subs'[fd[n]] = subs[fd[n]]
                            /\ Pending(rcvq'[fd[n]]) = Pending(rcvq[fd[n]]),
         \A n \in Modules : wpc'[n] \in {"receive", "publish"} <=> wpc[n] \in {"receive", "publish"}
  PROVE  UNCHANGED Bus!busVars
  <1>1. \A n : Live(n)' = Live(n) /\ BusLinks(n)' = BusLinks(n) /\ BusQueue(n)' = BusQueue(n)
    BY SameModule
  <1>2. QED
    BY <1>1 DEF Bus!busVars

LEMMA AddModuleStep ==
  ASSUME IInv, NEW c \in Callers, NEW m \in Modules, AddModule(c, m)
  PROVE  Bus!BusAttach(m)
  <1>1. PICK f \in Fds : /\ sock[f] = "closed"
                         /\ fd' = [fd EXCEPT ![m] = f]
                         /\ sock' = [sock EXCEPT ![f] = "open"]
                         /\ subs' = [subs EXCEPT ![f] = {<<"quit", m>>}]
                         /\ rcvq' = [rcvq EXCEPT ![f] = <<>>]
    BY DEF AddModule
  <1>2. /\ \A n \in modules : fd[n] \in Fds /\ sock[fd[n]] = "open" /\ fd[n] # f
        /\ m \notin modules /\ modules' = modules \cup {m}
        /\ wpc' = [wpc EXCEPT ![m] = "lock"]
        /\ UNCHANGED <<published, last>>
    BY <1>1, FreeLock DEF AddModule
  <1>3. /\ fd'[m] = f /\ sock'[f] = "open" /\ subs'[f] = {<<"quit", m>>} /\ rcvq'[f] = <<>>
        /\ \A n \in modules : n # m /\ n \in Modules /\ fd'[n] = fd[n] /\ sock'[fd[n]] = sock[fd[n]]
                              /\ subs'[fd[n]] = subs[fd[n]] /\ rcvq'[fd[n]] = rcvq[fd[n]]
    BY <1>1, <1>2 DEF IInv, TypeOK
  <1>4. \A n : Live(n) <=> n \in modules
    BY <1>2 DEF Live
  <1>5. \A n : Live(n)' <=> n \in modules'
    BY <1>2, <1>3 DEF Live
  <1>6. ASSUME NEW n \in Modules
        PROVE  BusLinks(n)' = (IF n = m THEN {} ELSE BusLinks(n))
               /\ BusQueue(n)' = BusQueue(n)
    <2>1. CASE n = m
      <3>1. \A s : <<"data", s>> # <<"quit", m>>
        OBVIOUS
      <3>2. BusLinks(m)' = {}
        BY <1>3, <3>1 DEF BusLinks
      <3>3. BusQueue(m)' = {}
        BY <1>3 DEF BusQueue, Pending
      <3>4. QED
        BY <1>2, <2>1, <3>2, <3>3, DetachedBus
    <2>2. CASE n \in modules
      BY <1>2, <1>3, <2>2, SameModule
    <2>3. CASE n \notin modules'
      BY <1>2, <1>4, <1>5, <2>3 DEF BusLinks, BusQueue
    <2>4. QED
      BY <1>2, <2>1, <2>2, <2>3
  <1>7. {n \in modules : ~Live(n)}' = {n \in modules : ~Live(n)}
    BY <1>4, <1>5
  <1>8. {n \in Modules : wpc[n] \in {"receive", "publish"}}' = {n \in Modules : wpc[n] \in {"receive", "publish"}}
    <2>1. wpc[m] \in {"exited", "freed"}
      BY <1>2 DEF IInv, RunsAttached
    <2>2. QED
      BY <1>2, <2>1 DEF IInv, TypeOK
  <1>9. [n \in Modules |-> BusLinks(n)]' = [[n \in Modules |-> BusLinks(n)] EXCEPT ![m] = {}]
    BY <1>6
  <1>10. QED
    BY <1>2, <1>6, <1>7, <1>8, <1>9 DEF Bus!BusAttach

LEMMA AddLinkStep ==
  ASSUME IInv, NEW c \in Callers, NEW s \in Modules, NEW m \in Modules, AddLink(c, s, m)
  PROVE  Bus!BusLink(s, m)
  <1>1. /\ {s, m} \subseteq modules
        /\ subs' = [subs EXCEPT ![fd[m]] = @ \cup {<<"data", s>>}]
        /\ UNCHANGED <<modules, fd, sock, rcvq, wpc, published, last>>
        /\ \A n \in modules : n \in Modules /\ fd[n] \in Fds /\ Live(n)
    BY FreeLock DEF AddLink, Live, IInv, TypeOK
  <1>2. \A n : Live(n)' = Live(n) /\ BusQueue(n)' = BusQueue(n)
    BY <1>1 DEF Live, BusQueue, Pending, IsData, BusMsg
  <1>3. ASSUME NEW n \in Modules
        PROVE  BusLinks(n)' = IF n = m THEN BusLinks(n) \cup {s} ELSE BusLinks(n)
    <2>1. CASE n = m
      <3>1. subs'[fd[m]] = subs[fd[m]] \cup {<<"data", s>>}
        BY <1>1 DEF IInv, TypeOK
      <3>2. \A r : <<"data", r>> = <<"data", s>> <=> r = s
        OBVIOUS
      <3>3. \A r \in Modules : <<"data", r>> \in subs'[fd[m]] <=> <<"data", r>> \in subs[fd[m]] \/ r = s
        BY <3>1, <3>2
      <3>4. Live(m) /\ Live(m)' /\ fd'[m] = fd[m]
        BY <1>1, <1>2
      <3>5. QED
        BY <2>1, <3>3, <3>4 DEF BusLinks
    <2>2. CASE n # m /\ n \in modules
      <3>1. subs'[fd[n]] = subs[fd[n]] /\ fd'[n] = fd[n]
        BY <1>1, <2>2 DEF IInv, TypeOK, SocketInv
      <3>2. QED
        BY <1>2, <2>2, <3>1 DEF BusLinks
    <2>3. CASE n \notin modules
      BY <1>1, <2>3 DEF BusLinks, Live
    <2>4. QED
      BY <2>1, <2>2, <2>3
  <1>4. [n \in Modules |-> BusLinks(n)]'
        = [[n \in Modules |-> BusLinks(n)] EXCEPT ![m] = @ \cup {s}]
    BY <1>3
  <1>5. QED
    BY <1>1, <1>2, <1>4 DEF Bus!BusLink

\* The sinks whose buffer is full lose the message.
LEMMA PublishStep ==
  ASSUME IInv, NEW s \in modules, PublishData(s), modulesLock = NoThread,
         UNCHANGED <<modules, fd, sock, subs, last>>,
         \A n \in Modules : wpc'[n] \in {"receive", "publish"} <=> wpc[n] \in {"receive", "publish"}
  PROVE  \E lost \in SUBSET Modules : Bus!BusPublish(s, lost)
  <1> DEFINE msg == [kind |-> "data", src |-> s, id |-> published + 1]
             lost == {n \in modules : Len(rcvq[fd[n]]) >= RcvBuf}
  <1>1. /\ \A n \in modules : n \in Modules /\ fd[n] \in Fds /\ sock[fd[n]] = "open" /\ Live(n)
                              /\ rcvq[fd[n]] \in Seq(Msg) /\ Len(rcvq[fd[n]]) \in Nat
        /\ lost \subseteq Modules /\ published' = published + 1
    BY FreeLock DEF Live, IInv, TypeOK, PublishData
  <1>2. msg \in Msg /\ IsData(msg) /\ BusMsg(msg) = [src |-> s, id |-> published + 1]
    BY <1>1 DEF Msg, Kinds, IsData, BusMsg, IInv, TypeOK
  <1>3. \A n \in modules : rcvq'[fd[n]] = IF n \in lost THEN rcvq[fd[n]] ELSE Append(rcvq[fd[n]], msg)
    BY <1>1, BoundAssumption DEF PublishData, Send
  <1>4. \A n : Live(n)' = Live(n) /\ BusLinks(n)' = BusLinks(n)
    BY PrimedMapping DEF Live, BusLinks
  <1> HIDE DEF msg, lost
  <1>5. ASSUME NEW n \in Modules
        PROVE  BusQueue(n)' = IF n \in modules \ ({k \in modules : ~Live(k)} \cup lost)
                              THEN BusQueue(n) \cup {[src |-> s, id |-> published + 1]}
                              ELSE BusQueue(n)
    <2>1. CASE n \in modules
      <3>1. BusQueue(n) = Pending(rcvq[fd[n]]) /\ BusQueue(n)' = Pending(rcvq'[fd[n]])
        BY <1>1, <1>4, <2>1, PrimedMapping DEF BusQueue
      <3>2. Pending(rcvq'[fd[n]]) = IF n \in lost THEN Pending(rcvq[fd[n]])
                                    ELSE Pending(rcvq[fd[n]]) \cup {BusMsg(msg)}
        BY <1>1, <1>2, <1>3, <2>1, PendingAppend
      <3>3. QED
        BY <1>1, <1>2, <2>1, <3>1, <3>2
    <2>2. CASE n \notin modules
      <3>1. BusQueue(n) = {} /\ BusQueue(n)' = {}
        BY <1>4, <2>2, PrimedMapping, DetachedBus
      <3>2. QED
        BY <2>2, <3>1
    <2>3. QED
      BY <2>1, <2>2
  <1>6. Bus!BusPublish(s, lost)
    BY <1>1, <1>4, <1>5 DEF Bus!BusPublish
  <1>7. QED
    BY <1>1, <1>6

\* The quit message is not one of the bus.
LEMMA RemoveModuleStep ==
  ASSUME IInv, NEW c \in Callers, NEW m \in Modules, RemoveModule(c, m)
  PROVE  UNCHANGED Bus!busVars
  <1>1. rcvq' = Send(Quit(m)) /\ UNCHANGED <<modules, fd, sock, subs, wpc, published, last>>
    BY DEF RemoveModule
  <1>2. Quit(m) \in Msg /\ ~IsData(Quit(m))
    BY QuitType DEF Quit, IsData
  <1>3. \A f \in Fds : rcvq[f] \in Seq(Msg) /\ rcvq'[f] \in {rcvq[f], Append(rcvq[f], Quit(m))}
    BY <1>1 DEF Send, IInv, TypeOK
  <1>4. \A f \in Fds : Pending(rcvq'[f]) = Pending(rcvq[f])
    BY <1>2, <1>3, PendingAppend
  <1>5. \A n \in modules : fd[n] \in Fds
    BY DEF IInv, TypeOK
  <1>6. QED
    BY <1>1, <1>4, <1>5, SameBus DEF IInv

\* Closing the socket is what cuts a module off the bus.
LEMMA CloseStep ==
  ASSUME IInv, NEW m \in modules, sock[fd[m]] = "open", Close(fd[m]),
         UNCHANGED <<modules, fd, wpc, published, last>>
  PROVE  Bus!BusClose(m)
  <1>1. /\ m \in Modules /\ fd[m] \in Fds /\ Live(m)
        /\ \A n \in modules : n \in Modules /\ fd[n] \in Fds
    BY DEF Live, IInv, TypeOK
  <1>2. sock'[fd[m]] = "closed" /\ ~Live(m)'
    BY <1>1, PrimedMapping DEF Close, IInv, TypeOK
  <1>3. ASSUME NEW n \in Modules, n # m
        PROVE  Live(n)' = Live(n) /\ BusLinks(n)' = BusLinks(n) /\ BusQueue(n)' = BusQueue(n)
    <2>1. CASE n \in modules
      <3>1. fd[n] # fd[m]
        BY <1>3, <2>1 DEF IInv, SocketInv
      <3>2. sock'[fd[n]] = sock[fd[n]] /\ subs'[fd[n]] = subs[fd[n]] /\ rcvq'[fd[n]] = rcvq[fd[n]]
        BY <1>1, <2>1, <3>1 DEF Close, IInv, TypeOK
      <3>3. QED
        BY <2>1, <3>2, SameModule
    <2>2. CASE n \notin modules
      BY <2>2, SameModule
    <2>3. QED
      BY <2>1, <2>2
  <1>4. BusLinks(m)' = {} /\ BusQueue(m)' = {}
    BY <1>2, PrimedMapping
  <1>5. {n \in modules : ~Live(n)}' = {n \in modules : ~Live(n)} \cup {m}
    BY <1>1, <1>2, <1>3
  <1>6. /\ [n \in Modules |-> BusLinks(n)]' = [[n \in Modules |-> BusLinks(n)] EXCEPT ![m] = {}]
        /\ [n \in Modules |-> BusQueue(n)]' = [[n \in Modules |-> BusQueue(n)] EXCEPT ![m] = {}]
    BY <1>3, <1>4
  <1>7. m \in modules \ {n \in modules : ~Live(n)}
    BY <1>1
  <1>8. QED
    BY <1>5, <1>6, <1>7 DEF Bus!BusClose

LEMMA JoinModuleStep ==
  ASSUME IInv, BusInv, NEW c \in Callers, JoinModule(c)
  PROVE  \E m \in Modules : Bus!BusDetach(m)
  <1>0. PICK m \in modules : m = cmod[c]
    BY DEF JoinModule, IInv, LockInv
  <1>1. /\ m \in Modules /\ cpc[c] = "join" /\ wpc[m] = "exited"
        /\ modules' = modules \ {m} /\ fd' = [fd EXCEPT ![m] = NoFd]
        /\ UNCHANGED <<sock, subs, rcvq, wpc, published, last>>
    BY <1>0 DEF JoinModule, Joinable, IInv, TypeOK
  <1>2. ~Live(m) /\ ~Live(m)'
    BY <1>0, <1>1, PrimedMapping DEF BusInv, JoinedIsClosed, Live
  <1>3. ASSUME NEW n \in Modules, n # m
        PROVE  Live(n)' = Live(n) /\ BusLinks(n)' = BusLinks(n) /\ BusQueue(n)' = BusQueue(n)
    <2>1. fd'[n] = fd[n]
      BY <1>1, <1>3 DEF IInv, TypeOK
    <2>2. QED
      BY <1>1, <1>3, <2>1, SameModule
  <1>4. /\ BusLinks(m) = {} /\ BusQueue(m) = {}
        /\ BusLinks(m)' = {} /\ BusQueue(m)' = {}
    BY <1>2, PrimedMapping DEF BusLinks, BusQueue
  <1>5. {n \in modules : ~Live(n)}' = {n \in modules : ~Live(n)} \ {m}
    <2>1. \A n \in modules : n \in Modules
      BY DEF IInv, TypeOK
    <2>2. QED
      BY <1>1, <1>3, <2>1
  <1>6. /\ [n \in Modules |-> BusLinks(n)]' = [n \in Modules |-> BusLinks(n)]
        /\ [n \in Modules |-> BusQueue(n)]' = [n \in Modules |-> BusQueue(n)]
    BY <1>3, <1>4
  <1>7. m \in {n \in modules : ~Live(n)} \ {n \in Modules : wpc[n] \in {"receive", "publish"}}
    BY <1>1, <1>2
  <1>8. QED
    BY <1>1, <1>5, <1>6, <1>7 DEF Bus!BusDetach

\* A data message that m's worker takes or discards was the next of its queue.
LEMMA TakeStep ==
  ASSUME IInv, BusInv, NEW m \in modules, sock[fd[m]] = "open", rcvq[fd[m]] # <<>>,
         rcvq' = [rcvq EXCEPT ![fd[m]] = Tail(@)], IsData(First(m)),
         UNCHANGED <<modules, fd, sock, subs>>
  PROVE  /\ BusMsg(First(m)) \in BusQueue(m)
         /\ \A other \in BusQueue(m) : BusMsg(First(m)).id <= other.id
         /\ \A n \in Modules : Live(n)' = Live(n) /\ BusLinks(n)' = BusLinks(n)
         /\ \A n \in Modules : BusQueue(n)' = IF n = m THEN BusQueue(m) \ {BusMsg(First(m))}
                                                       ELSE BusQueue(n)
  <1>1. /\ Live(m) /\ m \in Modules /\ fd[m] \in Fds
        /\ \A n \in modules : fd[n] \in Fds
    BY DEF Live, IInv, TypeOK
  <1>2. BusQueue(m) = Pending(rcvq[fd[m]])
    BY <1>1 DEF BusQueue
  <1>3. \A n \in Modules : Live(n)' = Live(n) /\ BusLinks(n)' = BusLinks(n)
    BY PrimedMapping DEF Live, BusLinks
  <1>4. BusQueue(m)' = BusQueue(m) \ {BusMsg(First(m))}
    <2>1. rcvq'[fd[m]] = Tail(rcvq[fd[m]])
      BY <1>1 DEF IInv, TypeOK
    <2>2. BusQueue(m)' = Pending(Tail(rcvq[fd[m]]))
      BY <1>1, <1>3, <2>1, PrimedMapping
    <2>3. QED
      BY <1>2, <2>2, PendingTail
  <1>5. ASSUME NEW n \in Modules, n # m PROVE BusQueue(n)' = BusQueue(n)
    <2>1. n \in modules => rcvq'[fd[n]] = rcvq[fd[n]]
      BY <1>1, <1>5 DEF IInv, TypeOK, SocketInv
    <2>2. QED
      BY <2>1, SameModule
  <1>6. QED
    BY <1>2, <1>3, <1>4, <1>5, PendingTail

LEMMA DiscardStep ==
  ASSUME IInv, BusInv, NEW m \in Modules, WorkerDiscard(m) \/ WorkerSkip(m) \/ WorkerQuit(m)
  PROVE  Bus!BusSkip(m) \/ UNCHANGED Bus!busVars
  <1>1. /\ wpc[m] = "recv" /\ sock[fd[m]] = "open" /\ rcvq[fd[m]] # <<>>
        /\ rcvq' = [rcvq EXCEPT ![fd[m]] = Tail(@)]
        /\ UNCHANGED <<modules, fd, sock, subs, published, last>>
        /\ UNCHANGED wpc \/ wpc' = [wpc EXCEPT ![m] = "lock"] \/ wpc' = [wpc EXCEPT ![m] = "exited"]
    BY DEF WorkerDiscard, WorkerSkip, WorkerQuit, Take
  <1>2. m \in modules
    BY <1>1, WorkerHasSocket
  <1>3. \A n \in Modules : wpc'[n] \in {"receive", "publish"} <=> wpc[n] \in {"receive", "publish"}
    BY <1>1 DEF IInv, TypeOK
  <1>4. CASE IsData(First(m))
    <2>1. /\ BusMsg(First(m)) \in BusQueue(m)
          /\ \A other \in BusQueue(m) : BusMsg(First(m)).id <= other.id
          /\ \A n \in Modules : Live(n)' = Live(n) /\ BusLinks(n)' = BusLinks(n)
          /\ \A n \in Modules : BusQueue(n)' = IF n = m THEN BusQueue(m) \ {BusMsg(First(m))}
                                                        ELSE BusQueue(n)
      BY <1>1, <1>2, <1>4, TakeStep
    <2>2. \A n \in modules : n \in Modules
      BY DEF IInv, TypeOK
    <2> DEFINE msg == BusMsg(First(m))
    <2> HIDE DEF msg
    <2>3. /\ msg \in [n \in Modules |-> BusQueue(n)][m]
          /\ \A other \in [n \in Modules |-> BusQueue(n)][m] : msg.id <= other.id
          /\ [n \in Modules |-> BusQueue(n)]' = [[n \in Modules |-> BusQueue(n)] EXCEPT ![m] = @ \ {msg}]
      BY <2>1 DEF msg
    <2>4. {n \in modules : ~Live(n)}' = {n \in modules : ~Live(n)}
          /\ [n \in Modules |-> BusLinks(n)]' = [n \in Modules |-> BusLinks(n)]
          /\ {n \in Modules : wpc[n] \in {"receive", "publish"}}'
             = {n \in Modules : wpc[n] \in {"receive", "publish"}}
      BY <1>1, <1>3, <2>1, <2>2
    <2>5. Bus!BusSkip(m)
      BY <1>1, <2>3, <2>4 DEF Bus!BusSkip, Bus!IsNext
    <2>6. QED
      BY <2>5
  <1>5. CASE ~IsData(First(m))
    <2>1. rcvq'[fd[m]] = Tail(rcvq[fd[m]]) /\ Pending(rcvq'[fd[m]]) = Pending(rcvq[fd[m]])
      BY <1>1, <1>2, <1>5, PendingTail DEF IInv, TypeOK
    <2>2. \A n \in modules : Pending(rcvq'[fd[n]]) = Pending(rcvq[fd[n]])
      BY <1>1, <1>2, <2>1 DEF IInv, TypeOK, SocketInv
    <2>3. QED
      BY <1>1, <1>3, <2>2, SameBus DEF IInv
  <1>6. QED
    BY <1>4, <1>5

LEMMA ReceiveStep ==
  ASSUME IInv, BusInv, NEW m \in Modules, WorkerReceive(m)
  PROVE  Bus!BusDeliver(m)
  <1>1. /\ wpc[m] = "recv" /\ sock[fd[m]] = "open" /\ rcvq[fd[m]] # <<>>
        /\ rcvq' = [rcvq EXCEPT ![fd[m]] = Tail(@)]
        /\ Matched(m) /\ ~IsQuit(m, First(m))
        /\ UNCHANGED <<modules, fd, sock, subs, published>>
        /\ wpc' = [wpc EXCEPT ![m] = "receive"]
        /\ last' = [last EXCEPT ![m] = First(m).id]
    BY DEF WorkerReceive, Take
  <1>2. m \in modules /\ Live(m)
    BY <1>1, WorkerHasSocket DEF Live
  <1>3. IsData(First(m)) /\ First(m) \in Msg
    BY <1>1, <1>2, FirstIsNew
  <1> DEFINE msg == BusMsg(First(m))
  <1>4. /\ msg \in BusQueue(m)
        /\ \A other \in BusQueue(m) : msg.id <= other.id
        /\ \A n \in Modules : Live(n)' = Live(n) /\ BusLinks(n)' = BusLinks(n)
        /\ \A n \in Modules : BusQueue(n)' = IF n = m THEN BusQueue(m) \ {msg} ELSE BusQueue(n)
    BY <1>1, <1>2, <1>3, TakeStep
  <1>5. msg.id = First(m).id /\ msg.src \in BusLinks(m)
    <2>1. First(m).src \in Modules /\ First(m).kind = "data"
      BY <1>3 DEF Msg, IsData
    <2>2. <<"data", First(m).src>> \in subs[fd[m]]
      BY <1>1, <2>1 DEF Matched, Topic
    <2>3. QED
      BY <1>2, <2>1, <2>2 DEF BusLinks, BusMsg
  <1> HIDE DEF msg
  <1>6. /\ msg \in [n \in Modules |-> BusQueue(n)][m]
        /\ \A other \in [n \in Modules |-> BusQueue(n)][m] : msg.id <= other.id
        /\ msg.src \in [n \in Modules |-> BusLinks(n)][m]
        /\ [n \in Modules |-> BusQueue(n)]' = [[n \in Modules |-> BusQueue(n)] EXCEPT ![m] = @ \ {msg}]
        /\ last' = [last EXCEPT ![m] = msg.id]
    BY <1>1, <1>4, <1>5
  <1>7. /\ {n \in modules : ~Live(n)}' = {n \in modules : ~Live(n)}
        /\ [n \in Modules |-> BusLinks(n)]' = [n \in Modules |-> BusLinks(n)]
    <2>1. \A n \in modules : n \in Modules
      BY DEF IInv, TypeOK
    <2>2. QED
      BY <1>1, <1>4, <2>1
  <1>8. /\ {n \in Modules : wpc[n] \in {"receive", "publish"}}'
           = {n \in Modules : wpc[n] \in {"receive", "publish"}} \cup {m}
        /\ m \in modules \ ({n \in modules : ~Live(n)} \cup {n \in Modules : wpc[n] \in {"receive", "publish"}})
    BY <1>1, <1>2 DEF IInv, TypeOK
  <1>9. QED
    BY <1>1, <1>6, <1>7, <1>8 DEF Bus!BusDeliver, Bus!IsNext

LEMMA ReturnStep ==
  ASSUME IInv, NEW m \in Modules, WorkerReturn(m)
  PROVE  Bus!BusReturn(m)
  <1>1. /\ wpc[m] = "receive" /\ wpc' = [wpc EXCEPT ![m] = "lock"]
        /\ UNCHANGED <<modules, fd, sock, subs, rcvq, published, last>>
    BY DEF WorkerReturn
  <1>2. \A n : Live(n)' = Live(n) /\ BusLinks(n)' = BusLinks(n) /\ BusQueue(n)' = BusQueue(n)
    BY <1>1, SameModule
  <1>3. /\ {n \in Modules : wpc[n] \in {"receive", "publish"}}'
           = {n \in Modules : wpc[n] \in {"receive", "publish"}} \ {m}
        /\ m \in {n \in Modules : wpc[n] \in {"receive", "publish"}}
    BY <1>1 DEF IInv, TypeOK
  <1>4. QED
    BY <1>1, <1>2, <1>3 DEF Bus!BusReturn

LEMMA WorkerImplements ==
  ASSUME IInv, BusInv, NEW m \in Modules, WorkerStep(m)
  PROVE  Bus!BusNext \/ UNCHANGED Bus!busVars
  <1>1. CASE WorkerLock(m) \/ WorkerError(m) \/ WorkerCallPublish(m)
    <2>1. UNCHANGED <<modules, fd, sock, subs, rcvq, published, last>>
      BY <1>1 DEF WorkerLock, WorkerError, WorkerCallPublish
    <2>2. \A n \in Modules : wpc'[n] \in {"receive", "publish"} <=> wpc[n] \in {"receive", "publish"}
      BY <1>1 DEF WorkerLock, WorkerError, WorkerCallPublish, IInv, TypeOK
    <2>3. QED
      BY <2>1, <2>2, SameBus DEF IInv
  <1>2. CASE WorkerPublish(m)
    <2>1. wpc[m] = "publish" /\ modulesLock = NoThread /\ PublishData(m)
          /\ UNCHANGED <<modules, fd, sock, subs, last>>
          /\ wpc' = [wpc EXCEPT ![m] = "receive"]
      BY <1>2 DEF WorkerPublish
    <2>2. \A n \in Modules : wpc'[n] \in {"receive", "publish"} <=> wpc[n] \in {"receive", "publish"}
      BY <2>1 DEF IInv, TypeOK
    <2>3. m \in modules
      BY <2>1, WorkerHasSocket
    <2>4. \E lost \in SUBSET Modules : Bus!BusPublish(m, lost)
      BY <2>1, <2>2, <2>3, PublishStep
    <2>5. QED
      BY <2>4 DEF Bus!BusNext
  <1>3. CASE WorkerDiscard(m) \/ WorkerSkip(m) \/ WorkerQuit(m)
    BY <1>3, DiscardStep DEF Bus!BusNext
  <1>4. CASE WorkerReceive(m)
    BY <1>4, ReceiveStep DEF Bus!BusNext
  <1>5. CASE WorkerReturn(m)
    BY <1>5, ReturnStep DEF Bus!BusNext
  <1>6. QED
    BY <1>1, <1>2, <1>3, <1>4, <1>5 DEF WorkerStep

LEMMA CallerImplements ==
  ASSUME ~JoinFails, IInv, BusInv, NEW c \in Callers, CallerStep(c)
  PROVE  Bus!BusNext \/ UNCHANGED Bus!busVars
  <1>1. ASSUME NEW m \in Modules, AddModule(c, m)
        PROVE  Bus!BusNext
    BY <1>1, AddModuleStep DEF Bus!BusNext
  <1>2. ASSUME NEW m \in Modules, RemoveModule(c, m) PROVE UNCHANGED Bus!busVars
    BY <1>2, RemoveModuleStep
  <1>3. ASSUME NEW m \in Modules, RemoveModuleHarshly(c, m) PROVE Bus!BusNext
    <2>1. /\ m \in modules /\ Close(fd[m]) /\ modulesLock = NoThread
          /\ UNCHANGED <<modules, fd, wpc, published, last>>
      BY <1>3 DEF RemoveModuleHarshly
    <2>2. Bus!BusClose(m)
      BY <2>1, FreeLock, CloseStep
    <2>3. QED
      BY <2>2 DEF Bus!BusNext
  <1>4. ASSUME NEW m \in Modules, Publish(c, m) PROVE Bus!BusNext
    <2>1. m \in modules /\ modulesLock = NoThread /\ PublishData(m)
          /\ UNCHANGED <<modules, fd, sock, subs, wpc, last>>
      BY <1>4 DEF Publish
    <2>2. \E lost \in SUBSET Modules : Bus!BusPublish(m, lost)
      BY <2>1, PublishStep
    <2>3. QED
      BY <2>2 DEF Bus!BusNext
  <1>5. ASSUME NEW m \in Modules, PublishUnknown(c, m) PROVE UNCHANGED Bus!busVars
    BY <1>5, SameBus DEF PublishUnknown, IInv
  <1>6. ASSUME NEW l \in Routes, AddLink(c, l[1], l[2]) PROVE Bus!BusNext
    <2>1. l[1] \in Modules /\ l[2] \in Modules
      BY ThreadAssumption
    <2>2. Bus!BusLink(l[1], l[2])
      BY <1>6, <2>1, AddLinkStep
    <2>3. QED
      BY <2>1, <2>2 DEF Bus!BusNext
  <1>7. ASSUME NEW l \in Routes, RemoveLink(c, l[1], l[2]) PROVE UNCHANGED Bus!busVars
    BY <1>7, SameBus DEF RemoveLink, IInv
  <1>8. ASSUME StopModule(c) PROVE Bus!BusNext
    <2>1. PICK m \in modules : m = cmod[c]
      BY <1>8 DEF StopModule, IInv, LockInv
    <2>2. /\ cpc[c] = "stop" /\ Close(fd[m]) /\ m \in Modules
          /\ UNCHANGED <<modules, fd, wpc, published, last>>
      BY <1>8, <2>1 DEF StopModule, IInv, TypeOK
    <2>3. sock[fd[m]] = "open"
      <3>1. \A d \in Callers : cpc[d] # "join"
        BY <2>2 DEF IInv, LockInv
      <3>2. sock[fd[m]] # "closed" /\ sock[fd[m]] \in {"open", "closed"}
        BY <3>1 DEF IInv, SocketInv, TypeOK
      <3>3. QED
        BY <3>2
    <2>4. Bus!BusClose(m)
      BY <2>2, <2>3, CloseStep
    <2>5. QED
      BY <2>2, <2>4 DEF Bus!BusNext
  <1>9. ASSUME JoinModule(c) PROVE Bus!BusNext
    BY <1>9, JoinModuleStep DEF Bus!BusNext
  <1>10. QED
    BY <1>1, <1>2, <1>3, <1>4, <1>5, <1>6, <1>7, <1>8, <1>9 DEF CallerStep, JoinModuleFails

\* The broker keeps the promise of MessageBus: whatever its locks, sockets and
\* threads do, the modules see attachments, links, publications and deliveries
\* of one bus.  A join that fails would take a module off it that still receives.
THEOREM ImplementsBus ==
  ASSUME ~JoinFails
  PROVE  Spec => BusSpec
  <1>1. IInv /\ BusInv /\ [Next]_vars => [Bus!BusNext]_(Bus!busVars)
    <2> SUFFICES ASSUME IInv, BusInv, [Next]_vars
                 PROVE  Bus!BusNext \/ UNCHANGED Bus!busVars
      OBVIOUS
    <2>1. CASE UNCHANGED vars
      BY <2>1, SameBus DEF vars, IInv
    <2>2. QED
      BY <2>1, CallerImplements, WorkerImplements DEF Next
  <1>2. QED
    BY <1>1, InitBus, Invariance, BusInvariance, PTL DEF Spec, BusSpec, Bus!BusSpec
=============================================================================
