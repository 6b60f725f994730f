------------------------------ MODULE BleModule ------------------------------
(***************************************************************************)
(* The BLE module (modules/ble/src/ble.c) and the I/O sequencer it owns     *)
(* (bleio_seq_linux.c): one module for one device, from BLE_Create to       *)
(* BLE_Destroy.                                                            *)
(*                                                                         *)
(* Three threads share the state without a lock: the gateway's, which       *)
(* creates and destroys the module; the broker's worker, which runs         *)
(* BLE_Receive; and the event thread, which runs GLib's loop.  Callbacks    *)
(* come one at a time, to whoever iterates the default GMainContext: the    *)
(* event thread, BLE_Destroy while it waits, another BLE module's loop.     *)
(*                                                                         *)
(* External, as the code in src/ uses them: BLEIO_gatt_*, schedule_read,    *)
(* schedule_periodic and schedule_write, which take a reference for each    *)
(* operation they start, and ThreadAPI and GLib.                           *)
(***************************************************************************)
EXTENDS Naturals, Sequences, FiniteSets

CONSTANTS
    Config,        \* the instructions configured: sequences of types, longer than 1 for "sequential"
    Received,      \* types of the instructions that messages bring
    MaxReceived,   \* bound: instructions received
    OtherDevices   \* are there other BLE modules, whose loops share the context?

Types == {"read_once", "read_periodic", "write_once", "write_at_init", "write_at_exit"}

ASSUME BleAssumption ==
    /\ Config \in Seq(Seq(Types)) /\ Config # <<>>
    /\ \A i \in DOMAIN Config : Config[i] # <<>>
    /\ Received \subseteq Types
    /\ MaxReceived \in Nat /\ OtherDevices \in BOOLEAN

VARIABLES
    module,      \* BLE_HANDLE_DATA: "none", "live", "freed", or "failed" if BLE_Create gave up
    loop,        \* the event thread: "none", "starting", "running", "quit", "exited"
    conn,        \* the connection attempt: "none", "pending", "failed", "done"
    seqState,    \* BLEIO_SEQ_HANDLE_DATA.state
    refs,        \* its reference count; the handle is freed at zero
    instrs,      \* its vector of instructions
    ops,         \* operations under way, by the instruction they carry out
    stale,       \* those whose instruction's memory has been given up
    tried,       \* steps of instructions carried out, or given up as the layer below refused one
    run,         \* BLEIO_Seq_Run: 0, or the index of the next instruction
    main,        \* the gateway's thread in the removal of the module
    early,       \* the removal began before the connection attempt had ended
    destroyed,   \* is_destroy_complete
    timedOut,    \* BLE_Destroy gave up waiting for it
    received,    \* instructions received
    crashed      \* memory was used after it had been freed, or never set

vars == <<module, loop, conn, seqState, refs, instrs, ops, stale, tried, run, main,
          early, destroyed, timedOut, received, crashed>>
seqVars == <<seqState, refs, instrs, ops, stale, tried, run>>

\* parse_instructions chains the steps of a "sequential" entry by nextInst;
\* ble_instr_to_bleioseq_instr copies each entry and sets nextInst to NULL.
Converted == [i \in DOMAIN Config |-> <<Head(Config[i])>>]

\* An operation: in[1] tells a vector element from a received copy, chain the steps left.
Elements == {"vector"} \X (1..(Len(Config) + MaxReceived))
Copies   == {"copy"} \X (1..MaxReceived)
Op(in, chain) == [in |-> in, chain |-> chain]
Step(op) == <<op.in, Len(op.chain)>>
Exits == {i \in DOMAIN instrs : instrs[i][1] = "write_at_exit"}
Gone == module \in {"freed", "failed"}
Destroying == main \notin {"out", "detached"}

TypeOK ==
    /\ module \in {"none", "live", "freed", "failed"}
    /\ loop \in {"none", "starting", "running", "quit", "exited"}
    /\ conn \in {"none", "pending", "failed", "done"}
    /\ seqState \in {"idle", "running", "error", "shutting_down"}
    /\ refs \in Nat
    /\ instrs \in Seq(Seq(Types)) /\ Len(instrs) <= Len(Config) + MaxReceived
    /\ \A op \in ops : op.in \in Elements \cup Copies /\ op.chain \in Seq(Types) \ {<<>>}
    /\ \A op, other \in ops : op.in = other.in => op = other
    /\ stale \subseteq Elements
    /\ run \in 0..(Len(Config) + 1)
    /\ main \in {"out", "detached", "release", "wait", "quit", "join", "done"}
    /\ {early, destroyed, timedOut, crashed} \subseteq BOOLEAN
    /\ received \in 0..MaxReceived

Init ==
    /\ module = "none" /\ loop = "none" /\ conn = "none"
    /\ seqState = "idle" /\ refs = 0 /\ instrs = <<>>
    /\ ops = {} /\ stale = {} /\ tried = {} /\ run = 0
    /\ main = "out" /\ received = 0
    /\ early = FALSE /\ destroyed = FALSE /\ timedOut = FALSE /\ crashed = FALSE
-----------------------------------------------------------------------------
\* BLE_Create: the sequencer, the event thread and a connection attempt.  Failures
\* before the sequencer exists undo everything: a stuttering step.
Create ==
    /\ module = "none"
    /\ module' = "live" /\ loop' = "starting" /\ conn' = "pending"
    /\ refs' = 1 /\ instrs' = Converted
    /\ UNCHANGED <<seqState, ops, stale, tried, run, main, early, destroyed, timedOut, received, crashed>>

\* init_glib_loop fails, or BLEIO_gatt_connect: terminate_event_dispatcher waits for the
\* loop to run and quits it, or gives up after a time.  Nothing waits for the thread, nor
\* for the exit writes that BLEIO_Seq_Destroy schedules.
CreateFails ==
    /\ module = "none"
    /\ module' = "failed" /\ loop' \in {"none", "quit", "starting"}
    /\ seqState' = "shutting_down" /\ instrs' = Converted
    /\ \E S \in SUBSET {i \in DOMAIN Config : Head(Config[i]) = "write_at_exit"} :
        /\ ops' = {Op(<<"vector", i>>, <<"write_at_exit">>) : i \in S}
        /\ refs' = Cardinality(S)
    /\ UNCHANGED <<conn, stale, tried, run, main, early, destroyed, timedOut, received, crashed>>

\* event_dispatcher: g_main_loop_run, then g_main_loop_unref(handle_data->main_loop).
LoopStarts ==
    /\ loop = "starting" /\ loop' = "running"
    /\ crashed' \in {crashed, crashed \/ Gone}
    /\ UNCHANGED <<module, conn, seqVars, main, early, destroyed, timedOut, received>>

LoopExits ==
    /\ loop = "quit" /\ loop' = "exited"
    /\ crashed' \in {crashed, crashed \/ Gone}
    /\ UNCHANGED <<module, conn, seqVars, main, early, destroyed, timedOut, received>>
-----------------------------------------------------------------------------
\* Somebody iterates the context, and is not in a callback; a loop that is told to quit
\* ends its iteration first.
Dispatching ==
    /\ run = 0
    /\ loop \in {"running", "quit"} \/ main = "wait" \/ (OtherDevices /\ module # "none")

\* on_connect_complete: after a success BLEIO_Seq_Run begins.  Its last line sets the
\* state whatever it found, so that a sequence that is not idle ends in error.
ConnectComplete ==
    /\ conn = "pending" /\ Dispatching
    /\ \/ conn' = "failed" /\ UNCHANGED <<seqState, run>>
       \/ /\ conn' = "done"
          /\ \/ seqState = "idle" /\ seqState' = "running" /\ run' = 1
             \/ seqState # "idle" /\ seqState' = "error" /\ UNCHANGED run
    /\ crashed' \in {crashed, crashed \/ Gone \/ refs = 0}
    /\ UNCHANGED <<module, loop, refs, instrs, ops, stale, tried, main, early, destroyed, timedOut, received>>

\* Mutation of RunInstruction: the loop ends at a WRITE_AT_EXIT instruction.
RunUntilExit ==
    /\ run \in DOMAIN Config
    /\ IF run \in Exits THEN run' = Len(Config) + 1 /\ UNCHANGED <<refs, ops>>
       ELSE /\ run' = run + 1
            /\ ops' = ops \cup {Op(<<"vector", run>>, instrs[run])} /\ refs' = refs + 1
    /\ UNCHANGED <<module, loop, conn, seqState, instrs, stale, tried, main, early, destroyed,
                   timedOut, received, crashed>>

\* One instruction of the loop of BLEIO_Seq_Run is scheduled, or cannot be: the loop ends.
RunInstruction ==
    /\ run \in DOMAIN Config
    /\ LET in == <<"vector", run>> IN
       \/ /\ run \in Exits /\ run' = run + 1
          /\ UNCHANGED <<seqState, refs, ops, tried>>
       \/ /\ run \notin Exits /\ run' = run + 1
          /\ ops' = ops \cup {Op(in, instrs[run])} /\ refs' = refs + 1
          /\ UNCHANGED <<seqState, tried>>
       \/ /\ run \notin Exits /\ run' = 0
          /\ seqState' = "error" /\ tried' = tried \cup {<<in, Len(instrs[run])>>}
          /\ UNCHANGED <<refs, ops>>
    /\ crashed' \in {crashed, crashed \/ refs = 0}
    /\ UNCHANGED <<module, loop, conn, instrs, stale, main, early, destroyed, timedOut, received>>

\* The end of BLEIO_Seq_Run: the result was never set if nothing was scheduled.
RunEnds ==
    /\ run = Len(Config) + 1 /\ run' = 0
    /\ seqState' \in IF DOMAIN Config \subseteq Exits THEN {"running", "error"} ELSE {"running"}
    /\ crashed' \in {crashed, crashed \/ refs = 0}
    /\ UNCHANGED <<module, loop, conn, refs, instrs, ops, stale, tried, main, early, destroyed, timedOut, received>>
-----------------------------------------------------------------------------
\* dec_ref_handle, n times: at zero on_destroy_complete is called, if BLEIO_Seq_Destroy
\* set it, and the instructions are freed along their nextInst, which
\* BLEIO_Seq_AddInstruction does not set.
DecRef(n) ==
    /\ refs' = refs - n
    /\ destroyed' = (destroyed \/ (refs = n /\ Destroying))
Freeing(n) == refs = n /\ Len(instrs) > Len(Config)

\* on_read_complete of a periodic read, which goes on until the sequence shuts down.
ReadAgain(op) ==
    /\ Head(op.chain) = "read_periodic" /\ seqState # "shutting_down"
    /\ tried' = tried \cup {Step(op)}
    /\ crashed' \in {crashed, crashed \/ Gone \/ op.in \in stale}
    /\ UNCHANGED <<refs, ops, destroyed>>

\* The last read or write of an operation; on_seqential_instruction_complete schedules
\* the next step of the instruction, if it has one and the layer below takes it.
LastTime(op) ==
    /\ Head(op.chain) = "read_periodic" => seqState = "shutting_down"
    /\ \E next \in SUBSET {Op(op.in, Tail(op.chain))} :
        /\ Tail(op.chain) = <<>> => next = {}
        /\ ops' = (ops \ {op}) \cup next
        /\ tried' = tried \cup {Step(op)}
                         \cup (IF next = {} THEN {<<op.in, n>> : n \in DOMAIN Tail(op.chain)} ELSE {})
        /\ LET n == 1 - Cardinality(next) IN
            /\ DecRef(n)
            /\ crashed' \in {crashed, crashed \/ Gone \/ op.in \in stale \/ Freeing(n)}

Complete(op) ==
    /\ Dispatching
    /\ ReadAgain(op) \/ LastTime(op)
    /\ UNCHANGED <<module, loop, conn, seqState, instrs, stale, run, main, early, timedOut, received>>
-----------------------------------------------------------------------------
\* BLE_Receive, on the worker's thread while the module is attached: a copy of the
\* instruction is scheduled, or refused.  A sequence that does not run refuses them all.
Receive(type) ==
    /\ module = "live" /\ main = "out" /\ seqState = "running" /\ type # "write_at_exit"
    /\ received < MaxReceived /\ received' = received + 1
    /\ \/ /\ ops' = ops \cup {Op(<<"copy", received'>>, <<type>>)}
          /\ refs' = refs + 1 /\ UNCHANGED tried
       \/ /\ tried' = tried \cup {<<<<"copy", received'>>, 1>>}
          /\ UNCHANGED <<refs, ops>>
    /\ UNCHANGED <<module, loop, conn, seqState, instrs, stale, run, main, early, destroyed, timedOut, crashed>>

\* A WRITE_AT_EXIT instruction is appended to the vector: the elements, to which the
\* operations under way point, may move.
ReceiveExit ==
    /\ module = "live" /\ main = "out" /\ seqState = "running" /\ "write_at_exit" \in Received
    /\ received < MaxReceived /\ received' = received + 1
    /\ instrs' = Append(instrs, <<"write_at_exit">>)
    /\ stale' = stale \cup {op.in : op \in {o \in ops : o.in[1] = "vector"}}
                     \cup {<<"vector", n>> : n \in {run} \cap DOMAIN Config}
    /\ UNCHANGED <<module, loop, conn, seqState, refs, ops, tried, run, main, early, destroyed, timedOut, crashed>>
-----------------------------------------------------------------------------
\* Broker_RemoveModule: BLE_Receive is not called any more.
Detach ==
    /\ module = "live" /\ main = "out" /\ main' = "detached"
    /\ early' = (conn = "pending" \/ run # 0)
    /\ UNCHANGED <<module, loop, conn, seqVars, destroyed, timedOut, received, crashed>>

\* Mutation of ScheduleExits: the loop stops one instruction short.
ScheduleExitsButLast ==
    /\ main = "detached" /\ main' = "release"
    /\ seqState' = "shutting_down"
    /\ LET S == Exits \ {Len(instrs)} IN
        /\ ops' = ops \cup {Op(<<"vector", i>>, <<"write_at_exit">>) : i \in S}
        /\ refs' = refs + Cardinality(S)
    /\ UNCHANGED <<module, loop, conn, instrs, stale, tried, run, early, destroyed, timedOut,
                   received, crashed>>

\* BLE_Destroy calls BLEIO_Seq_Destroy: the exit writes are scheduled, or refused, ...
ScheduleExits ==
    /\ main = "detached" /\ main' = "release"
    /\ seqState' = "shutting_down"
    /\ \E S \in SUBSET Exits :
        /\ ops' = ops \cup {Op(<<"vector", i>>, <<"write_at_exit">>) : i \in S}
        /\ refs' = refs + Cardinality(S)
        /\ tried' = tried \cup {<<<<"vector", i>>, 1>> : i \in Exits \ S}
    /\ UNCHANGED <<module, loop, conn, instrs, stale, run, early, destroyed, timedOut, received, crashed>>

\* Mutation of ReleaseSequence: the exit writes' references are given back too.
ReleaseSequenceTwice ==
    /\ main = "release" /\ main' = "wait"
    /\ DecRef(1 + Cardinality(ops))
    /\ UNCHANGED <<module, loop, conn, seqState, instrs, ops, stale, tried, run, early, timedOut, received, crashed>>

\* ... and the module's reference is given back.
ReleaseSequence ==
    /\ main = "release" /\ main' = "wait"
    /\ DecRef(1)
    /\ crashed' \in {crashed, crashed \/ Freeing(1)}
    /\ UNCHANGED <<module, loop, conn, seqState, instrs, ops, stale, tried, run, early, timedOut, received>>

\* Mutation of SequenceGone: the flag is not looked at.
SequenceNotAwaited ==
    /\ main = "wait" /\ main' = "quit"
    /\ UNCHANGED <<module, loop, conn, seqVars, early, destroyed, timedOut, received, crashed>>

\* The wait for on_destroy_complete ends, or is given up after five seconds.
SequenceGone ==
    /\ main = "wait" /\ destroyed /\ main' = "quit"
    /\ UNCHANGED <<module, loop, conn, seqVars, early, destroyed, timedOut, received, crashed>>

\* Mutation of TimeOut: the wait only ends when the flag is set.
WaitForEver ==
    /\ main = "wait" /\ destroyed /\ main' = "quit"
    /\ timedOut' = TRUE
    /\ UNCHANGED <<module, loop, conn, seqVars, early, destroyed, received, crashed>>

TimeOut ==
    /\ main = "wait" /\ ~destroyed /\ main' = "quit"
    /\ timedOut' = TRUE
    /\ UNCHANGED <<module, loop, conn, seqVars, early, destroyed, received, crashed>>

\* g_main_loop_quit says nothing to a loop that does not run yet.
QuitLoop ==
    /\ main = "quit" /\ main' = "join"
    /\ loop' = IF loop = "running" THEN "quit" ELSE loop
    /\ UNCHANGED <<module, conn, seqVars, early, destroyed, timedOut, received, crashed>>

\* Mutation of JoinAndFree: the thread is not joined.
FreeAtOnce ==
    /\ main = "join" /\ main' = "done"
    /\ module' = "freed"
    /\ UNCHANGED <<loop, conn, seqVars, early, destroyed, timedOut, received, crashed>>

\* ThreadAPI_Join, then free
JoinAndFree ==
    /\ main = "join" /\ loop = "exited" /\ main' = "done"
    /\ module' = "freed"
    /\ UNCHANGED <<loop, conn, seqVars, early, destroyed, timedOut, received, crashed>>
-----------------------------------------------------------------------------
LoopStep == LoopStarts \/ LoopExits
RunStep == RunInstruction \/ RunEnds
DestroyStep ==
    ScheduleExits \/ ReleaseSequence \/ SequenceGone \/ TimeOut \/ QuitLoop \/ JoinAndFree

Next ==
    /\ ~crashed
    /\ \/ Create \/ CreateFails \/ LoopStep
       \/ ConnectComplete \/ RunStep \/ \E op \in ops : Complete(op)
       \/ \E type \in Received : Receive(type)
       \/ ReceiveExit
       \/ Detach \/ DestroyStep

Spec == Init /\ [][Next]_vars

\* The threads run, and what was begun below the sequencer completes while somebody
\* dispatches its callbacks.  Nobody has to create or remove the module.
FairSpec ==
    /\ Spec
    /\ WF_vars(~crashed /\ LoopStep) /\ WF_vars(~crashed /\ RunStep)
    /\ WF_vars(~crashed /\ DestroyStep)
    /\ \A in \in Elements \cup Copies :
        WF_vars(~crashed /\ \E op \in ops : op.in = in /\ Complete(op))
-----------------------------------------------------------------------------
\* BLE_Destroy frees the handle when nothing can use it any more: the event thread is
\* gone and, unless the wait was given up or BLEIO_Seq_Run came in between, every
\* operation has completed.
ModuleOutlivesUsers ==
    module = "freed" => loop = "exited" /\ (timedOut \/ early \/ (ops = {} /\ refs = 0))

\* on_destroy_complete is called "once all WRITE_AT_EXIT instructions have been executed"
\* (bleio_seq_linux.c), those that messages brought included.
ExitWritesFirst ==
    destroyed => \A i \in Exits : <<<<"vector", i>>, 1>> \in tried

\* The sequencer lives as long as there is somebody to use it, if the removal let the
\* connection attempt end (BLEIO_Seq_Run takes no reference).
SequencerOutlivesUsers == (ops # {} \/ run # 0) /\ ~early => refs > 0

\* The module and its sequencer outlive their users.
LifetimeInv == TypeOK /\ ModuleOutlivesUsers /\ SequencerOutlivesUsers

\* Memory is misused only after the four things the code does not guard against: an
\* exit write that a message brings, a wait that is given up, a BLE_Create that fails, a
\* removal before the connection attempt has ended.
OnlyKnownCrashes ==
    crashed => Len(instrs) > Len(Config) \/ timedOut \/ module = "failed" \/ early

\* Every instruction configured is tried once the device is connected, unless one before
\* it cannot be scheduled or the module goes ...
Over == seqState = "error" \/ main # "out" \/ crashed
InstructionsRun ==
    \A i \in DOMAIN Config : Head(Config[i]) # "write_at_exit" =>
        (run = 1 ~> (Over \/ \E n \in 1..Len(Config[i]) : <<<<"vector", i>>, n>> \in tried))

\* ... and so is every step of one of the "sequential" type (modules/Readme.md).
SequencesRun ==
    \A i \in DOMAIN Config : Head(Config[i]) # "write_at_exit" =>
        (run = 1 ~> (Over \/ \A n \in 1..Len(Config[i]) : <<<<"vector", i>>, n>> \in tried))

\* BLE_Destroy returns, unless it told the loop to quit before it ran.
QuitLost == main = "join" /\ loop = "running"
DestroyReturnsUnlessQuitLost == Destroying ~> (module = "freed" \/ QuitLost \/ crashed)

\* BLE_Destroy returns, as the gateway that calls it expects.
DestroyReturns == Destroying ~> (module = "freed" \/ crashed)

\* Only an attached module publishes.
PublishesAttached ==
    [][\A op \in ops : Complete(op) /\ Head(op.chain) \in {"read_once", "read_periodic"}
                         => main = "out"]_vars
=============================================================================
