-------------------------- MODULE BleModule_proofs --------------------------
(***************************************************************************)
(* TLAPS proofs about BleModule: the reference count of the I/O sequencer  *)
(* is right whatever interleaves with the removal, BLE_Destroy frees the   *)
(* handle when nobody uses it, the exit writes come before the sequencer   *)
(* is reported destroyed, and memory is misused only in the ways the code  *)
(* does not guard against.                                                 *)
(***************************************************************************)
EXTENDS BleModule, FiniteSetTheorems, TLAPS

(* The inductive invariant: typing, in three parts, and ... *)
Scalars ==
    /\ module \in {"none", "live", "freed", "failed"}
    /\ loop \in {"none", "starting", "running", "quit", "exited"}
    /\ conn \in {"none", "pending", "failed", "done"}
    /\ seqState \in {"idle", "running", "error", "shutting_down"}
    /\ refs \in Nat
    /\ run \in 0..(Len(Config) + 1)
    /\ main \in {"out", "detached", "release", "wait", "quit", "join", "done"}
    /\ received \in 0..MaxReceived
Flags == {early, destroyed, timedOut, crashed} \subseteq BOOLEAN

\* ... the instructions: what BLE_Create converted, then the exit writes received,
InstrInv ==
    /\ instrs \in Seq(Seq(Types))
    /\ \A i \in DOMAIN instrs : instrs[i] # <<>>
    /\ Len(instrs) <= Len(Config) + received
    /\ module # "none" => Len(instrs) >= Len(Config)
    /\ \A i \in Exits : Len(instrs[i]) = 1
    /\ stale \subseteq Elements /\ (stale # {} => Len(instrs) > Len(Config))

IsElement(op) == op.in \in Elements

\* ... the operations: none is started twice, as each kind has a time of its own,
OpsInv ==
    /\ IsFiniteSet(ops)
    /\ \A op \in ops : /\ op.in \in Elements \cup Copies /\ op.chain \in Seq(Types) \ {<<>>}
                       /\ op = Op(op.in, op.chain)
    /\ \A op, other \in ops : op.in = other.in => op = other
    /\ \A op \in ops : IsElement(op) => op.in[2] \in DOMAIN instrs
    /\ \A op \in ops : IsElement(op) /\ op.in[2] \in Exits
                            => module = "failed" \/ main \notin {"out", "detached"}
    /\ \A op \in ops : IsElement(op) /\ op.in[2] \notin Exits
                            => conn = "done" /\ (run = 0 \/ op.in[2] < run)
    /\ \A op \in ops : op.in \in Copies => op.in[2] <= received

\* ... the sequencer's references: one for each operation and, until the module
\* gives it back, the module's,
Holds == module = "live" /\ main \in {"out", "detached", "release"}
RefInv == refs = Cardinality(ops) + (IF Holds THEN 1 ELSE 0)

\* ... the life of the module,
LifeInv ==
    /\ module = "none" => ops = {} /\ instrs = <<>> /\ loop = "none" /\ ~destroyed
    /\ module \in {"none", "failed"} <=> conn = "none"
    /\ conn = "none" => main = "out"
    /\ module = "freed" <=> main = "done"
    /\ module = "freed" => loop = "exited"
    /\ run # 0 => conn = "done"
    /\ main # "out" /\ ~early => conn \in {"failed", "done"} /\ run = 0
    /\ main \in {"quit", "join", "done"} => timedOut \/ destroyed
    /\ destroyed => main \in {"wait", "quit", "join", "done"} /\ (early \/ ops = {})

\* ... and the exit writes, under way or done once BLEIO_Seq_Destroy scheduled them.
ExitDone(i) == <<<<"vector", i>>, 1>> \in tried
ExitInv ==
    /\ main \notin {"out", "detached"} =>
        \A i \in Exits : ExitDone(i) \/ \E op \in ops : op.in = <<"vector", i>> /\ Len(op.chain) = 1
    /\ destroyed => \A i \in Exits : ExitDone(i)

BleInv == Scalars /\ Flags /\ InstrInv /\ OpsInv /\ RefInv /\ LifeInv /\ ExitInv /\ OnlyKnownCrashes
-----------------------------------------------------------------------------
(* Facts about the operators.                                              *)

\* The conversion keeps one step of every entry.
LEMMA ConvertedSteps ==
  /\ Converted \in Seq(Seq(Types)) /\ Len(Converted) = Len(Config)
  /\ \A i \in DOMAIN Converted :
        Converted[i] = <<Head(Config[i])>> /\ Len(Converted[i]) = 1 /\ Converted[i] # <<>>
  <1>1. \A i \in DOMAIN Config : Head(Config[i]) \in Types
    BY BleAssumption
  <1>2. DOMAIN Config = 1..Len(Config) /\ Len(Config) \in Nat
    BY BleAssumption
  <1>3. \A i \in 1..Len(Config) : <<Head(Config[i])>> \in Seq(Types)
    BY <1>1, <1>2
  <1>4. QED
    BY <1>2, <1>3 DEF Converted

\* The exit writes of a set of elements are as many as the elements, ...
ExitWrites(S) == {Op(<<"vector", i>>, <<"write_at_exit">>) : i \in S}

LEMMA ExitWritesCount ==
  ASSUME NEW n \in Nat, NEW S \in SUBSET (1..n)
  PROVE  /\ IsFiniteSet(S) /\ IsFiniteSet(ExitWrites(S))
         /\ Cardinality(ExitWrites(S)) = Cardinality(S)
  <1>0. IsFiniteSet(1..n)
    BY FS_Interval
  <1>1. IsFiniteSet(S)
    BY <1>0, FS_Subset
  <1> DEFINE f == [i \in S |-> Op(<<"vector", i>>, <<"write_at_exit">>)]
  <1>2. \A i, j \in S : f[i] = f[j] => i = j
    BY DEF Op
  <1>3. f \in Bijection(S, ExitWrites(S))
    BY <1>2 DEF Bijection, Injection, Surjection, ExitWrites, IsInjective
  <1>4. QED
    BY <1>1, <1>3, FS_Bijection DEF ExistsBijection

\* ... and an operation under way is counted.
LEMMA OpsCount ==
  ASSUME OpsInv
  PROVE  Cardinality(ops) \in Nat /\ (Cardinality(ops) = 0 <=> ops = {})
  BY FS_CardinalityType, FS_EmptySet DEF OpsInv

\* The sequencer lives as long as it is used, ...
LEMMA UsersHold ==
  ASSUME BleInv, ops # {} \/ run # 0, ~early
  PROVE  refs > 0
  <1>1. CASE ops # {}
    BY <1>1, OpsCount DEF BleInv, RefInv
  <1>2. CASE run # 0
    <2>1. main = "out" /\ conn = "done"
      BY <1>2 DEF BleInv, LifeInv
    <2>2. Holds
      BY <2>1 DEF BleInv, LifeInv, Scalars, Holds
    <2>3. QED
      BY <2>2, OpsCount DEF BleInv, RefInv
  <1>3. QED
    BY <1>1, <1>2

\* ... and so does the module, unless the wait for it was given up.
LEMMA UsersKeepModule ==
  ASSUME BleInv, ops # {}, Gone
  PROVE  module = "failed" \/ timedOut \/ early
  BY DEF BleInv, LifeInv, Gone

LEMMA InitBle == Init => BleInv
  <1> SUFFICES ASSUME Init PROVE BleInv
    OBVIOUS
  <1>1. Len(Config) \in Nat
    BY BleAssumption
  <1>2. Scalars
    BY <1>1, BleAssumption DEF Init, Scalars
  <1>7. Flags
    BY DEF Init, Flags
  <1>3. InstrInv
    BY <1>1, BleAssumption DEF Init, InstrInv, Exits
  <1>4. OpsInv
    BY FS_EmptySet DEF Init, OpsInv
  <1>5. RefInv
    BY FS_EmptySet DEF Init, RefInv, Holds
  <1>6. LifeInv /\ ExitInv /\ OnlyKnownCrashes
    BY DEF Init, LifeInv, ExitInv, OnlyKnownCrashes
  <1> QED
    BY <1>2, <1>3, <1>4, <1>5, <1>6, <1>7 DEF BleInv
-----------------------------------------------------------------------------
(* BLE_Create.                                                             *)

LEMMA CreateInv == ASSUME BleInv, ~crashed, Create PROVE BleInv'
  <1>1. /\ instrs' = Converted /\ ops = {} /\ ops' = {} /\ ~destroyed /\ conn = "none" /\ main = "out"
        /\ stale = {} /\ received \in Nat
    BY BleAssumption DEF Create, BleInv, LifeInv, InstrInv, Scalars
  <1>2. Scalars'
    BY BleAssumption DEF BleInv, Scalars, Create
  <1>3. Flags'
    BY Zenon DEF BleInv, Flags, Create
  <1>4. InstrInv'
    BY <1>1, ConvertedSteps, BleAssumption DEF InstrInv, Exits, Create
  <1>5. OpsInv'
    BY <1>1, FS_EmptySet DEF OpsInv
  <1>6. RefInv'
    BY <1>1, FS_EmptySet DEF RefInv, Holds, Create
  <1>7. LifeInv'
    BY <1>1 DEF BleInv, LifeInv, Scalars, Create
  <1>8. ExitInv'
    BY <1>1, Zenon DEF ExitInv, Create
  <1>9. OnlyKnownCrashes'
    BY DEF OnlyKnownCrashes, Create
  <1> QED
    BY <1>2, <1>3, <1>4, <1>5, <1>6, <1>7, <1>8, <1>9 DEF BleInv

LEMMA CreateFailsInv == ASSUME BleInv, ~crashed, CreateFails PROVE BleInv'
  <1>1. /\ instrs' = Converted /\ ~destroyed /\ conn = "none" /\ main = "out"
        /\ stale = {} /\ received \in Nat /\ Len(Config) \in Nat
    BY BleAssumption DEF CreateFails, BleInv, LifeInv, InstrInv, Scalars
  <1>2. PICK S \in SUBSET {i \in DOMAIN Config : Head(Config[i]) = "write_at_exit"} :
            ops' = ExitWrites(S) /\ refs' = Cardinality(S)
    BY DEF CreateFails, ExitWrites
  <1>3. S \subseteq 1..Len(Config)
    BY BleAssumption
  <1>4. /\ IsFiniteSet(ExitWrites(S)) /\ Cardinality(ExitWrites(S)) = Cardinality(S)
        /\ Cardinality(S) \in Nat
    BY <1>1, <1>3, ExitWritesCount, FS_CardinalityType
  <1>5. Scalars'
    BY <1>2, <1>4 DEF BleInv, Scalars, CreateFails
  <1>6. Flags'
    BY Zenon DEF BleInv, Flags, CreateFails
  <1>7. InstrInv'
    BY <1>1, ConvertedSteps, BleAssumption DEF InstrInv, Exits, CreateFails
  <1>8. OpsInv'
    <2>1. \A i \in S : i \in Exits' /\ i \in DOMAIN instrs' /\ i \in 1..Len(Config)
      BY <1>1, <1>3, ConvertedSteps DEF Exits
    <2>2. \A i \in S : <<"vector", i>> \in Elements
      BY <2>1, <1>1, BleAssumption DEF Elements
    <2>3. \A op \in ops' : \E i \in S : op = Op(<<"vector", i>>, <<"write_at_exit">>)
      BY <1>2 DEF ExitWrites
    <2>4. <<"write_at_exit">> \in Seq(Types) \ {<<>>}
      BY DEF Types
    <2>5. \A op \in ops' : /\ op.in \in Elements /\ op.chain \in Seq(Types) \ {<<>>}
                           /\ op = Op(op.in, op.chain)
                           /\ op.in[2] \in Exits' /\ op.in[2] \in DOMAIN instrs'
                           /\ op.in \notin Copies
      BY <2>1, <2>2, <2>3, <2>4 DEF Op, Copies
    <2>6. \A op, other \in ops' : op.in = other.in => op = other
      BY <2>3 DEF Op
    <2>7. module' = "failed"
      BY DEF CreateFails
    <2>8. QED
      BY <1>2, <1>4, <2>5, <2>6, <2>7 DEF OpsInv, IsElement
  <1>9. RefInv'
    <2>1. ~Holds'
      BY DEF Holds, CreateFails
    <2>2. QED
      BY <1>2, <1>4, <2>1 DEF RefInv
  <1>10. LifeInv'
    BY <1>1 DEF BleInv, LifeInv, Scalars, CreateFails
  <1>11. ExitInv'
    BY <1>1, Zenon DEF ExitInv, CreateFails
  <1>12. OnlyKnownCrashes'
    BY DEF OnlyKnownCrashes, CreateFails
  <1> QED
    BY <1>5, <1>6, <1>7, <1>8, <1>9, <1>10, <1>11, <1>12 DEF BleInv
-----------------------------------------------------------------------------
(* The event thread and the connection.                                    *)

LEMMA LoopStartsInv == ASSUME BleInv, ~crashed, LoopStarts PROVE BleInv'
  <1>1. Scalars'
    BY BleAssumption DEF BleInv, Scalars, LoopStarts, seqVars
  <1>2. Flags'
    BY Zenon DEF BleInv, Flags, LoopStarts, seqVars
  <1>3. InstrInv'
    BY DEF BleInv, InstrInv, Scalars, LifeInv, Exits, LoopStarts, seqVars
  <1>4. OpsInv'
    BY DEF BleInv, OpsInv, LifeInv, Scalars, IsElement, Exits, LoopStarts, seqVars
  <1>5. RefInv'
    BY DEF BleInv, RefInv, Holds, LifeInv, Scalars, LoopStarts, seqVars
  <1>6. LifeInv'
    BY DEF BleInv, LifeInv, Scalars, Flags, LoopStarts, seqVars
  <1>7. ExitInv'
    BY DEF BleInv, ExitInv, ExitDone, Exits, Scalars, LoopStarts, seqVars
  <1>8. OnlyKnownCrashes'
    BY DEF BleInv, OnlyKnownCrashes, Scalars, LifeInv, LoopStarts, seqVars, Gone
  <1> QED
    BY <1>1, <1>2, <1>3, <1>4, <1>5, <1>6, <1>7, <1>8 DEF BleInv

LEMMA LoopExitsInv == ASSUME BleInv, ~crashed, LoopExits PROVE BleInv'
  <1>1. Scalars'
    BY BleAssumption DEF BleInv, Scalars, LoopExits, seqVars
  <1>2. Flags'
    BY Zenon DEF BleInv, Flags, LoopExits, seqVars
  <1>3. InstrInv'
    BY DEF BleInv, InstrInv, Scalars, LifeInv, Exits, LoopExits, seqVars
  <1>4. OpsInv'
    BY DEF BleInv, OpsInv, LifeInv, Scalars, IsElement, Exits, LoopExits, seqVars
  <1>5. RefInv'
    BY DEF BleInv, RefInv, Holds, LifeInv, Scalars, LoopExits, seqVars
  <1>6. LifeInv'
    BY DEF BleInv, LifeInv, Scalars, Flags, LoopExits, seqVars
  <1>7. ExitInv'
    BY DEF BleInv, ExitInv, ExitDone, Exits, Scalars, LoopExits, seqVars
  <1>8. OnlyKnownCrashes'
    BY DEF BleInv, OnlyKnownCrashes, Scalars, LifeInv, LoopExits, seqVars, Gone
  <1> QED
    BY <1>1, <1>2, <1>3, <1>4, <1>5, <1>6, <1>7, <1>8 DEF BleInv

LEMMA ConnectCompleteInv == ASSUME BleInv, ~crashed, ConnectComplete PROVE BleInv'
  <1>1. Scalars'
    BY BleAssumption DEF BleInv, Scalars, ConnectComplete, Dispatching, seqVars
  <1>2. Flags'
    BY Zenon DEF BleInv, Flags, ConnectComplete, Dispatching, seqVars
  <1>3. InstrInv'
    BY DEF BleInv, InstrInv, Scalars, LifeInv, Exits, ConnectComplete, Dispatching, seqVars
  <1>4. OpsInv'
    BY DEF BleInv, OpsInv, LifeInv, Scalars, IsElement, Exits, ConnectComplete, Dispatching, seqVars
  <1>5. RefInv'
    BY DEF BleInv, RefInv, Holds, LifeInv, Scalars, ConnectComplete, Dispatching, seqVars
  <1>6. LifeInv'
    BY DEF BleInv, LifeInv, Scalars, Flags, ConnectComplete, Dispatching, seqVars
  <1>7. ExitInv'
    BY DEF BleInv, ExitInv, ExitDone, Exits, Scalars, ConnectComplete, Dispatching, seqVars
  <1>8. OnlyKnownCrashes'
    <2>1. main = "out" \/ early
      BY DEF BleInv, LifeInv, ConnectComplete
    <2>2. module = "live" \/ early
      BY <2>1 DEF BleInv, LifeInv, Scalars, ConnectComplete
    <2>3. Gone \/ refs = 0 => early
      BY <2>1, <2>2, OpsCount DEF Gone, Holds, BleInv, RefInv
    <2>4. QED
      BY <2>3 DEF OnlyKnownCrashes, ConnectComplete
  <1> QED
    BY <1>1, <1>2, <1>3, <1>4, <1>5, <1>6, <1>7, <1>8 DEF BleInv
-----------------------------------------------------------------------------
(* BLEIO_Seq_Run.                                                          *)

\* The instruction to be carried out is a configured one, which no operation has yet.
LEMMA NextInstruction ==
  ASSUME BleInv, run \in DOMAIN Config
  PROVE  /\ run \in 1..Len(Config) /\ run \in DOMAIN instrs /\ run \in Nat /\ Len(Config) \in Nat
         /\ instrs[run] \in Seq(Types) \ {<<>>}
         /\ <<"vector", run>> \in Elements /\ <<"vector", run>> \notin Copies
         /\ conn = "done" /\ module # "none"
         /\ run \notin Exits => \A op \in ops : op.in # <<"vector", run>>
  <1>1. /\ run \in 1..Len(Config) /\ run # 0 /\ run \in Nat /\ Len(Config) \in Nat
        /\ MaxReceived \in Nat
    BY BleAssumption
  <1>2. conn = "done" /\ module # "none"
    BY <1>1 DEF BleInv, LifeInv
  <1>3. run \in DOMAIN instrs /\ instrs[run] \in Seq(Types) \ {<<>>}
    BY <1>1, <1>2 DEF BleInv, InstrInv
  <1>4. <<"vector", run>> \in Elements /\ <<"vector", run>> \notin Copies
    BY <1>1 DEF Elements, Copies
  <1>5. ASSUME run \notin Exits, NEW op \in ops, op.in = <<"vector", run>> PROVE FALSE
    <2>1. IsElement(op) /\ op.in[2] = run
      BY <1>4, <1>5 DEF IsElement
    <2>2. run = 0 \/ run < run
      BY <2>1, <1>5 DEF BleInv, OpsInv
    <2>3. QED
      BY <2>2, <1>1
  <1>6. QED
    BY <1>1, <1>2, <1>3, <1>4, <1>5

LEMMA RunInstructionInv == ASSUME BleInv, ~crashed, RunInstruction PROVE BleInv'
  <1> DEFINE new == Op(<<"vector", run>>, instrs[run])
  <1>a. run \in DOMAIN Config
    BY DEF RunInstruction
  <1>b. UNCHANGED <<module, loop, conn, instrs, stale, main, early, destroyed, timedOut, received>>
    BY DEF RunInstruction
  <1>c. /\ run' = run + 1 /\ UNCHANGED <<ops, refs>> /\ UNCHANGED <<seqState, tried>> /\ run \in Exits
        \/ /\ run' = run + 1 /\ ops' = ops \cup {new} /\ refs' = refs + 1 /\ run \notin Exits
           /\ UNCHANGED <<seqState, tried>>
        \/ /\ run' = 0 /\ seqState' = "error" /\ UNCHANGED <<ops, refs>> /\ run \notin Exits
           /\ tried' = tried \cup {<<<<"vector", run>>, Len(instrs[run])>>}
    BY DEF RunInstruction
  <1>d. tried \subseteq tried'
    BY <1>c
  <1>e. /\ new.in = <<"vector", run>> /\ new.chain = instrs[run] /\ new = Op(new.in, new.chain)
        /\ new.in[2] = run
    BY DEF Op
  <1>f. UNCHANGED Exits
    BY <1>b DEF Exits
  <1>g. ops' # ops => ops' = ops \cup {new} /\ refs' = refs + 1 /\ run \notin Exits /\ run' = run + 1
    BY <1>c
  <1>h. run' = 0 \/ run' = run + 1
    BY <1>c
  <1> HIDE DEF new
  <1>1. Scalars'
    BY <1>a, <1>b, <1>c, NextInstruction DEF BleInv, Scalars
  <1>2. Flags'
    <2>1. crashed' \in BOOLEAN
      BY Zenon DEF BleInv, Flags, RunInstruction
    <2>2. QED
      BY <1>b, <2>1, Zenon DEF BleInv, Flags
  <1>3. InstrInv'
    BY <1>b, <1>f DEF BleInv, InstrInv
  <1>4. OpsInv'
    <2>1. CASE UNCHANGED ops
      BY <2>1, <1>a, <1>b, <1>f, <1>h, NextInstruction
         DEF BleInv, OpsInv, IsElement, Elements
    <2>2. CASE ops' # ops
      <3>1. IsFiniteSet(ops')
        BY <2>2, <1>g, FS_AddElement DEF BleInv, OpsInv
      <3>2. \A op \in ops' : /\ op.in \in Elements \cup Copies /\ op.chain \in Seq(Types) \ {<<>>}
                             /\ op = Op(op.in, op.chain)
        BY <2>2, <1>a, <1>e, <1>g, NextInstruction DEF BleInv, OpsInv
      <3>3. \A op, other \in ops' : op.in = other.in => op = other
        BY <2>2, <1>a, <1>e, <1>g, NextInstruction DEF BleInv, OpsInv
      <3>4. \A op \in ops : IsElement(op) => op.in[2] \in Nat
        BY DEF IsElement, Elements
      <3>5. /\ new.in[2] \in DOMAIN instrs' /\ new.in[2] \notin Exits' /\ conn' = "done"
            /\ new.in[2] < run' /\ new.in \notin Copies /\ new.in[2] \in Nat
        BY <2>2, <1>a, <1>b, <1>e, <1>f, <1>g, NextInstruction
      <3>6. QED
        BY <2>2, <1>a, <1>b, <1>f, <1>g, <3>1, <3>2, <3>3, <3>4, <3>5, NextInstruction
           DEF BleInv, OpsInv, IsElement
    <2>3. QED
      BY <2>1, <2>2
  <1>5. RefInv'
    <2>1. CASE UNCHANGED ops
      <3>1. UNCHANGED <<refs, ops, module, main>>
        BY <2>1, <1>a, <1>b, <1>c, <1>e, NextInstruction
      <3>2. QED
        BY <3>1 DEF BleInv, RefInv, Holds
    <2>2. CASE ops' # ops
      <3>1. new \notin ops
        BY <2>2, <1>g
      <3>2. Cardinality(ops') = Cardinality(ops) + 1
        BY <2>2, <1>g, <3>1, FS_AddElement DEF BleInv, OpsInv
      <3>3. QED
        BY <2>2, <1>b, <1>g, <3>2, OpsCount DEF BleInv, RefInv, Holds
    <2>3. QED
      BY <2>1, <2>2
  <1>6. LifeInv'
    <2>1. main = "out" \/ early
      BY <1>a, NextInstruction DEF BleInv, LifeInv
    <2>2. run' # 0 => conn' = "done"
      BY <1>a, <1>b, NextInstruction
    <2>3. module # "none" /\ conn = "done"
      BY <1>a, NextInstruction
    <2>4. QED
      BY <1>b, <2>1, <2>2, <2>3 DEF BleInv, LifeInv
  <1>7. ExitInv'
    BY <1>b, <1>d, <1>f, <1>g DEF BleInv, ExitInv, ExitDone
  <1>8. OnlyKnownCrashes'
    <2>1. refs = 0 => early
      BY <1>a, NextInstruction, UsersHold
    <2>2. QED
      BY <2>1 DEF OnlyKnownCrashes, RunInstruction
  <1> QED
    BY <1>1, <1>2, <1>3, <1>4, <1>5, <1>6, <1>7, <1>8 DEF BleInv

LEMMA RunEndsInv == ASSUME BleInv, ~crashed, RunEnds PROVE BleInv'
  <1>1. Scalars'
    BY BleAssumption DEF BleInv, Scalars, RunEnds, seqVars
  <1>2. Flags'
    BY Zenon DEF BleInv, Flags, RunEnds, seqVars
  <1>3. InstrInv'
    BY DEF BleInv, InstrInv, Scalars, LifeInv, Exits, RunEnds, seqVars
  <1>4. OpsInv'
    BY DEF BleInv, OpsInv, LifeInv, Scalars, IsElement, Exits, RunEnds, seqVars
  <1>5. RefInv'
    BY DEF BleInv, RefInv, Holds, LifeInv, Scalars, RunEnds, seqVars
  <1>6. LifeInv'
    BY DEF BleInv, LifeInv, Scalars, Flags, RunEnds, seqVars
  <1>7. ExitInv'
    BY DEF BleInv, ExitInv, ExitDone, Exits, Scalars, RunEnds, seqVars
  <1>8. OnlyKnownCrashes'
    <2>1. refs = 0 => early
      BY UsersHold DEF RunEnds, BleInv, Scalars
    <2>2. QED
      BY <2>1 DEF OnlyKnownCrashes, RunEnds
  <1> QED
    BY <1>1, <1>2, <1>3, <1>4, <1>5, <1>6, <1>7, <1>8 DEF BleInv
-----------------------------------------------------------------------------
(* The removal of the module, save what it does to the operations.         *)

LEMMA DetachInv == ASSUME BleInv, ~crashed, Detach PROVE BleInv'
  <1>1. Scalars'
    BY BleAssumption DEF BleInv, Scalars, Detach, seqVars
  <1>2. Flags'
    BY Zenon DEF BleInv, Flags, Detach, seqVars
  <1>3. InstrInv'
    BY DEF BleInv, InstrInv, Scalars, LifeInv, Exits, Detach, seqVars
  <1>4. OpsInv'
    BY DEF BleInv, OpsInv, LifeInv, Scalars, IsElement, Exits, Detach, seqVars
  <1>5. RefInv'
    BY DEF BleInv, RefInv, Holds, LifeInv, Scalars, Detach, seqVars
  <1>6. LifeInv'
    BY DEF BleInv, LifeInv, Scalars, Flags, Detach, seqVars
  <1>7. ExitInv'
    BY DEF BleInv, ExitInv, ExitDone, Exits, Scalars, Detach, seqVars
  <1>8. OnlyKnownCrashes'
    BY DEF BleInv, OnlyKnownCrashes, Scalars, LifeInv, Detach, seqVars, Gone
  <1> QED
    BY <1>1, <1>2, <1>3, <1>4, <1>5, <1>6, <1>7, <1>8 DEF BleInv

LEMMA SequenceGoneInv == ASSUME BleInv, ~crashed, SequenceGone PROVE BleInv'
  <1>1. Scalars'
    BY BleAssumption DEF BleInv, Scalars, SequenceGone, seqVars
  <1>2. Flags'
    BY Zenon DEF BleInv, Flags, SequenceGone, seqVars
  <1>3. InstrInv'
    BY DEF BleInv, InstrInv, Scalars, LifeInv, Exits, SequenceGone, seqVars
  <1>4. OpsInv'
    BY DEF BleInv, OpsInv, LifeInv, Scalars, IsElement, Exits, SequenceGone, seqVars
  <1>5. RefInv'
    BY DEF BleInv, RefInv, Holds, LifeInv, Scalars, SequenceGone, seqVars
  <1>6. LifeInv'
    BY DEF BleInv, LifeInv, Scalars, Flags, SequenceGone, seqVars
  <1>7. ExitInv'
    BY DEF BleInv, ExitInv, ExitDone, Exits, Scalars, SequenceGone, seqVars
  <1>8. OnlyKnownCrashes'
    BY DEF BleInv, OnlyKnownCrashes, Scalars, LifeInv, SequenceGone, seqVars, Gone
  <1> QED
    BY <1>1, <1>2, <1>3, <1>4, <1>5, <1>6, <1>7, <1>8 DEF BleInv

LEMMA TimeOutInv == ASSUME BleInv, ~crashed, TimeOut PROVE BleInv'
  <1>1. Scalars'
    BY BleAssumption DEF BleInv, Scalars, TimeOut, seqVars
  <1>2. Flags'
    BY Zenon DEF BleInv, Flags, TimeOut, seqVars
  <1>3. InstrInv'
    BY DEF BleInv, InstrInv, Scalars, LifeInv, Exits, TimeOut, seqVars
  <1>4. OpsInv'
    BY DEF BleInv, OpsInv, LifeInv, Scalars, IsElement, Exits, TimeOut, seqVars
  <1>5. RefInv'
    BY DEF BleInv, RefInv, Holds, LifeInv, Scalars, TimeOut, seqVars
  <1>6. LifeInv'
    BY DEF BleInv, LifeInv, Scalars, Flags, TimeOut, seqVars
  <1>7. ExitInv'
    BY DEF BleInv, ExitInv, ExitDone, Exits, Scalars, TimeOut, seqVars
  <1>8. OnlyKnownCrashes'
    BY DEF BleInv, OnlyKnownCrashes, Scalars, LifeInv, TimeOut, seqVars, Gone
  <1> QED
    BY <1>1, <1>2, <1>3, <1>4, <1>5, <1>6, <1>7, <1>8 DEF BleInv

LEMMA QuitLoopInv == ASSUME BleInv, ~crashed, QuitLoop PROVE BleInv'
  <1>1. Scalars'
    BY BleAssumption DEF BleInv, Scalars, QuitLoop, seqVars
  <1>2. Flags'
    BY Zenon DEF BleInv, Flags, QuitLoop, seqVars
  <1>3. InstrInv'
    BY DEF BleInv, InstrInv, Scalars, LifeInv, Exits, QuitLoop, seqVars
  <1>4. OpsInv'
    BY DEF BleInv, OpsInv, LifeInv, Scalars, IsElement, Exits, QuitLoop, seqVars
  <1>5. RefInv'
    BY DEF BleInv, RefInv, Holds, LifeInv, Scalars, QuitLoop, seqVars
  <1>6. LifeInv'
    BY DEF BleInv, LifeInv, Scalars, Flags, QuitLoop, seqVars
  <1>7. ExitInv'
    BY DEF BleInv, ExitInv, ExitDone, Exits, Scalars, QuitLoop, seqVars
  <1>8. OnlyKnownCrashes'
    BY DEF BleInv, OnlyKnownCrashes, Scalars, LifeInv, QuitLoop, seqVars, Gone
  <1> QED
    BY <1>1, <1>2, <1>3, <1>4, <1>5, <1>6, <1>7, <1>8 DEF BleInv

LEMMA JoinAndFreeInv == ASSUME BleInv, ~crashed, JoinAndFree PROVE BleInv'
  <1>1. Scalars'
    BY BleAssumption DEF BleInv, Scalars, JoinAndFree, seqVars
  <1>2. Flags'
    BY Zenon DEF BleInv, Flags, JoinAndFree, seqVars
  <1>3. InstrInv'
    BY DEF BleInv, InstrInv, Scalars, LifeInv, Exits, JoinAndFree, seqVars
  <1>4. OpsInv'
    BY DEF BleInv, OpsInv, LifeInv, Scalars, IsElement, Exits, JoinAndFree, seqVars
  <1>5. RefInv'
    BY DEF BleInv, RefInv, Holds, LifeInv, Scalars, JoinAndFree, seqVars
  <1>6. LifeInv'
    BY DEF BleInv, LifeInv, Scalars, Flags, JoinAndFree, seqVars
  <1>7. ExitInv'
    BY DEF BleInv, ExitInv, ExitDone, Exits, Scalars, JoinAndFree, seqVars
  <1>8. OnlyKnownCrashes'
    BY DEF BleInv, OnlyKnownCrashes, Scalars, LifeInv, JoinAndFree, seqVars, Gone
  <1> QED
    BY <1>1, <1>2, <1>3, <1>4, <1>5, <1>6, <1>7, <1>8 DEF BleInv
-----------------------------------------------------------------------------
(* BLE_Receive.                                                            *)

LEMMA ReceiveInv ==
  ASSUME BleInv, ~crashed, NEW type \in Received, Receive(type)
  PROVE  BleInv'
  <1> DEFINE n == received + 1
             new == Op(<<"copy", n>>, <<type>>)
  <1>a. UNCHANGED <<module, loop, conn, seqState, instrs, stale, run, main, early, destroyed, timedOut, crashed>>
    BY DEF Receive
  <1>b. /\ module = "live" /\ main = "out" /\ received < MaxReceived /\ received' = n
        /\ \/ ops' = ops \cup {new} /\ refs' = refs + 1
           \/ UNCHANGED <<ops, refs>>
    BY DEF Receive
  <1>c. n \in 1..MaxReceived /\ received \in Nat
    BY <1>b, BleAssumption DEF BleInv, Scalars
  <1>d. /\ new.in = <<"copy", n>> /\ new.chain = <<type>> /\ new = Op(new.in, new.chain)
        /\ new.in[2] = n /\ new.in \in Copies /\ new.in \notin Elements
    BY <1>c DEF Op, Copies, Elements
  <1>e. new.chain \in Seq(Types) \ {<<>>}
    <2>1. type \in Types
      BY BleAssumption
    <2>2. <<type>> \in Seq(Types) /\ <<type>> # <<>>
      BY <2>1
    <2>3. QED
      BY <1>d, <2>2, Zenon
  <1>f. UNCHANGED Exits
    BY <1>a DEF Exits
  <1>g. \A op \in ops : op.in # new.in
    BY <1>c, <1>d DEF BleInv, OpsInv
  <1> HIDE DEF new
  <1>1. Scalars'
    BY <1>a, <1>b, <1>c DEF BleInv, Scalars
  <1>2. Flags'
    BY <1>a, Zenon DEF BleInv, Flags
  <1>3. InstrInv'
    BY <1>a, <1>b, <1>c, <1>f, BleAssumption DEF BleInv, InstrInv
  <1>4. OpsInv'
    <2>1. IsFiniteSet(ops')
      BY <1>b, FS_AddElement DEF BleInv, OpsInv
    <2>2. \A op \in ops' : /\ op.in \in Elements \cup Copies /\ op.chain \in Seq(Types) \ {<<>>}
                           /\ op = Op(op.in, op.chain)
      BY <1>b, <1>d, <1>e DEF BleInv, OpsInv
    <2>3. \A op, other \in ops' : op.in = other.in => op = other
      BY <1>b, <1>g DEF BleInv, OpsInv
    <2>4. \A op \in ops' : IsElement(op) => op \in ops
      BY <1>b, <1>d DEF IsElement
    <2>5. \A op \in ops' : op.in \in Copies => op.in[2] <= received'
      <3>1. \A op \in ops : op.in \in Copies => op.in[2] \in Nat /\ op.in[2] <= received
        BY DEF BleInv, OpsInv, Copies
      <3>2. QED
        BY <1>b, <1>c, <1>d, <3>1
    <2>6. QED
      BY <1>a, <1>f, <2>1, <2>2, <2>3, <2>4, <2>5 DEF BleInv, OpsInv, IsElement
  <1>5. RefInv'
    <2>1. new \notin ops => Cardinality(ops \cup {new}) = Cardinality(ops) + 1
      BY FS_AddElement DEF BleInv, OpsInv
    <2>2. QED
      BY <1>a, <1>b, <1>g, <2>1, OpsCount DEF BleInv, RefInv, Holds
  <1>6. LifeInv'
    BY <1>a, <1>b DEF BleInv, LifeInv
  <1>7. ExitInv'
    BY <1>a, <1>b, <1>f DEF BleInv, ExitInv, LifeInv
  <1>8. OnlyKnownCrashes'
    BY <1>a DEF OnlyKnownCrashes
  <1> QED
    BY <1>1, <1>2, <1>3, <1>4, <1>5, <1>6, <1>7, <1>8 DEF BleInv

LEMMA ReceiveExitInv == ASSUME BleInv, ~crashed, ReceiveExit PROVE BleInv'
  <1>a. UNCHANGED <<module, loop, conn, seqState, refs, ops, tried, run, main, early, destroyed, timedOut, crashed>>
    BY DEF ReceiveExit
  <1>b. /\ module = "live" /\ main = "out" /\ received < MaxReceived /\ received' = received + 1
        /\ instrs' = Append(instrs, <<"write_at_exit">>) /\ ~destroyed
    BY DEF ReceiveExit, BleInv, LifeInv
  <1>c. received \in Nat /\ MaxReceived \in Nat /\ Len(Config) \in Nat /\ Len(instrs) \in Nat
    BY BleAssumption DEF BleInv, Scalars, InstrInv
  <1>d. <<"write_at_exit">> \in Seq(Types)
    BY DEF Types
  <1>e. /\ instrs' \in Seq(Seq(Types)) /\ Len(instrs') = Len(instrs) + 1
        /\ DOMAIN instrs' = DOMAIN instrs \cup {Len(instrs) + 1}
        /\ \A i \in DOMAIN instrs : instrs'[i] = instrs[i]
        /\ instrs'[Len(instrs) + 1] = <<"write_at_exit">>
    BY <1>b, <1>d DEF BleInv, InstrInv
  <1>f. \A i \in DOMAIN instrs : i \in Exits' <=> i \in Exits
    BY <1>e DEF Exits
  <1>1. Scalars'
    BY <1>a, <1>b, <1>c DEF BleInv, Scalars
  <1>2. Flags'
    BY <1>a, Zenon DEF BleInv, Flags
  <1>3. InstrInv'
    <2>1. stale' \subseteq Elements
      <3>1. \A op \in ops : op.in[1] = "vector" => op.in \in Elements
        BY DEF BleInv, OpsInv, Elements, Copies
      <3>2. \A n \in {run} \cap DOMAIN Config : <<"vector", n>> \in Elements
        BY <1>c, BleAssumption DEF Elements
      <3>3. QED
        BY <3>1, <3>2 DEF BleInv, InstrInv, ReceiveExit
    <2>2. \A i \in Exits' : Len(instrs'[i]) = 1
      <3>1. \A i \in Exits' : i \in DOMAIN instrs'
        BY DEF Exits
      <3>2. \A i \in Exits : Len(instrs[i]) = 1
        BY DEF BleInv, InstrInv
      <3>3. Len(<<"write_at_exit">>) = 1
        OBVIOUS
      <3>4. QED
        BY <1>e, <1>f, <3>1, <3>2, <3>3
    <2>3. /\ Len(instrs') <= Len(Config) + received' /\ Len(instrs') > Len(Config)
      BY <1>b, <1>c, <1>e DEF BleInv, InstrInv
    <2>4. \A i \in DOMAIN instrs' : instrs'[i] # <<>>
      <3>1. \A i \in DOMAIN instrs : instrs[i] # <<>>
        BY DEF BleInv, InstrInv
      <3>2. <<"write_at_exit">> # <<>>
        OBVIOUS
      <3>3. QED
        BY <1>e, <3>1, <3>2
    <2>5. QED
      BY <1>c, <1>e, <2>1, <2>2, <2>3, <2>4 DEF InstrInv
  <1>4. OpsInv'
    <2>1. \A op \in ops : IsElement(op)
            => op.in[2] \in DOMAIN instrs' /\ (op.in[2] \in Exits' <=> op.in[2] \in Exits)
      BY <1>e, <1>f DEF BleInv, OpsInv
    <2>2. \A op \in ops : op.in \in Copies => op.in[2] <= received'
      <3>1. \A op \in ops : op.in \in Copies => op.in[2] \in Nat /\ op.in[2] <= received
        BY DEF BleInv, OpsInv, Copies
      <3>2. QED
        BY <1>b, <1>c, <3>1
    <2>3. QED
      BY <1>a, <2>1, <2>2 DEF BleInv, OpsInv, IsElement
  <1>5. RefInv'
    BY <1>a DEF BleInv, RefInv, Holds
  <1>6. LifeInv'
    BY <1>a, <1>b DEF BleInv, LifeInv
  <1>7. ExitInv'
    BY <1>a, <1>b DEF ExitInv
  <1>8. OnlyKnownCrashes'
    BY <1>a DEF OnlyKnownCrashes
  <1> QED
    BY <1>1, <1>2, <1>3, <1>4, <1>5, <1>6, <1>7, <1>8 DEF BleInv
-----------------------------------------------------------------------------
(* BLEIO_Seq_Destroy.                                                      *)

LEMMA ScheduleExitsInv == ASSUME BleInv, ~crashed, ScheduleExits PROVE BleInv'
  <1>a. /\ UNCHANGED <<module, loop, conn, instrs, stale, run, early, destroyed, timedOut, received, crashed>>
        /\ main = "detached" /\ main' = "release" /\ seqState' = "shutting_down"
    BY DEF ScheduleExits
  <1>b. PICK S \in SUBSET Exits :
            /\ ops' = ops \cup ExitWrites(S) /\ refs' = refs + Cardinality(S)
            /\ tried' = tried \cup {<<<<"vector", i>>, 1>> : i \in Exits \ S}
    BY DEF ScheduleExits, ExitWrites
  <1>c. module = "live" /\ ~destroyed
    BY <1>a DEF BleInv, LifeInv, Scalars
  <1>d. Len(instrs) \in Nat /\ Len(Config) \in Nat /\ S \subseteq 1..Len(instrs)
    BY BleAssumption DEF BleInv, InstrInv, Exits
  <1>e. /\ IsFiniteSet(ExitWrites(S)) /\ Cardinality(ExitWrites(S)) = Cardinality(S)
        /\ Cardinality(S) \in Nat
    BY <1>d, ExitWritesCount, FS_CardinalityType
  <1>f. UNCHANGED Exits
    BY <1>a DEF Exits
  <1>g. \A op \in ExitWrites(S) :
            /\ op.in \in Elements /\ op.chain \in Seq(Types) \ {<<>>} /\ op = Op(op.in, op.chain)
            /\ op.in[2] \in Exits /\ op.in[2] \in DOMAIN instrs /\ op.in \notin Copies
    <2>1. received \in Nat /\ MaxReceived \in Nat /\ received <= MaxReceived
      BY BleAssumption DEF BleInv, Scalars
    <2>2. \A i \in S : i \in 1..(Len(Config) + MaxReceived) /\ i \in Exits /\ i \in DOMAIN instrs
      BY <1>d, <2>1 DEF BleInv, InstrInv, Exits
    <2>3. <<"write_at_exit">> \in Seq(Types) \ {<<>>}
      BY DEF Types
    <2> SUFFICES ASSUME NEW op \in ExitWrites(S)
                 PROVE  /\ op.in \in Elements /\ op.chain \in Seq(Types) \ {<<>>}
                        /\ op = Op(op.in, op.chain)
                        /\ op.in[2] \in Exits /\ op.in[2] \in DOMAIN instrs /\ op.in \notin Copies
      BY Zenon
    <2>4. PICK i \in S : op = Op(<<"vector", i>>, <<"write_at_exit">>)
      BY DEF ExitWrites
    <2>5. op.in = <<"vector", i>> /\ op.in[2] = i /\ op.chain = <<"write_at_exit">> /\ op = Op(op.in, op.chain)
      BY <2>4 DEF Op
    <2>6. <<"vector", i>> \in Elements /\ <<"vector", i>> \notin Copies
      BY <2>2 DEF Elements, Copies
    <2>7. QED
      BY <2>2, <2>3, <2>5, <2>6
  <1>h. \A op \in ops : IsElement(op) => op.in[2] \notin Exits
    BY <1>a, <1>c DEF BleInv, OpsInv
  <1>i. \A op \in ops, other \in ExitWrites(S) : op.in # other.in
    BY <1>g, <1>h DEF IsElement
  <1>1. Scalars'
    BY <1>a, <1>b, <1>e DEF BleInv, Scalars
  <1>2. Flags'
    BY <1>a, Zenon DEF BleInv, Flags
  <1>3. InstrInv'
    BY <1>a, <1>f DEF BleInv, InstrInv
  <1>4. OpsInv'
    <2>1. IsFiniteSet(ops')
      BY <1>b, <1>e, FS_Union DEF BleInv, OpsInv
    <2>2. \A op \in ops' : /\ op.in \in Elements \cup Copies /\ op.chain \in Seq(Types) \ {<<>>}
                           /\ op = Op(op.in, op.chain)
      BY <1>b, <1>g DEF BleInv, OpsInv
    <2>3. \A op, other \in ops' : op.in = other.in => op = other
      <3>1. \A op, other \in ExitWrites(S) : op.in = other.in => op = other
        BY DEF ExitWrites, Op
      <3>2. QED
        BY <1>b, <1>i, <3>1 DEF BleInv, OpsInv
    <2>4. \A op \in ops' : IsElement(op) /\ op.in[2] \notin Exits => op \in ops
      BY <1>b, <1>g
    <2>5. \A op \in ops' : IsElement(op) => op.in[2] \in DOMAIN instrs
      BY <1>b, <1>g DEF BleInv, OpsInv
    <2>6. \A op \in ops' : op.in \in Copies => op.in[2] <= received
      BY <1>b, <1>g DEF BleInv, OpsInv
    <2>7. QED
      BY <1>a, <1>f, <2>1, <2>2, <2>3, <2>4, <2>5, <2>6 DEF BleInv, OpsInv, IsElement
  <1>5. RefInv'
    <2>1. ops \cap ExitWrites(S) = {}
      BY <1>i
    <2>2. Cardinality(ops') = Cardinality(ops) + Cardinality(S)
      <3>1. IsFiniteSet(ops) /\ Cardinality(ops) \in Nat
        BY OpsCount DEF BleInv, OpsInv
      <3>2. Cardinality(ops') = Cardinality(ops) + Cardinality(S)
                                    - Cardinality(ops \cap ExitWrites(S))
        BY <1>b, <1>e, <3>1, FS_Union
      <3>3. Cardinality(ops \cap ExitWrites(S)) = 0
        BY <2>1, FS_EmptySet
      <3>4. QED
        BY <1>e, <3>1, <3>2, <3>3
    <2>3. QED
      BY <1>a, <1>b, <1>c, <1>e, <2>2, OpsCount DEF BleInv, RefInv, Holds
  <1>6. LifeInv'
    BY <1>a, <1>c DEF BleInv, LifeInv
  <1>7. ExitInv'
    <2>1. ASSUME NEW i \in Exits
          PROVE  ExitDone(i)' \/ \E op \in ops' : op.in = <<"vector", i>> /\ Len(op.chain) = 1
      <3>1. CASE i \in S
        <4>1. Op(<<"vector", i>>, <<"write_at_exit">>) \in ops'
          BY <1>b, <3>1 DEF ExitWrites
        <4>2. QED
          BY <4>1 DEF Op
      <3>2. CASE i \notin S
        BY <1>b, <3>2 DEF ExitDone
      <3>3. QED
        BY <3>1, <3>2
    <2>2. QED
      BY <1>a, <1>c, <1>f, <2>1 DEF ExitInv
  <1>8. OnlyKnownCrashes'
    BY <1>a DEF OnlyKnownCrashes
  <1> QED
    BY <1>1, <1>2, <1>3, <1>4, <1>5, <1>6, <1>7, <1>8 DEF BleInv

LEMMA ReleaseSequenceInv == ASSUME BleInv, ~crashed, ReleaseSequence PROVE BleInv'
  <1>a. /\ UNCHANGED <<module, loop, conn, seqState, instrs, ops, stale, tried, run, early, timedOut, received>>
        /\ main = "release" /\ main' = "wait" /\ refs' = refs - 1
        /\ destroyed' => destroyed \/ refs = 1
    BY Zenon DEF ReleaseSequence, DecRef
  <1>b. module = "live" /\ ~destroyed
    BY <1>a DEF BleInv, LifeInv, Scalars
  <1>c. refs = Cardinality(ops) + 1 /\ Cardinality(ops) \in Nat
    BY <1>a, <1>b, OpsCount DEF BleInv, RefInv, Holds
  <1>d. destroyed' => ops = {}
    BY <1>a, <1>b, <1>c, OpsCount DEF BleInv
  <1>f. UNCHANGED Exits
    BY <1>a DEF Exits
  <1>1. Scalars'
    BY <1>a, <1>c DEF BleInv, Scalars
  <1>2. Flags'
    BY Zenon DEF BleInv, Flags, ReleaseSequence, DecRef
  <1>3. InstrInv'
    BY <1>a, <1>f DEF BleInv, InstrInv
  <1>4. OpsInv'
    BY <1>a, <1>f DEF BleInv, OpsInv, IsElement
  <1>5. RefInv'
    BY <1>a, <1>c DEF RefInv, Holds
  <1>6. LifeInv'
    BY <1>a, <1>b, <1>d DEF BleInv, LifeInv
  <1>7. ExitInv'
    BY <1>a, <1>d, <1>f DEF BleInv, ExitInv, ExitDone
  <1>8. OnlyKnownCrashes'
    BY DEF OnlyKnownCrashes, ReleaseSequence, Freeing
  <1> QED
    BY <1>1, <1>2, <1>3, <1>4, <1>5, <1>6, <1>7, <1>8 DEF BleInv
-----------------------------------------------------------------------------
(* The operations' callbacks.                                              *)

LEMMA ReadAgainInv ==
  ASSUME BleInv, ~crashed, NEW op \in ops, Complete(op), ReadAgain(op)
  PROVE  BleInv'
  <1>a. /\ UNCHANGED <<module, loop, conn, seqState, refs, instrs, ops, stale, run, main, early,
                       destroyed, timedOut, received>>
        /\ tried \subseteq tried'
    BY DEF Complete, ReadAgain
  <1>b. crashed' => Gone \/ op.in \in stale
    BY DEF ReadAgain
  <1>f. UNCHANGED Exits
    BY <1>a DEF Exits
  <1>1. Scalars'
    BY <1>a DEF BleInv, Scalars
  <1>2. Flags'
    <2>1. crashed' \in BOOLEAN
      BY Zenon DEF BleInv, Flags, ReadAgain
    <2>2. QED
      BY <1>a, <2>1, Zenon DEF BleInv, Flags
  <1>3. InstrInv'
    BY <1>a, <1>f DEF BleInv, InstrInv
  <1>4. OpsInv'
    BY <1>a, <1>f DEF BleInv, OpsInv, IsElement
  <1>5. RefInv'
    BY <1>a DEF BleInv, RefInv, Holds
  <1>6. LifeInv'
    BY <1>a DEF BleInv, LifeInv
  <1>7. ExitInv'
    BY <1>a, <1>f DEF BleInv, ExitInv, ExitDone
  <1>8. OnlyKnownCrashes'
    BY <1>a, <1>b, UsersKeepModule DEF BleInv, InstrInv, OnlyKnownCrashes
  <1> QED
    BY <1>1, <1>2, <1>3, <1>4, <1>5, <1>6, <1>7, <1>8 DEF BleInv

\* An operation that ends gives its reference back, or hands it to the next step.
LEMMA LastTimeInv ==
  ASSUME BleInv, ~crashed, NEW op \in ops, Complete(op), LastTime(op)
  PROVE  BleInv'
  <1> DEFINE rest == Op(op.in, Tail(op.chain))
  <1>a. UNCHANGED <<module, loop, conn, seqState, instrs, stale, run, main, early, timedOut, received>>
    BY DEF Complete
  <1>b. PICK next \in SUBSET {rest} :
            /\ Tail(op.chain) = <<>> => next = {}
            /\ ops' = (ops \ {op}) \cup next
            /\ tried' = tried \cup {Step(op)}
                         \cup (IF next = {} THEN {<<op.in, n>> : n \in DOMAIN Tail(op.chain)} ELSE {})
            /\ DecRef(1 - Cardinality(next))
            /\ crashed' \in {crashed, crashed \/ Gone \/ op.in \in stale \/ Freeing(1 - Cardinality(next))}
    BY DEF LastTime
  <1>c. /\ tried \subseteq tried' /\ Step(op) \in tried'
    BY <1>b
  <1>d. /\ op.chain \in Seq(Types) /\ op.chain # <<>> /\ Tail(op.chain) \in Seq(Types)
        /\ Len(Tail(op.chain)) # Len(op.chain)
    BY DEF BleInv, OpsInv
  <1>e. rest.in = op.in /\ rest.chain = Tail(op.chain) /\ rest = Op(rest.in, rest.chain)
    BY DEF Op
  <1>f. UNCHANGED Exits
    BY <1>a DEF Exits
  <1>g. rest \notin ops
    BY <1>d, <1>e DEF BleInv, OpsInv
  <1>h. Cardinality(ops) \in Nat /\ Cardinality(ops) > 0 /\ refs \in Nat /\ refs >= Cardinality(ops)
    BY OpsCount DEF BleInv, RefInv
  <1>i. \/ /\ ops' = ops \ {op} /\ refs' = refs - 1
           /\ destroyed' => destroyed \/ (refs = 1 /\ Destroying)
        \/ /\ ops' = (ops \ {op}) \cup {rest} /\ Tail(op.chain) # <<>> /\ refs' = refs - 0
           /\ destroyed' => destroyed \/ refs = 0
    <2>1. next = {} \/ next = {rest}
      OBVIOUS
    <2>2. Cardinality({}) = 0 /\ Cardinality({rest}) = 1
      BY FS_EmptySet, FS_Singleton
    <2>3. CASE next = {}
      <3>1. DecRef(1)
        BY <1>b, <2>2, <2>3
      <3>2. ops' = ops \ {op}
        BY <1>b, <2>3
      <3>3. QED
        BY <3>1, <3>2, Zenon DEF DecRef
    <2>4. CASE next = {rest}
      <3>1. DecRef(0)
        BY <1>b, <2>2, <2>4
      <3>2. ops' = (ops \ {op}) \cup {rest} /\ Tail(op.chain) # <<>>
        BY <1>b, <2>4
      <3>3. QED
        BY <3>1, <3>2, Zenon DEF DecRef
    <2>5. QED
      BY <2>1, <2>3, <2>4
  <1>j. /\ IsFiniteSet(ops') /\ refs' \in Nat /\ refs' - Cardinality(ops') = refs - Cardinality(ops)
        /\ Cardinality(ops') \in Nat
    <2>1. IsFiniteSet(ops \ {op}) /\ Cardinality(ops \ {op}) = Cardinality(ops) - 1
      BY FS_RemoveElement DEF BleInv, OpsInv
    <2>2. /\ IsFiniteSet((ops \ {op}) \cup {rest})
          /\ Cardinality((ops \ {op}) \cup {rest}) = Cardinality(ops)
      BY <1>g, <1>h, <2>1, FS_AddElement
    <2>3. CASE ops' = ops \ {op} /\ refs' = refs - 1
      BY <1>h, <2>1, <2>3
    <2>4. CASE ops' = (ops \ {op}) \cup {rest} /\ refs' = refs - 0
      BY <1>h, <2>2, <2>4
    <2>5. QED
      BY <1>i, <2>3, <2>4
  \* It is reported when the last one ends, after the module has let go.
  <1>k. destroyed' => destroyed \/ (ops' = {} /\ ops = {op} /\ main \in {"wait", "quit", "join", "done"})
    <2>1. SUFFICES ASSUME destroyed', ~destroyed
                   PROVE  ops' = {} /\ ops = {op} /\ main \in {"wait", "quit", "join", "done"}
      BY Zenon
    <2>2. Destroying /\ refs = 1 /\ ops' = ops \ {op}
      BY <1>h, <1>i, <2>1
    <2>3. Cardinality(ops \ {op}) = Cardinality(ops) - 1 /\ IsFiniteSet(ops \ {op})
      BY FS_RemoveElement DEF BleInv, OpsInv
    <2>4. ops \ {op} = {}
      BY <1>h, <2>2, <2>3, FS_EmptySet
    <2>5. ~Holds
      BY <1>h, <2>2 DEF BleInv, RefInv
    <2>6. main \in {"wait", "quit", "join", "done"}
      BY <2>2, <2>5 DEF Destroying, Holds, BleInv, LifeInv, Scalars
    <2>7. QED
      BY <2>2, <2>4, <2>6
  <1> HIDE DEF rest
  <1>1. Scalars'
    BY <1>a, <1>j DEF BleInv, Scalars
  <1>2. Flags'
    <2>1. crashed' \in BOOLEAN
      BY <1>b, Zenon DEF BleInv, Flags
    <2>2. destroyed' \in BOOLEAN
      BY <1>b, Zenon DEF BleInv, Flags, DecRef
    <2>3. QED
      BY <1>a, <2>1, <2>2, Zenon DEF BleInv, Flags
  <1>3. InstrInv'
    BY <1>a, <1>f DEF BleInv, InstrInv
  <1>4. OpsInv'
    <2>1. \A o \in ops' : o \in ops \/ (o = rest /\ op \notin ops' /\ Tail(op.chain) # <<>>)
      BY <1>g, <1>i
    <2>2. \A o \in ops' : \E p \in ops : p.in = o.in
      BY <1>e, <2>1
    <2>3. \A o \in ops' : /\ o.in \in Elements \cup Copies /\ o.chain \in Seq(Types) \ {<<>>}
                          /\ o = Op(o.in, o.chain)
      BY <1>d, <1>e, <2>1 DEF BleInv, OpsInv
    <2>4. \A o, other \in ops' : o.in = other.in => o = other
      BY <1>e, <2>1 DEF BleInv, OpsInv
    <2>5. QED
      BY <1>a, <1>f, <1>j, <2>2, <2>3, <2>4 DEF BleInv, OpsInv, IsElement
  <1>5. RefInv'
    BY <1>a, <1>h, <1>j DEF BleInv, RefInv, Holds
  <1>6. LifeInv'
    <2>1. module # "none" /\ (destroyed => early)
      BY DEF BleInv, LifeInv
    <2>2. destroyed' => main \in {"wait", "quit", "join", "done"} /\ (early \/ ops' = {})
      BY <1>k, <2>1 DEF BleInv, LifeInv
    <2>3. destroyed => destroyed'
      BY <1>b, Zenon DEF DecRef
    <2>4. QED
      BY <1>a, <2>1, <2>2, <2>3 DEF BleInv, LifeInv
  <1>7. ExitInv'
    <2>1. ASSUME NEW i \in Exits, main \notin {"out", "detached"}
          PROVE  ExitDone(i)' \/ \E o \in ops' : o.in = <<"vector", i>> /\ Len(o.chain) = 1
      <3>1. CASE ExitDone(i)
        BY <1>c, <3>1 DEF ExitDone
      <3>2. CASE \E o \in ops : o.in = <<"vector", i>> /\ Len(o.chain) = 1
        <4>1. PICK o \in ops : o.in = <<"vector", i>> /\ Len(o.chain) = 1
          BY <3>2
        <4>2. CASE o = op
          BY <1>c, <4>1, <4>2 DEF Step, ExitDone
        <4>3. CASE o # op
          BY <1>b, <4>1, <4>3
        <4>4. QED
          BY <4>2, <4>3
      <3>3. QED
        BY <2>1, <3>1, <3>2 DEF BleInv, ExitInv
    <2>2. ASSUME destroyed', NEW i \in Exits PROVE ExitDone(i)'
      <3>1. CASE destroyed
        BY <1>c, <3>1 DEF BleInv, ExitInv, ExitDone
      <3>2. CASE ~destroyed
        BY <1>k, <2>1, <2>2, <3>2
      <3>3. QED
        BY <3>1, <3>2
    <2>3. QED
      BY <1>a, <1>f, <2>1, <2>2 DEF ExitInv
  <1>8. OnlyKnownCrashes'
    <2>1. crashed' => Gone \/ op.in \in stale \/ Len(instrs) > Len(Config)
      BY <1>b DEF Freeing
    <2>2. QED
      BY <1>a, <2>1, UsersKeepModule DEF BleInv, InstrInv, OnlyKnownCrashes
  <1> QED
    BY <1>1, <1>2, <1>3, <1>4, <1>5, <1>6, <1>7, <1>8 DEF BleInv

LEMMA StutterInv == ASSUME BleInv, UNCHANGED vars PROVE BleInv'
  <1> USE DEF vars
  <1>1. Scalars' /\ Flags'
    BY Zenon DEF BleInv, Scalars, Flags
  <1>2. InstrInv' /\ OpsInv' /\ RefInv'
    BY DEF BleInv, InstrInv, OpsInv, RefInv, Exits, IsElement, Holds
  <1>3. LifeInv' /\ ExitInv' /\ OnlyKnownCrashes'
    BY DEF BleInv, LifeInv, ExitInv, ExitDone, Exits, OnlyKnownCrashes
  <1> QED
    BY <1>1, <1>2, <1>3 DEF BleInv

LEMMA NextInv == BleInv /\ [Next]_vars => BleInv'
  <1> SUFFICES ASSUME BleInv, [Next]_vars PROVE BleInv'
    OBVIOUS
  <1>1. CASE UNCHANGED vars
    BY <1>1, StutterInv
  <1>2. CASE Next
    <2>1. ~crashed
      BY <1>2 DEF Next
    <2>2. CASE Create \/ CreateFails
      BY <2>1, <2>2, CreateInv, CreateFailsInv
    <2>3. CASE LoopStep
      BY <2>1, <2>3, LoopStartsInv, LoopExitsInv DEF LoopStep
    <2>4. CASE ConnectComplete
      BY <2>1, <2>4, ConnectCompleteInv
    <2>5. CASE RunStep
      BY <2>1, <2>5, RunInstructionInv, RunEndsInv DEF RunStep
    <2>6. CASE \E op \in ops : Complete(op)
      <3>1. PICK op \in ops : Complete(op)
        BY <2>6
      <3>2. ReadAgain(op) \/ LastTime(op)
        BY <3>1 DEF Complete
      <3>3. QED
        BY <2>1, <3>1, <3>2, ReadAgainInv, LastTimeInv
    <2>7. CASE (\E type \in Received : Receive(type)) \/ ReceiveExit
      BY <2>1, <2>7, ReceiveInv, ReceiveExitInv
    <2>8. CASE Detach
      BY <2>1, <2>8, DetachInv
    <2>9. CASE DestroyStep
      BY <2>1, <2>9, ScheduleExitsInv, ReleaseSequenceInv, SequenceGoneInv, TimeOutInv, QuitLoopInv,
         JoinAndFreeInv DEF DestroyStep
    <2>10. QED
      BY <1>2, <2>2, <2>3, <2>4, <2>5, <2>6, <2>7, <2>8, <2>9 DEF Next
  <1>3. QED
    BY <1>1, <1>2

LEMMA BleInvariance == Spec => []BleInv
  BY InitBle, NextInv, PTL DEF Spec
-----------------------------------------------------------------------------
LEMMA BleTypes == BleInv => TypeOK
  <1> SUFFICES ASSUME BleInv PROVE TypeOK
    OBVIOUS
  <1>1. Len(instrs) <= Len(Config) + MaxReceived
    BY BleAssumption DEF BleInv, InstrInv, Scalars
  <1>2. {early, destroyed, timedOut, crashed} \subseteq BOOLEAN
    BY DEF BleInv, Flags
  <1>3. QED
    BY <1>1, <1>2 DEF BleInv, TypeOK, Scalars, InstrInv, OpsInv

\* BLE_Destroy frees the handle when nothing can use it any more, and the
\* sequencer has a reference for as long as somebody uses it.
THEOREM Lifetimes == Spec => []LifetimeInv
  <1>1. BleInv => ModuleOutlivesUsers
    <2> SUFFICES ASSUME BleInv, module = "freed"
                 PROVE  loop = "exited" /\ (timedOut \/ early \/ (ops = {} /\ refs = 0))
      BY DEF ModuleOutlivesUsers
    <2>1. loop = "exited" /\ (timedOut \/ early \/ ops = {}) /\ ~Holds
      BY DEF BleInv, LifeInv, Holds
    <2>2. QED
      BY <2>1, OpsCount DEF BleInv, RefInv
  <1>2. BleInv => SequencerOutlivesUsers
    BY UsersHold DEF SequencerOutlivesUsers
  <1>3. BleInv => LifetimeInv
    BY <1>1, <1>2, BleTypes DEF LifetimeInv
  <1>4. QED
    BY <1>3, BleInvariance, PTL

\* on_destroy_complete is called once every exit write has been executed or refused,
\* those included that messages brought.
THEOREM ExitsBeforeDestroyed == Spec => []ExitWritesFirst
  <1>1. BleInv => ExitWritesFirst
    BY DEF BleInv, ExitInv, ExitDone, ExitWritesFirst
  <1>2. QED
    BY <1>1, BleInvariance, PTL

\* Freed memory is only used after an exit write received, a wait given up, a
\* BLE_Create that failed or a removal that overtook the connection.
THEOREM CrashesAreKnown == Spec => []OnlyKnownCrashes
  <1>1. BleInv => OnlyKnownCrashes
    BY DEF BleInv
  <1>2. QED
    BY <1>1, BleInvariance, PTL
=============================================================================
