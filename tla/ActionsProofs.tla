--------------------------- MODULE ActionsProofs ---------------------------
(***************************************************************************)
(* Theorems about Actions: however many commands there are, whatever the   *)
(* timeouts, however commands and their children end.                      *)
(***************************************************************************)
EXTENDS Actions, TLAPS

(* A product is a number, and grows by one factor with the other. *)
LEMMA Products ==
  ASSUME NEW m \in Nat, NEW n \in Nat
  PROVE  /\ m * n \in Nat
         /\ m * (n + 1) = m * n + m
  OBVIOUS

LEMMA ProductsGrow ==
  ASSUME NEW m \in Nat, NEW n \in Nat, NEW k \in Nat
  PROVE  m * n =< m * (n + k)
<1>1. m * (n + k) = m * n + m * k
  OBVIOUS
<1>2. m * k \in Nat /\ m * n \in Nat
  BY Products
<1> QED
  BY <1>1, <1>2

LEMMA BudgetType ==
  ASSUME actionTimeout \in ActionTimeouts
  PROVE  Budget \in Nat /\ Per \in Nat /\ Counted \in Nat
<1>1. Per \in Nat /\ Counted \in Nat
  BY ActionsAssumption DEF Per, Counted
<1> QED
  BY <1>1, Products DEF Budget

-----------------------------------------------------------------------------
(* Types.                                                                  *)

LEMMA StartType ==
  ASSUME actionTimeout \in ActionTimeouts, NEW kind \in {"success", "failed"}, StartBatch(kind)
  PROVE  batch' \in Batch
<1>1. Commands(kind) \in Nat /\ Budget \in Nat /\ 0 \in Nat
  BY BudgetType, ActionsAssumption DEF Commands
<1> QED
  BY <1>1, Zenon DEF StartBatch, NoBatch, Batch

LEMMA ActionsStepType == ActionsTypeOK /\ [ActionsNext]_batchVars => ActionsTypeOK'
<1> SUFFICES ASSUME actionTimeout \in ActionTimeouts, batch \in Batch, [ActionsNext]_batchVars
             PROVE  actionTimeout' \in ActionTimeouts /\ batch' \in Batch
  BY Zenon DEF ActionsTypeOK
<1>0. actionTimeout' = actionTimeout
  BY Zenon DEF ActionsNext, batchVars, StartBatch, BeginCommand, SkipCommand, PipeCloses,
     EndBatch, BatchElapses, ShellEnds
<1>a. /\ batch.todo \in Nat /\ batch.budget \in Nat /\ batch.left \in Nat
      /\ batch.orphan \in Nat /\ batch.spent \in Nat /\ 0 \in Nat
  BY ActionsAssumption, Zenon DEF Batch
<1>1. ASSUME NEW kind \in {"success", "failed"}, StartBatch(kind) PROVE batch' \in Batch
  BY <1>1, StartType
<1>2. CASE BeginCommand
  <2>1. Allowed(batch.budget) \in Nat
    BY <1>a, ActionsAssumption DEF Allowed, Least
  <2>2. batch.todo - 1 \in Nat
    BY <1>a, <1>2 DEF BeginCommand
  <2> QED
    BY <1>2, <2>1, <2>2, Zenon DEF BeginCommand, Batch
<1>3. CASE SkipCommand
  <2>1. batch.todo - 1 \in Nat
    BY <1>a, <1>3 DEF SkipCommand
  <2> QED
    BY <1>3, <2>1, Zenon DEF SkipCommand, Batch
<1>4. CASE PipeCloses
  BY <1>4, <1>a, Zenon DEF PipeCloses, Batch
<1>5. CASE EndBatch
  BY <1>5, <1>a, Zenon DEF EndBatch, NoBatch, Batch
<1>6. CASE BatchElapses
  <2>1. /\ Less1(batch.budget) \in Nat /\ Less1(batch.left) \in Nat
        /\ Less1(batch.orphan) \in Nat /\ batch.spent + 1 \in Nat
    BY <1>a DEF Less1
  <2>2. (batch.overtime \/ batch.left = 0) \in BOOLEAN
    BY Zenon
  <2> QED
    BY <1>6, <2>1, <2>2, Zenon DEF BatchElapses, Batch
<1>7. ASSUME NEW holds \in 0 .. OrphanTime, ShellEnds(holds) PROVE batch' \in Batch
  <2>1. holds \in Nat
    BY ActionsAssumption
  <2> QED
    BY <1>7, <1>a, <2>1, Zenon DEF ShellEnds, Batch
<1>8. CASE UNCHANGED batchVars
  BY <1>8 DEF batchVars
<1> QED
  BY <1>0, <1>1, <1>2, <1>3, <1>4, <1>5, <1>6, <1>7, <1>8 DEF ActionsNext

(* The batch and its timers stay what Runner and its contexts can be. *)
THEOREM ActionsTypeCorrect == ActionsSpec => []ActionsTypeOK
<1>1. ActionsInit => ActionsTypeOK
  <2>1. 0 \in Nat
    OBVIOUS
  <2>2. NoBatch \in Batch
    BY <2>1, Zenon DEF Batch, NoBatch
  <2> QED
    BY <2>2, Zenon DEF ActionsInit, ActionsTypeOK
<1> QED
  BY <1>1, ActionsStepType, PTL DEF ActionsSpec

-----------------------------------------------------------------------------
(* Time.                                                                   *)

(***************************************************************************)
(* While there is time left to the batch, it is what has not been spent;   *)
(* a shell runs only in time left, and a pipe is held only for so long.    *)
(***************************************************************************)
TimeInv ==
  /\ batch.budget > 0 \/ batch.pc = "run" => batch.pc = "off" \/ batch.spent + batch.budget = Budget
  /\ batch.left =< batch.budget
  /\ batch.pc # "drain" => batch.orphan = 0
  /\ batch.spent + batch.orphan =< Budget + OrphanTime

(* No batch outlives its budget by more than one child may hold the pipe. *)
THEOREM BatchesBounded == ActionsSpec => []BatchBounded
<1> USE DEF Batch
<1>1. ActionsInit => TimeInv
  <2> SUFFICES ASSUME ActionsInit PROVE TimeInv
    OBVIOUS
  <2>1. Budget \in Nat
    BY BudgetType DEF ActionsInit
  <2> QED
    BY <2>1, ActionsAssumption DEF ActionsInit, NoBatch, TimeInv
<1>2. ActionsTypeOK /\ TimeInv /\ [ActionsNext]_batchVars => TimeInv'
  <2> SUFFICES ASSUME ActionsTypeOK, TimeInv, [ActionsNext]_batchVars
               PROVE  TimeInv'
    OBVIOUS
  <2>0. /\ actionTimeout' = actionTimeout
        /\ Budget' = Budget
        /\ Budget \in Nat
        /\ OrphanTime \in Nat
        /\ batch \in Batch
    BY BudgetType, ActionsAssumption DEF ActionsTypeOK, ActionsNext, batchVars, StartBatch,
       BeginCommand, SkipCommand, PipeCloses, EndBatch, BatchElapses, ShellEnds, Budget, Per
  <2> USE DEF TimeInv
  <2>1. ASSUME NEW kind \in {"success", "failed"}, StartBatch(kind) PROVE TimeInv'
    BY <2>0, <2>1 DEF StartBatch, NoBatch
  <2>2. CASE BeginCommand
    <3>1. Allowed(batch.budget) =< batch.budget
      BY <2>0, ActionsAssumption DEF Allowed, Least, ActionsTypeOK
    <3> QED
      BY <2>0, <2>2, <3>1 DEF BeginCommand
  <2>3. CASE SkipCommand
    BY <2>0, <2>3 DEF SkipCommand
  <2>4. CASE PipeCloses
    BY <2>0, <2>4 DEF PipeCloses
  <2>5. CASE EndBatch
    BY <2>0, <2>5 DEF EndBatch, NoBatch
  <2>6. CASE BatchElapses
    BY <2>0, <2>6 DEF BatchElapses, Less1
  <2>7. ASSUME NEW holds \in 0 .. OrphanTime, ShellEnds(holds) PROVE TimeInv'
    BY <2>0, <2>7 DEF ShellEnds
  <2>8. CASE UNCHANGED batchVars
    BY <2>0, <2>8 DEF batchVars
  <2> QED
    BY <2>1, <2>2, <2>3, <2>4, <2>5, <2>6, <2>7, <2>8 DEF ActionsNext
<1>3. ActionsTypeOK /\ TimeInv => BatchBounded
  BY BudgetType, ActionsAssumption DEF ActionsTypeOK, TimeInv, BatchBounded
<1> QED
  BY <1>1, <1>2, <1>3, ActionsTypeCorrect, PTL DEF ActionsSpec

(***************************************************************************)
(* With a timeout, and until a command exceeds it, what is left to the     *)
(* batch is enough for the command under way and for all those to come.    *)
(***************************************************************************)
EnoughInv ==
  actionTimeout > 0 /\ ~batch.overtime =>
    /\ ~batch.skipped
    /\ actionTimeout * batch.todo + batch.left =< batch.budget

(* With a timeout set, a command is skipped only after one has overrun its. *)
THEOREM CommandsStart == ActionsSpec => []EveryCommandStarts
<1> USE DEF Batch
<1>1. ActionsInit => EnoughInv
  BY ActionsAssumption, Products DEF ActionsInit, NoBatch, EnoughInv
<1>2. ActionsTypeOK /\ EnoughInv /\ [ActionsNext]_batchVars => EnoughInv'
  <2> SUFFICES ASSUME ActionsTypeOK, EnoughInv, [ActionsNext]_batchVars,
                      actionTimeout > 0, ~batch'.overtime
               PROVE  ~batch'.skipped /\ actionTimeout * batch'.todo + batch'.left =< batch'.budget
    BY DEF EnoughInv, ActionsNext, batchVars, StartBatch, BeginCommand, SkipCommand,
       PipeCloses, EndBatch, BatchElapses, ShellEnds
  <2> DEFINE T == actionTimeout
  <2>0. /\ T \in Nat
        /\ batch \in Batch
        /\ T * batch.todo \in Nat
        /\ T * 0 = 0
        /\ batch.todo > 0 => T * batch.todo = T * (batch.todo - 1) + T
    <3>1. T \in Nat /\ batch \in Batch
      BY ActionsAssumption DEF ActionsTypeOK
    <3>2. ASSUME batch.todo > 0 PROVE T * batch.todo = T * (batch.todo - 1) + T
      BY <3>1, <3>2
    <3> QED
      BY <3>1, <3>2
  <2> HIDE DEF T
  <2>1. ASSUME NEW kind \in {"success", "failed"}, StartBatch(kind)
        PROVE  ~batch'.skipped /\ actionTimeout * batch'.todo + batch'.left =< batch'.budget
    <3>1. Commands(kind) \in Nat /\ Counted \in Nat /\ Commands(kind) =< Counted
      BY ActionsAssumption DEF Commands, Counted
    <3>2. Budget = T * Counted
      BY DEF T, Budget, Per
    <3>3. T * Commands(kind) =< Budget /\ Budget \in Nat /\ T * Commands(kind) \in Nat
      <4>1. Counted = Commands(kind) + (Counted - Commands(kind)) /\ Counted - Commands(kind) \in Nat
        BY <3>1
      <4>2. T * Commands(kind) =< T * (Commands(kind) + (Counted - Commands(kind)))
        BY <2>0, <3>1, <4>1, ProductsGrow
      <4> QED
        BY <2>0, <3>1, <3>2, <4>1, <4>2, Products
    <3> QED
      BY <2>0, <2>1, <3>3 DEF StartBatch, NoBatch, T
  <2>a. ASSUME ~batch.overtime
        PROVE  ~batch.skipped /\ T * batch.todo + batch.left =< batch.budget
    BY <2>a DEF EnoughInv, T
  <2>2. CASE BeginCommand
    <3>0. batch.todo - 1 \in Nat
      BY <2>0, <2>2 DEF BeginCommand
    <3>1. T * (batch.todo - 1) \in Nat
      BY <2>0, <3>0, Products
    <3>2. Allowed(batch.budget) \in Nat /\ Allowed(batch.budget) =< T
      BY <2>0 DEF Allowed, Least, T
    <3>3. T * (batch.todo - 1) + Allowed(batch.budget) =< batch.budget
      BY <2>0, <2>2, <2>a, <3>1, <3>2 DEF BeginCommand
    <3> QED
      BY <2>0, <2>2, <2>a, <3>3 DEF BeginCommand, T
  <2>3. CASE SkipCommand
    <3>0. batch.todo - 1 \in Nat
      BY <2>0, <2>3 DEF SkipCommand
    <3>1. T * (batch.todo - 1) \in Nat
      BY <2>0, <3>0, Products
    <3> QED
      BY <2>0, <2>3, <2>a, <3>1 DEF SkipCommand, T
  <2>4. CASE PipeCloses
    BY <2>0, <2>4, <2>a DEF PipeCloses, T
  <2>5. CASE EndBatch
    BY <2>0, <2>5 DEF EndBatch, NoBatch, T
  <2>6. CASE BatchElapses
    <3>1. CASE batch.pc \in {"run", "drain"}
      <4>1. /\ batch'.overtime <=> batch.overtime \/ batch.left = 0
            /\ batch'.skipped <=> batch.skipped
        BY <2>0, <2>6, <3>1, Zenon DEF BatchElapses
      <4>2. /\ batch'.todo = batch.todo
            /\ batch'.left = Less1(batch.left)
            /\ batch'.budget = Less1(batch.budget)
        BY <2>0, <2>6, <3>1, Zenon DEF BatchElapses
      <4>3. batch.left # 0 /\ ~batch'.skipped
        BY <4>1, <2>a, Zenon
      <4>4. T * batch.todo + batch.left =< batch.budget
        BY <4>1, <2>a, Zenon
      <4>5. T * batch.todo + Less1(batch.left) =< Less1(batch.budget)
        BY <2>0, <4>3, <4>4 DEF Less1
      <4> QED
        BY <4>2, <4>3, <4>5 DEF T
    <3>2. CASE batch.pc \notin {"run", "drain"}
      BY <2>0, <2>6, <2>a, <3>2 DEF BatchElapses, T
    <3> QED
      BY <3>1, <3>2
  <2>7. ASSUME NEW holds \in 0 .. OrphanTime, ShellEnds(holds)
        PROVE  ~batch'.skipped /\ actionTimeout * batch'.todo + batch'.left =< batch'.budget
    BY <2>0, <2>7, <2>a DEF ShellEnds, T
  <2>8. CASE UNCHANGED batchVars
    BY <2>0, <2>8, <2>a DEF batchVars, T
  <2> QED
    BY <2>1, <2>2, <2>3, <2>4, <2>5, <2>6, <2>7, <2>8 DEF ActionsNext
<1>3. EnoughInv => EveryCommandStarts
  BY DEF EnoughInv, EveryCommandStarts
<1> QED
  BY <1>1, <1>2, <1>3, ActionsTypeCorrect, PTL DEF ActionsSpec

=============================================================================
