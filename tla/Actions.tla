------------------------------ MODULE Actions ------------------------------
(***************************************************************************)
(* internal/actions: a batch of commands, run one after the other by the   *)
(* shell, with the context RunOnce gives it (actionsBudget). Time is       *)
(* counted in units; timers run down.                                      *)
(*                                                                         *)
(* A context that ends kills the shell, but not what the shell has         *)
(* started: a child may live on with the output pipe open, and Wait reads  *)
(* the pipe to its end.                                                    *)
(***************************************************************************)
EXTENDS Naturals

CONSTANTS
  ActionTimeouts,  \* the values general.action-timeout may have; 0 is none
  Minute,          \* what replaces it in the budget if there is none
  NumSuccess,      \* the number of commands in actions.success
  NumFailed,       \* and in actions.failed
  OrphanTime       \* bound: how long a child may hold the pipe

ASSUME ActionsAssumption ==
  /\ ActionTimeouts \subseteq Nat
  /\ Minute \in Nat \ {0}
  /\ NumSuccess \in Nat
  /\ NumFailed \in Nat
  /\ OrphanTime \in Nat

VARIABLES
  actionTimeout,   \* Runner.Timeout
  batch            \* the locals of Runner.Run and what it waits for

batchVars == <<actionTimeout, batch>>

(***************************************************************************)
(* pc: off, next (a command is to be started), run (the shell runs), drain *)
(* (it does not, but the pipe is open); todo: commands not yet begun;      *)
(* budget: time left to actionCtx; left: time left to the command's own    *)
(* context; orphan: how long the pipe will stay open. History: spent (time *)
(* since the batch began), skipped (a command was not started), overtime   *)
(* (a command went on after the end of its context).                       *)
(***************************************************************************)
Batch ==
  [pc : {"off", "next", "run", "drain"}, todo : Nat, budget : Nat, left : Nat,
   orphan : Nat, spent : Nat, skipped : BOOLEAN, overtime : BOOLEAN]

NoBatch ==
  [pc |-> "off", todo |-> 0, budget |-> 0, left |-> 0, orphan |-> 0,
   spent |-> 0, skipped |-> FALSE, overtime |-> FALSE]

ActionsTypeOK ==
  /\ actionTimeout \in ActionTimeouts
  /\ batch \in Batch

Dec(n) == n - 1
Less1(n) == IF n > 0 THEN n - 1 ELSE 0
Least(m, n) == IF m < n THEN m ELSE n

Per == IF actionTimeout > 0 THEN actionTimeout ELSE Minute

JustOne == 1
Counted == IF NumSuccess + NumFailed > 0 THEN NumSuccess + NumFailed ELSE 1

(* actionsBudget: enough for the commands of both kinds. *)
Budget == Per * Counted

Commands(kind) == IF kind = "failed" THEN NumFailed ELSE NumSuccess

ActionsInit ==
  /\ actionTimeout \in ActionTimeouts
  /\ batch = NoBatch

-----------------------------------------------------------------------------
(* Run.                                                                    *)

StartBatch(kind) ==
  /\ batch.pc = "off"
  /\ batch' = IF Commands(kind) = 0 THEN NoBatch
              ELSE [NoBatch EXCEPT !.pc = "next", !.todo = Commands(kind), !.budget = Budget]
  /\ UNCHANGED actionTimeout

OwnTimeout(budget) == IF actionTimeout > 0 THEN actionTimeout ELSE budget

(* The context of a command ends with that of the batch. *)
Allowed(budget) ==
  IF actionTimeout > 0 THEN Least(actionTimeout, budget) ELSE budget

BeginCommand ==
  /\ batch.pc = "next"
  /\ batch.todo > 0
  /\ batch.budget > 0
  /\ batch' = [batch EXCEPT !.pc = "run", !.todo = @ - 1, !.left = Allowed(batch.budget)]
  /\ UNCHANGED actionTimeout

(* exec.Cmd.Start starts nothing in a context that has ended. *)
SkipCommand ==
  /\ batch.pc = "next"
  /\ batch.todo > 0
  /\ batch.budget = 0
  /\ batch' = [batch EXCEPT !.todo = @ - 1, !.skipped = TRUE]
  /\ UNCHANGED actionTimeout

(* The shell ends, by itself or killed at the end of its context; a child  *)
(* may go on holding the pipe.                                             *)
ShellEnds(holds) ==
  /\ batch.pc = "run"
  /\ batch' = IF holds = 0 THEN [batch EXCEPT !.pc = "next", !.left = 0]
              ELSE [batch EXCEPT !.pc = "drain", !.orphan = holds]
  /\ UNCHANGED actionTimeout

PipeCloses ==
  /\ batch.pc = "drain"
  /\ batch.orphan = 0
  /\ batch' = [batch EXCEPT !.pc = "next", !.left = 0]
  /\ UNCHANGED actionTimeout

EndBatch ==
  /\ batch.pc = "next"
  /\ batch.todo = 0
  /\ batch' = NoBatch
  /\ UNCHANGED actionTimeout

(* A unit of time. A shell whose context has ended gets none. *)
BatchElapses ==
  /\ batch.pc = "run" => batch.left > 0
  /\ batch.pc = "drain" => batch.orphan > 0
  /\ batch' = IF batch.pc \in {"run", "drain"}
              THEN [batch EXCEPT !.budget = Less1(@), !.left = Less1(@),
                                 !.orphan = Less1(@), !.spent = @ + 1,
                                 !.overtime = @ \/ batch.left = 0]
              ELSE batch
  /\ UNCHANGED actionTimeout

ActionsNext ==
  \/ \E kind \in {"success", "failed"} : StartBatch(kind)
  \/ BeginCommand \/ SkipCommand \/ PipeCloses \/ EndBatch \/ BatchElapses
  \/ \E holds \in 0 .. OrphanTime : ShellEnds(holds)

ActionsSpec == ActionsInit /\ [][ActionsNext]_batchVars

-----------------------------------------------------------------------------
(* Properties.                                                             *)

(***************************************************************************)
(* A batch is over when its budget is, or as soon after it as the last     *)
(* child lets go of the pipe: children of several commands do not add up.  *)
(***************************************************************************)
BatchBounded == batch.spent =< Budget + OrphanTime

(***************************************************************************)
(* With an action timeout set, no command is kept from starting by the     *)
(* commands before it, however they end, unless one of them went on after  *)
(* its timeout: the budget is enough for all (README, Actions: a failing   *)
(* command does not stop the rest).                                        *)
(***************************************************************************)
EveryCommandStarts == actionTimeout > 0 /\ batch.skipped => batch.overtime

=============================================================================
