----------------------------- MODULE MCAppLoop -----------------------------
(***************************************************************************)
(* AppLoop for TLC. Its state is finite as it is: the channels have one    *)
(* slot, and the counter of passes is a history variable that stops at 2.  *)
(***************************************************************************)
EXTENDS AppLoop

AllConfigurations == Config

(* Neither local routes nor their cleanup are configured. *)
WithoutLocal == {c \in Config : ~c.local}
=============================================================================
