----------------------------- MODULE MCService -----------------------------
(***************************************************************************)
(* Service for TLC: every configuration of the loop on one host, and the   *)
(* ways to name a cloud, or not to, on each host, with a static list that  *)
(* can be read or not, and access from anywhere or nowhere.                *)
(***************************************************************************)
EXTENDS Service

AllConfigurations == Config

OneConfiguration == [periodic |-> FALSE, local |-> TRUE, dryRun |-> FALSE, runOnStart |-> FALSE]

MCSetups ==
  {s \in Setup :
    \/ /\ s.file = "auto" /\ s.flag = "none" /\ ~s.badEntry
       /\ s.host = "yandex" /\ s.access = "metadata"
    \/ /\ s.cfg = OneConfiguration
       /\ s.file \in {"auto", "aws", "bad"} /\ s.flag # "auto"
       /\ s.badEntry => s.access = "metadata"}
=============================================================================
