--------------------------- MODULE MCLocalRoutes ---------------------------
(***************************************************************************)
(* Instances of LocalRoutes for TLC: four prefixes, of which "six" is one  *)
(* that list does not see, and two next hops.                              *)
(***************************************************************************)
EXTENDS LocalRoutes

CONSTANTS gw1, gw2

Via(p, target) == [prefix |-> p, target |-> target]

Cfg(list, removeStale, dryRun) ==
  [specs |-> list, removeStale |-> removeStale, dryRun |-> dryRun]

ListAB == <<Via("a", gw1), Via("b", Default)>>
ListBC == <<Via("b", Default), Via("c", Blackhole), Via("six", gw2)>>

ListAA == <<Via("a", gw1), Via("a", Default)>>

(* What a restart may change: the list, cleanup, dry-run. *)
Several == { Cfg(ListAB, TRUE, FALSE), Cfg(ListBC, TRUE, FALSE),
             Cfg(<<>>, TRUE, FALSE), Cfg(ListBC, FALSE, FALSE), Cfg(ListAB, TRUE, TRUE),
             Cfg(ListAA, TRUE, FALSE) }

Cleanup == {Cfg(ListAB, TRUE, FALSE)}

FreeOrTaken == {None, [ours |-> TRUE, target |-> gw2], [ours |-> FALSE, target |-> gw2]}

AnyKernel == [Prefix -> FreeOrTaken]
=============================================================================
