----------------------------- MODULE MCSignage -----------------------------
(***************************************************************************)
(* An instance of Signage for TLC: two screens in one group, two schedules *)
(* of the group that meet in the second minute, an interrupt for one of    *)
(* the screens in that minute, and an event's schedule for all.            *)
(***************************************************************************)
EXTENDS Signage

CONSTANTS c1, c2, p1, p2

Screens == {c1, c2}
Both == <<c1, c2>>
TwoLists == {p1, p2}

Planned(target, list, rank, starts, interrupts, onEvent) ==
  [target |-> target, list |-> list, rank |-> rank, starts |-> starts,
   interrupts |-> interrupts, onEvent |-> onEvent]

Plan == <<Planned("group", p1, 1, {0, 1}, FALSE, FALSE),
          Planned("group", p2, 2, {1}, FALSE, FALSE),
          Planned(c1, p1, 3, {1}, TRUE, FALSE),
          Planned("all", p2, 1, {}, FALSE, TRUE)>>
=============================================================================
