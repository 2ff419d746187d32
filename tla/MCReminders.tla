---------------------------- MODULE MCReminders ----------------------------
(* Two deadlines, due today and in two days: a sweep of today may last past *)
(* midnight, and tomorrow both want a reminder.                             *)
EXTENDS Reminders, TLC

MCDue == [d \in Deadline |-> 2 * (d - 1)]

(* Sweeps are alike, and no property checked here tells them apart.         *)
Alike == Permutations(Sweep)

=============================================================================
