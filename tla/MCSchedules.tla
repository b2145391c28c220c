---------------------------- MODULE MCSchedules ----------------------------
(* Small instances of Schedules for TLC. *)
EXTENDS Schedules, TLC

MCPlans == {[kind |-> "monthly", day |-> 2]}

MCSlots == ScheduleIds \X (0 .. MaxDay)

Symmetry == Permutations(JobIds) \cup Permutations(Workers)
=============================================================================
