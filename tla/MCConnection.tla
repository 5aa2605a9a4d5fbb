----------------------------- MODULE MCConnection -----------------------------
(***************************************************************************)
(* Model checking of ConsumerConnection: schedules of one and two queues,   *)
(* a duration below a millisecond, and two that wrap around in int32.       *)
(***************************************************************************)
EXTENDS ConnectionProperties

MCSchedules == {<<0>>, <<0, 3>>, <<2, 5>>, <<9>>}

=============================================================================
