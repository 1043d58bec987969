-------------------------- MODULE MCEventDelivery --------------------------
(* Tasks, their sweepers and the delivery of their events, small.          *)
EXTENDS EventDelivery, TLC

MCNewTasks == {<<"delegation", "queued">>, <<"approval", "pending_approval">>}
=============================================================================
