----------------------------- MODULE MCExecutor -----------------------------
(* Executor for TLC: small schedules, poll limits and tick range.          *)
EXTENDS Executor

Plan(deadlines, origin, horizon) ==
    [deadlines |-> deadlines, origin |-> origin, horizon |-> horizon]
Polls(controllerStart, workerStart, producerDue, consumerEmpty, drain) ==
    [controllerStart |-> controllerStart, workerStart |-> workerStart,
     producerDue |-> producerDue, consumerEmpty |-> consumerEmpty, drain |-> drain]

\* Valid ones, an empty one, one beyond its horizon and one out of order.
MCSchedules ==
    {Plan(<<1, 1, 2>>, 1, 3), Plan(<< >>, 0, 0), Plan(<<0, 3>>, 0, 3),
     Plan(<<2, 1>>, 0, 3)}
MCLimits == {Polls(2, 2, 2, 3, 3), Polls(3, 2, 1, 1, 1), Polls(2, 2, 1, 1, 0)}
=============================================================================
