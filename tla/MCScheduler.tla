---------------------------- MODULE MCScheduler ----------------------------
EXTENDS SchedulerSleep

\* A negative request, a zero one, one that rounds up to a single tick and one
\* that rounds up to two.
MCSleepArgs == {-5, 0, 1, 11}

=============================================================================
