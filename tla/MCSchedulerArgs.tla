--------------------------- MODULE MCSchedulerArgs ---------------------------
EXTENDS SchedulerArgs

MCSleepArgs == {1, 11}

=============================================================================
