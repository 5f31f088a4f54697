------------------------------- MODULE MCExec -------------------------------
EXTENDS Exec

\* block_on, and then run for the tasks that are left.
MCBlockOnThenRun == {<<"block_on", "run">>}
=============================================================================
