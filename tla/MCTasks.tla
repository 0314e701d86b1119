------------------------------ MODULE MCTasks ------------------------------
EXTENDS Tasks

CONSTANTS init, a, b, d, none

Tasks4 == {init, a, b, d}

\* A stop of another task cannot be told from yields here.
Stopped1 == {init}
============================================================================
