----------------------------- MODULE MCSignals -----------------------------
EXTENDS Signals

\* SIGDEF, SIGINT, SIGKILL, SIGUSR1, SIGCONT and SIGSTOP
Sigs == {0, 2, 9, 10, 18, 19}
MaskSets == {{}, {2, 9}}
============================================================================
