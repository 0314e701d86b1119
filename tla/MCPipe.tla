------------------------------- MODULE MCPipe -------------------------------
EXTENDS Pipe

CONSTANTS init, a, none

Procs == {init, a}
Bytes == {0, 1}
=============================================================================
