------------------------------ MODULE MCShell -------------------------------
EXTENDS Shell

Cmd(in, out, prog) == [input |-> in, output |-> out, program |-> prog]
Plain == Cmd("", "", "found")

\* a <f >g;  a <nofile;  a >f | b (refused);  a <f | b >g;  a | nosuch;
\* nosuch | b;  | b;  a | b | c
MCLines == {
    <<Cmd("file", "file", "found")>>,
    <<Cmd("missing", "", "found")>>,
    <<Cmd("", "file", "found"), Plain>>,
    <<Cmd("file", "", "found"), Cmd("", "file", "found")>>,
    <<Plain, Cmd("", "", "missing")>>,
    <<Cmd("", "", "missing"), Plain>>,
    <<Cmd("", "", "empty"), Plain>>,
    <<Plain, Plain, Plain>> }
=============================================================================
