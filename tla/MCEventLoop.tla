---------------------------- MODULE MCEventLoop ----------------------------
EXTENDS EventLoop

CONSTANTS h1, h2, v1, v2, v3, fd, idle, timer, own

\* One source of each kind that differs: a signal is dispatched like a file.
MCKindOf == [s \in Sources |-> CASE s = fd -> "fd" [] s = idle -> "idle" [] OTHER -> "timer"]
=============================================================================
