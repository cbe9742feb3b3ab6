---------------------------- MODULE MCEventLoop -----------------------------
(* One file, and programs of a few operations.                             *)
EXTENDS EventLoop

CONSTANT f1

MCFds == {f1}
=============================================================================
