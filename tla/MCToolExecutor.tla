-------------------------- MODULE MCToolExecutor --------------------------
(* A small instance of the executor with its commands for TLC. *)
EXTENDS Commands, TLC

CONSTANTS sh, wr, rd      \* a shell command, a file write, a file read

MCCalls == {sh, wr, rd}
MCShell == {sh}
MCWrites == {wr}

\* Every call has its own id, or the write repeats the command's.
OwnIds == [c \in MCCalls |-> c]
SharedId == [c \in MCCalls |-> IF c = wr THEN sh ELSE c]

TightLimit == [b \in Buckets |-> 1]
=============================================================================
