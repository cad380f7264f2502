---------------------------- MODULE MCFileJobs ----------------------------
(* Instances of FileJobs for TLC. *)
EXTENDS FileJobs

CONSTANTS f1, f2, f3

ThreeFiles == {f1, f2, f3}

Ask(kind, back, told, names) == [kind |-> kind, back |-> back, told |-> told, names |-> names]

\* A send that comes back, a fetch of two that leaves the target in NET, one
\* told so, of which one file is not there, and a scan.
SendAndPull ==
    {Ask("send", TRUE, FALSE, {}), Ask("pull", FALSE, FALSE, {f1, f2}),
     Ask("pull", TRUE, TRUE, {f2, f3}), Ask("scan", TRUE, FALSE, {f2})}
=============================================================================
