--------------------------- MODULE MCClockReports ---------------------------
(* PATs with a PCR and without, a PID whose PCRs are close, far apart or    *)
(* wrap around, and a second clock.                                         *)
EXTENDS ClockReports

With(pid, vals) == [pid : {pid}, pcr : {TRUE}, val : vals]
Without(pids) == [pid : pids, pcr : {FALSE}, val : {0}]

MCPacket == Without({0, 1}) \cup With(0, {7}) \cup With(1, {0, 5, 7, 12}) \cup With(2, {5, 11})
=============================================================================
