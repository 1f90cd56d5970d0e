------------------------------- MODULE Routes -------------------------------
(* What the first pass of parse() leaves to the second: the tables Strs and  *)
(* Pcrs of the PSI parser, which GetStreams and GetPcrs return.              *)
EXTENDS Absent

CONSTANT EsPid  \* the PIDs a PMT may list as a stream or as a PCR PID

VARIABLES strs,  \* the streams
          pcrs   \* the streams a PCR PID is the clock of
=============================================================================
