------------------------------ MODULE MCRelay ------------------------------
(* An empty file, one of a datagram, one whose last datagram is short, and   *)
(* one of two datagrams; rates that are no whole number of units per tick.   *)
EXTENDS Relay

MCSizes == {0, UdpSize, UdpSize + 1, 2 * UdpSize}
MCRates == {Second + 1, 2 * Second + 1}
=============================================================================
