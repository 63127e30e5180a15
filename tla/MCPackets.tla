----------------------------- MODULE MCPackets -----------------------------
(* Packets with a table of two servers, and lists shorter and longer. *)
EXTENDS Packets
CONSTANTS r1, r2, v1, v2, web, vpn

MCDnsLists == {<<r1>>, <<r1, r2>>, <<r2, r1, web>>}
MCVirtualDns == <<v1, v2>>
=============================================================================
