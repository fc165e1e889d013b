---------------------------- MODULE MCMediaLatch ----------------------------
(* TLC instance of MediaLatch. Hosts: a phone, a second one (another fork,  *)
(* or where the phone's SIP comes from), a stranger, a host of the private  *)
(* LAN and the SBC's loopback. Port 3 is the last one: it has no RTCP port. *)
EXTENDS MediaLatch

CONSTANTS phone, other, stranger, lan, loop

Addresses(hosts, ports) == [ip : hosts, port : ports]
MCIPs == {phone, other, stranger, lan, loop}
MCSdpAddrs == Addresses({phone, lan, loop, NoIP}, {1}) \cup Addresses({other}, {3})
MCSources == Addresses({phone}, {1, 2}) \cup Addresses({stranger}, {1}) \cup Addresses({other}, {3})

\* The two latches meet only in the handler, so one is heard at a time.
OneStream == {{"rtp"}, {"rtcp"}}
=============================================================================
