---------------------------- MODULE HostAddresses ----------------------------
(***************************************************************************)
(* Which hosts block_private_hosts keeps requests away from                *)
(* (src/src/resource_loader.cpp, 404-612).  An address is 4 or 16 bytes.   *)
(* A host that is written as an address is a record [is, parts]:           *)
(*   "v4"   up to four parts, in any base; a part is its value's bytes     *)
(*   "v6"   the 16 bytes                                                   *)
(***************************************************************************)
EXTENDS Integers, Sequences, SequencesExt

CONSTANTS Written,   \* host -> how it is written, for those that are addresses
          Resolved   \* host -> the address a connection to it goes to

Zeros(n) == [i \in 1..n |-> 0]

\* Loopback, private, link-local, shared, "this" network, multicast and reserved.
IsBlockedIpv4(a) ==
  \/ a[1] \in {0, 10, 127}
  \/ a[1] >= 224
  \/ a[1] = 172 /\ a[2] \in 16..31
  \/ <<a[1], a[2]>> \in {<<192, 168>>, <<169, 254>>}
  \/ a[1] = 100 /\ a[2] \in 64..127

\* An address that embeds a version 4 one is judged by it.
IsBlockedIpv6(a) ==
  \/ SubSeq(a, 1, 15) = Zeros(15) /\ a[16] \in {0, 1}
  \/ a[1] \in {252, 253, 255}
  \/ a[1] = 254 /\ a[2] \in 128..191
  \/ /\ \/ SubSeq(a, 1, 12) \in {Zeros(10) \o <<255, 255>>, Zeros(12)}
        \/ SubSeq(a, 1, 12) = <<0, 100, 255, 155>> \o Zeros(8)
     /\ IsBlockedIpv4(SubSeq(a, 13, 16))
  \/ SubSeq(a, 1, 2) = <<32, 2>> /\ IsBlockedIpv4(SubSeq(a, 3, 6))

IsBlocked(a) == IF Len(a) = 4 THEN IsBlockedIpv4(a) ELSE IsBlockedIpv6(a)

\* The last part fills the bytes the leading ones leave.
ParseNumericIpv4(parts) ==
  LET leading == Front(parts)
      room == 5 - Len(parts)
  IN IF \/ Len(parts) > 4 \/ Len(Last(parts)) > room
        \/ \E p \in ToSet(leading) : Len(p) > 1
     THEN <<>>
     ELSE <<FlattenSeq(leading) \o Zeros(room - Len(Last(parts))) \o Last(parts)>>

\* The host that is_blocked_literal_host sees; a trailing dot changes nothing.
BlockedAsWritten(host) ==
  \/ host # <<>> /\ host[1] = "localhost"
  \/ /\ host \in DOMAIN Written
     /\ IF Written[host].is = "v6" THEN IsBlockedIpv6(Written[host].parts)
        ELSE LET address == ParseNumericIpv4(Written[host].parts)
             IN address # <<>> /\ IsBlockedIpv4(address[1])

\* is_blocked_sockaddr, for the peer of a connection.
BlockedPeer(host) == host \in DOMAIN Resolved /\ IsBlocked(Resolved[host])
=============================================================================
