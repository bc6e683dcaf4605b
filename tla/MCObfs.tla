------------------------------- MODULE MCObfs -------------------------------
(* Instances of Obfs and of Packet for TLC. *)
EXTENDS Obfs, Packet

Both == {"client", "server"}
Zero == {FALSE}
Unknown == BOOLEAN

\* A property of Packet is about all packets and no state; it is evaluated in the
\* initial states only.  A packet that is sealed passes the filter of the other end
\* and is opened there at its payload, unless it was changed on the way; whatever
\* lengths it claims, the payload lies within what was captured; and the filter
\* lets through the packets for the bound address and no others (obfs_seal_ipv4,
\* obfs_seal_ipv6, obfs_open_ipv4, obfs_open_ipv6, filter_compile).
PacketsOpen == obfs.started \/ (SealedOpens /\ LengthsInBounds /\ FilterExact)

=============================================================================
