------------------------------ MODULE MCFrames ------------------------------
(***************************************************************************)
(* Instances of Frames: an MR of three pages of two units that lie apart   *)
(* in host memory, addresses 1 to 5 of it, lists that end inside a page,   *)
(* at its end and, in the middle of a message, outside the MR, and frames  *)
(* of other senders.  In the other MR the pages are of four units.         *)
(***************************************************************************)
EXTENDS Frames

Sge(addr, len) == [addr |-> addr, len |-> len]

ThreePages ==
  [iova |-> 1, length |-> 5, page |-> 2,
   iovs |-> <<[base |-> 20, len |-> 2], [base |-> 10, len |-> 2], [base |-> 30, len |-> 2]>>]

HugePages ==
  [iova |-> 1, length |-> 7, page |-> 4,
   iovs |-> <<[base |-> 20, len |-> 4], [base |-> 10, len |-> 4]>>]

SomeSends == {<<Sge(2, 1)>>, <<Sge(4, 2), Sge(1, 1)>>, <<Sge(1, 5)>>, <<Sge(4, 3)>>}
SomeRecvs == {<<Sge(3, 3), Sge(1, 2)>>, <<Sge(2, 2)>>, <<Sge(5, 9)>>}

ToUs == [mac |-> Mac, qpn |-> Qpn, gid |-> "v4", sgid |-> 0]
SomeAhs == {ToUs, [ToUs EXCEPT !.gid = "v6"], [ToUs EXCEPT !.mac = "none"]}

SomeBound == [RC |-> [sends |-> 2, recvs |-> 2, gids |-> 1, mods |-> 1, states |-> 0,
                      dups |-> 1],
              UD |-> [sends |-> 1, recvs |-> 2, gids |-> 0, mods |-> 0, states |-> 2,
                      dups |-> 2]]

\* Before all, between headers, inside an IPv6 header, inside and behind a payload.
SomeCuts == {0, 3, 6, 7, 8}

Av(gid, sgid) == [mac |-> Mac, gid |-> gid, sgid |-> sgid]
SomeMods == {[ah_attr |-> Av("v4", 1)], [ah_attr |-> Av("v6", 2), path_mtu |-> 4],
             [ah_attr |-> Av("v6", 1), path_mtu |-> 4], [path_mtu |-> 8]}

\* A datagram with IP options that came over a router, put together like those of Frame.
IpUnit == [k |-> "ip", part |-> 1, src |-> "v4", ihl |-> 6, hops |-> "routed"]
BthUnit == [k |-> "bth", type |-> "UD", op |-> [place |-> "ONLY", imm |-> FALSE],
            padcnt |-> 1, qpn |-> Qpn, pkey |-> TRUE]
Text(bth) == <<bth, [k |-> "deth", src |-> 4], Data(0, 0), [k |-> "pad"]>>
UdpUnit == [k |-> "udp", roce |-> TRUE, len |-> 6]
Foreign(mac, ip, udp, body) ==
  <<[k |-> "vnet"], [k |-> "eth", mac |-> mac, family |-> "v4"]>> \o ip \o <<udp>> \o body
  \o <<[k |-> "icrc", of |-> Masked(ip) \o <<udp>> \o body]>>

Good == Foreign(Mac, <<IpUnit, [k |-> "opt"]>>, UdpUnit, Text(BthUnit))
WithIhl(ihl) == <<[IpUnit EXCEPT !.ihl = ihl]>>
Plain(mac, udp, bth) == Foreign(mac, WithIhl(5), udp, Text(bth))

Stray(t, frame) == [type |-> t, frame |-> frame, data |-> <<>>]
SomeStrays ==
  {[type |-> "UD", frame |-> Good,
    data |-> <<[k |-> "zero"], [IpUnit EXCEPT !.hops = "ones"], Data(0, 0)>>],
   Stray("UD", [Good EXCEPT ![8] = Data(0, 1)]),
   Stray("UD", SubSeq(Good, 1, 8)),
   Stray("UD", Foreign(Mac, WithIhl(4), UdpUnit, Text(BthUnit))),
   Stray("UD", Plain("other", UdpUnit, BthUnit)),
   Stray("UD", Plain(Mac, [UdpUnit EXCEPT !.len = 7], BthUnit)),
   Stray("UD", Plain(Mac, [UdpUnit EXCEPT !.roce = FALSE], BthUnit)),
   Stray("UD", Plain(Mac, UdpUnit, [BthUnit EXCEPT !.pkey = FALSE])),
   Stray("UD", Plain(Mac, UdpUnit, [BthUnit EXCEPT !.padcnt = 3])),
   Stray("UD", Plain(Mac, UdpUnit, [BthUnit EXCEPT !.op.place = "FIRST"])),
   Stray("RC", Plain(Mac, UdpUnit, BthUnit))}

\* The theorems of FramesProofs hold for the instances, but that on page counts for
\* the MR of huge pages.
ASSUME GivenHere == FramesGiven /\ (Mr = ThreePages => ContextPages)
=============================================================================
