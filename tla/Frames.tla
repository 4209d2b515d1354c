------------------------------- MODULE Frames -------------------------------
(***************************************************************************)
(* The path of a message through frames: roce_post_send gathers a scatter  *)
(* list into packets, roce_net_recv takes a frame apart, finds out whether *)
(* the QP may have it, and scatters the payload over a receive WR.  Both   *)
(* ends are QPs of one type, RC or UD; a GSI receives like a UD.           *)
(*                                                                         *)
(* A frame is the sequence of its units: a header is one unit (an IPv6     *)
(* header is two), a byte of payload is one.  What a cell of the sender's  *)
(* memory holds is its own number, so a unit of payload tells where it     *)
(* comes from.  RC frames arrive once and in order here: what PSNs do for  *)
(* them is the matter of RcConnection, and they are left out.              *)
(***************************************************************************)
EXTENDS ScatterList, FiniteSets

CONSTANTS
  Types,         \* of "RC" and "UD"
  Mr,            \* the MR of both ends: [iova, length, page, iovs]
  SendLists, RecvLists,    \* scatter lists posted
  ActiveMtu, MaxMtu,       \* of the port; the size of a UD datagram
  PadUnit,       \* packets are padded to a multiple of it, 4 in the code
  VnetHdr,       \* length of the vnet header of the port
  MaxSge,        \* ROCE_MAX_SGE
  GidLen,        \* ROCE_GID_TBL_LEN
  Mods,          \* arguments of roce_modify_qp, see ModifyQp
  Strays,        \* frames of others: [type, frame, data], data <<>> if not for us
  Sources,       \* QPNs of the UD senders
  Ahs,           \* AHs of UD sends: [mac, qpn, gid, sgid]; an invalid one has mac "none"
  Cuts,          \* where the caller of roce_net_recv may cut a frame in buffers
  Bound          \* [Types -> [sends, recvs, gids, mods, states, dups]]: bounds on the calls

\* port.c has the MTUs, the rest are the types of the arguments.
ASSUME FramesAssumption ==
  /\ GidLen \in Nat \ {0} /\ PadUnit \in Nat \ {0} /\ VnetHdr \in Nat
  /\ MaxSge \in Nat /\ ActiveMtu \in Nat \ {0} /\ MaxMtu \in Nat /\ ActiveMtu <= MaxMtu
  /\ Types \subseteq {"RC", "UD"} /\ Sources \subseteq Nat /\ Cuts \subseteq Nat
  /\ \A mod \in Mods :
       /\ "ah_attr" \in DOMAIN mod => mod.ah_attr.sgid \in Nat
       /\ "path_mtu" \in DOMAIN mod => mod.path_mtu \in Nat \ {0}

Qpn == 2          \* the receiving QP
Mac == "mac"      \* the MAC of its port

\* Words of an IPv4 header, of ihlbuf (IP_IHL_MASK), and what a uint8_t of bytes holds.
MinIhl == 5
IhlWords == 15
LenWords == 64

VARIABLES
  type,     \* qp_type of both QPs
  gids,     \* ports[0].gids of the sender: "none", "v4" or "v6" each
  snd,      \* the sender's attributes: [path_mtu, ah_attr]
  state,    \* qp_state of the receiver
  dest,     \* dest_qp_num of the receiver
  rq,       \* the receiver's queue of receive WRs
  resp,     \* resp.wr: empty, or a receive WR with its cursor and byte_len
  mem,      \* host memory of the receiver
  wire,     \* frames under way
  sent,     \* history: the payload of each message posted that was sent
  comps,    \* history: receive completions
  failed,   \* history: a packet was refused after it had taken its WR
  calls,    \* history: how often bounded actions were taken
  abort     \* how the process ended: the assertion that failed or the array that was
            \* overrun, or "none"

frame_vars == <<type, gids, snd, state, dest, rq, resp, mem, wire, sent, comps,
                failed, calls, abort>>

HostCells == UNION {iov.base .. iov.base + iov.len - 1 : iov \in ToSet(Mr.iovs)}

-----------------------------------------------------------------------------
(***************************************************************************)
(* roce_modify_qp.  mod is a function on the attributes of the mask.  They *)
(* are stored one by one in the order of the code, up to the first that is *)
(* refused.  The port of the sender is given along with a path MTU, as the *)
(* code takes the limit from the port in the argument.                     *)
(***************************************************************************)
Family(gid) == IF gid = "v4" THEN "v4" ELSE "v6"     \* roce_gid_is_ipv4

\* Mutant: the index of the source GID is not looked at.
AllowedAnyIndex(name, value) ==
  CASE name = "ah_attr" -> value.sgid >= GidLen \/ Family(gids[value.sgid]) = Family(value.gid)
    [] name = "path_mtu" -> value <= MaxMtu

Allowed(name, value) ==
  CASE name = "ah_attr" -> /\ value.sgid < GidLen
                           /\ Family(gids[value.sgid]) = Family(value.gid)
    [] name = "path_mtu" -> value <= MaxMtu

ModifyQp(attr, mod) ==
  LET Store(acc, name) ==
        IF name \notin DOMAIN mod \/ acc.refused THEN acc
        ELSE IF Allowed(name, mod[name])
        THEN [acc EXCEPT !.attr[name] = mod[name]]
        ELSE [acc EXCEPT !.refused = TRUE]
  IN Store(Store([attr |-> attr, refused |-> FALSE], "ah_attr"), "path_mtu")

-----------------------------------------------------------------------------
(***************************************************************************)
(* Building packets.                                                       *)
(***************************************************************************)
Units(iovs) == FlattenSeq([i \in 1 .. Len(iovs) |->
                             [j \in 1 .. iovs[i].len |-> iovs[i].base + j - 1]])

(***************************************************************************)
(* The lists of the packets of a message.  One packet takes the list as it *)
(* stands; for several, roce_sge_advance cuts it at every MTU.             *)
(***************************************************************************)
Segments(sges, mtu) ==
  LET payload == SgeLen(sges, Start)
      packets == (payload + mtu - 1) \div mtu
      Segment(acc, i) ==
        LET bytes == IF i < packets THEN mtu ELSE payload - (packets - 1) * mtu
            adv == SgeAdvance(sges, bytes, acc.cur)
        IN [cur |-> [idx |-> adv.idx, off |-> adv.off], lists |-> Append(acc.lists, adv.dst)]
  IN IF packets <= 1 THEN <<sges>>
     ELSE Loop(Segment, [cur |-> Start, lists |-> <<>>],
                   [i \in 1 .. packets |-> i]).lists

\* Numbers of the pieces of a payload, tagged with the message they belong to.
Data(n, cell) == [k |-> "data", msg |-> n, cell |-> cell]
Tagged(n, cells) == [i \in 1 .. Len(cells) |-> Data(n, cells[i])]

(***************************************************************************)
(* hops stands for the fields that change on the way (TOS, TTL and         *)
(* checksum of IPv4; traffic class, flow label and hop limit of IPv6).     *)
(* The ICRC is computed with all their bits set: the sender sets them in a *)
(* copy, roce_crc32_pkt of the receiver in the header itself.              *)
(***************************************************************************)
IpHeader(ah) ==
  LET part(i) == [k |-> "ip", part |-> i, src |-> gids[ah.sgid], ihl |-> MinIhl, hops |-> "sent"]
  IN IF Family(ah.gid) = "v4" THEN <<part(1)>> ELSE <<part(1), part(2)>>

Masked(ip) == [ip EXCEPT ![1].hops = "ones"]

(***************************************************************************)
(* A packet from BTH to padding, framed: roce_netpkt_set4 and set6 count   *)
(* what follows the UDP header and compute the ICRC over everything from   *)
(* the masked IP header on.                                                *)
(***************************************************************************)
Frame(ah, body) ==
  LET udp == <<[k |-> "udp", roce |-> TRUE, len |-> 1 + Len(body) + 1]>>
  IN [i \in 1 .. VnetHdr |-> [k |-> "vnet"]]
     \o <<[k |-> "eth", mac |-> ah.mac, family |-> Family(ah.gid)]>>
     \o IpHeader(ah) \o udp \o body
     \o <<[k |-> "icrc", of |-> Masked(IpHeader(ah)) \o udp \o body]>>

Body(n, cells, op, qpn, eths) ==
  LET padcnt == (-Len(cells)) % PadUnit IN
  <<[k |-> "bth", type |-> type, op |-> op, padcnt |-> padcnt, qpn |-> qpn, pkey |-> TRUE]>>
  \o eths \o Tagged(n, cells) \o [i \in 1 .. padcnt |-> [k |-> "pad"]]

Imm(imm) == IF imm THEN <<[k |-> "immdt"]>> ELSE <<>>

RcFrames(n, sges, imm) ==
  LET lists == Segments(sges, snd.path_mtu)
      last == Len(lists)
      op(i) == CASE last = 1 -> "ONLY"
                 [] i = 1 /\ i < last -> "FIRST"
                 [] i > 1 /\ i = last -> "LAST"
                 [] OTHER -> "MIDDLE"
      eths(i) == IF i = last THEN Imm(imm) ELSE <<>>
      with(i) == imm /\ i = last
  IN [i \in 1 .. last |->
        Frame(snd.ah_attr, Body(n, Units(MapSge(Mr, lists[i]).iovs),
                                [place |-> op(i), imm |-> with(i)], Qpn, eths(i)))]

\* The DETH carries the QP it comes from.
UdFrame(n, sges, imm, ah, src) ==
  Frame(ah, Body(n, Units(MapSge(Mr, sges).iovs), [place |-> "ONLY", imm |-> imm],
                 ah.qpn, <<[k |-> "deth", src |-> src]>> \o Imm(imm)))

-----------------------------------------------------------------------------
(***************************************************************************)
(* roce_net_decap: take the headers off the buffers one by one.  What is   *)
(* missing, meant for another MAC or port, of the wrong length or has a    *)
(* wrong ICRC is refused, with nothing changed.  The IP header it hands on *)
(* is the one that roce_crc32_pkt has masked.                              *)
(***************************************************************************)
Headers == <<"vnet", "eth", "ip", "options", "udp", "bth">>

(***************************************************************************)
(* IHL counts words of four bytes, and a unit of options is one word.      *)
(* ihllen is a uint8_t, of LenWords words: below MinIhl the difference     *)
(* wraps.  ihlbuf has room for IhlWords of them.                           *)
(***************************************************************************)
OptionsLen(ip) == (ip.ihl - MinIhl) % LenWords

HeaderLen(d, h) ==
  CASE h = "vnet" -> VnetHdr
    [] h = "ip" -> IF d.eth[1].family = "v4" THEN 1 ELSE 2
    [] h = "options" -> IF d.eth[1].family = "v4" THEN OptionsLen(d.ip[1]) ELSE 0
    [] OTHER -> 1

TakeHeader(d, h) ==
  LET adv == IovAdvance(d.bufs, HeaderLen(d, h))
      complete == Len(adv.data) = HeaderLen(d, h)
  IN IF ~d.ok THEN d
     ELSE [d EXCEPT ![h] = adv.data, !.bufs = adv.bufs,
                    !.ok = CASE h = "options" -> Len(adv.data) <= IhlWords
                             [] h = "eth" -> complete /\ adv.data[1].mac = Mac
                             [] OTHER -> complete]

\* More options were copied than ihlbuf holds.
Overrun(d) == Len(d.options) > IhlWords

\* icrc is the last unit of the buffers, split off them.
Genuine(d, icrc) ==
  /\ d.udp[1].roce /\ d.udp[1].len = 1 + Len(d.bth) + IovLen(d.bufs)
  /\ icrc.data = <<[k |-> "icrc", of |-> Masked(d.ip) \o d.options \o d.udp \o d.bth
                                         \o FlattenSeq(icrc.bufs)]>>

Decap(bufs) ==
  LET none == [vnet |-> <<>>, eth |-> <<>>, ip |-> <<>>, options |-> <<>>, udp |-> <<>>,
               bth |-> <<>>, bufs |-> bufs, ok |-> TRUE]
      d == Loop(TakeHeader, none, Headers)
      icrc == IovReverse(d.bufs, 1)
  IN IF d.ok /\ Genuine(d, icrc)
     THEN [d EXCEPT !.ip = Masked(@), !.bufs = icrc.bufs]
     ELSE [d EXCEPT !.ok = FALSE]

\* roce_build_grh: an IPv4 header is moved behind 20 bytes of zero.
BuildGrh(ip) == IF Len(ip) = 1 THEN <<[k |-> "zero"]>> \o ip ELSE ip

(***************************************************************************)
(* roce_recv_payload, from the state s = [rq, resp, mem, comps, failed,    *)
(* abort] of the receiver.  ok tells whether it returned 0.  The WR and    *)
(* its cursor keep what a failure finds there.  dst_iovs has room for      *)
(* 2 * MaxSge entries.                                                     *)
(***************************************************************************)
Scatter(memory, cells, data) ==
  Loop(LAMBDA m, i : [m EXCEPT ![cells[i]] = data[i]], memory,
           [i \in 1 .. Len(cells) |-> i])

\* What the application finds in the WR's list, read with its own addresses.
Addresses(sges) == FlattenSeq([i \in 1 .. Len(sges) |->
                                 [j \in 1 .. sges[i].len |-> sges[i].addr + j - 1]])
HostCell(addr) ==
  Mr.iovs[(addr - (Mr.iova - (Mr.iova % Mr.page))) \div Mr.page + 1].base + (addr % Mr.page)
ReadBack(memory, sges, n) == [i \in 1 .. n |-> memory[HostCell(Addresses(sges)[i])]]

\* Mutant: the WR stays in resp.wr when it is complete.
DeliverKeeps(s, r, adv, map, bufs, completes) ==
  LET memory == Scatter(s.mem, Units(map.iovs), FlattenSeq(bufs))
  IN IF ~Mapped(Mr, adv.dst) THEN [s EXCEPT !.ok = FALSE, !.failed = TRUE]
     ELSE [s EXCEPT !.mem = memory, !.resp[1].cur = [idx |-> adv.idx, off |-> adv.off],
                    !.resp[1].byte_len = @ + IovLen(bufs)]

\* The WR r of resp.wr, which the packet's payload of buf_len units shall fill.
Deliver(s, r, adv, map, bufs, completes) ==
  LET moved == [s EXCEPT !.resp[1].cur = [idx |-> adv.idx, off |-> adv.off]]
      memory == Scatter(s.mem, Units(map.iovs), FlattenSeq(bufs))
      length == r.byte_len + IovLen(bufs)
  IN IF ~Mapped(Mr, adv.dst)
     THEN [moved EXCEPT !.ok = FALSE, !.failed = TRUE]
     ELSE IF map.num > 2 * MaxSge
     THEN [moved EXCEPT !.ok = FALSE, !.abort = "iovs"]
     ELSE IF map.num # SgePages(adv.dst)
     THEN [moved EXCEPT !.ok = FALSE, !.abort = "pages"]
     ELSE IF completes
     THEN [moved EXCEPT !.mem = memory, !.resp = <<>>,
                        !.comps = Append(@, [wr |-> r.wr.id, remote_qpn |-> s.dest,
                                             data |-> ReadBack(memory, r.wr.sges, length)])]
     ELSE [moved EXCEPT !.mem = memory, !.resp[1].byte_len = length]

Fill(s, r, bufs, completes) ==
  LET adv == SgeAdvance(r.wr.sges, IovLen(bufs), r.cur) IN
  IF ~InList(r.wr.sges, r.cur)
  THEN [s EXCEPT !.ok = FALSE, !.abort = "sge_len"]
  ELSE IF SgeLen(r.wr.sges, r.cur) < IovLen(bufs)
  THEN [s EXCEPT !.ok = FALSE, !.failed = TRUE]
  ELSE Deliver(s, r, adv, MapSge(Mr, adv.dst), bufs, completes)

\* roce_pop_recv_wr: a WR goes to resp.wr and stays there.
PopRecvWr(s) ==
  IF s.resp # <<>> THEN s
  ELSE [s EXCEPT !.rq = Tail(@),
                 !.resp = <<[wr |-> Head(s.rq), cur |-> Start, byte_len |-> 0]>>]

\* Mutant: the packet need not be of the place in a message that is awaited.
RecvPayloadAnyPlace(s, bufs, inprocess, completes) ==
  IF s.resp = <<>> /\ s.rq = <<>> THEN [s EXCEPT !.ok = FALSE]
  ELSE Fill(PopRecvWr(s), PopRecvWr(s).resp[1], bufs, completes)

RecvPayload(s, bufs, inprocess, completes) ==
  IF inprocess # (s.resp # <<>>) \/ (s.resp = <<>> /\ s.rq = <<>>)
  THEN [s EXCEPT !.ok = FALSE]
  ELSE Fill(PopRecvWr(s), PopRecvWr(s).resp[1], bufs, completes)

\* roce_get_eth takes a header off the payload, or fails.
HasEth(bufs) == IovLen(bufs) >= 1

\* roce_recv_rc for the SEND packet that is expected.
RecvRc(s, bth, bufs) ==
  LET inprocess == bth.op.place \in {"MIDDLE", "LAST"}
      completes == bth.op.place \in {"LAST", "ONLY"}
  IN IF ~bth.op.imm THEN RecvPayload(s, bufs, inprocess, completes)
     ELSE IF ~HasEth(bufs) THEN [s EXCEPT !.ok = FALSE]
     ELSE RecvPayload(s, IovAdvance(bufs, 1).bufs, inprocess, completes)

(***************************************************************************)
(* roce_recv_ud.  The GRH goes into a buffer kept free in front.  The      *)
(* source QPN is stored after the completion was reported, whether or not  *)
(* there was one, so remote_qpn is that of the datagram before.            *)
(***************************************************************************)
RecvUd(s, bth, bufs, ip) ==
  LET deth == IovAdvance(bufs, 1)
      rest == IF bth.op.imm THEN IovAdvance(deth.bufs, 1).bufs ELSE deth.bufs
      t == IF bth.op.imm /\ ~HasEth(deth.bufs) THEN [s EXCEPT !.ok = FALSE]
           ELSE RecvPayload(s, <<BuildGrh(ip)>> \o rest, FALSE, TRUE)
  IN IF ~HasEth(bufs) \/ bth.op.place # "ONLY" THEN [s EXCEPT !.ok = FALSE]
     ELSE [t EXCEPT !.dest = deth.data[1].src]

Receiving == {"RTR", "RTS", "SQD", "SQE"}

\* roce_recv_bth: a frame for another QP, or one the QP may not have, goes.
RecvBth(s, d) ==
  LET bth == d.bth[1] bufs == IovReverse(d.bufs, bth.padcnt).bufs IN
  IF \/ bth.qpn # Qpn \/ state \notin Receiving \/ ~bth.pkey \/ bth.type # type
     \/ IovLen(d.bufs) < bth.padcnt
  THEN [s EXCEPT !.ok = FALSE]
  ELSE IF type = "RC" THEN RecvRc(s, bth, bufs) ELSE RecvUd(s, bth, bufs, d.ip)

-----------------------------------------------------------------------------
\* Both QPs as roce_create_qp and a first roce_modify_qp left them: in RTR, with an
\* address vector and a path MTU.
FrameInit ==
  /\ type \in Types
  /\ gids = [i \in 0 .. GidLen - 1 |-> IF i = 0 THEN "v4" ELSE "none"]
  /\ snd = [path_mtu |-> ActiveMtu, ah_attr |-> [mac |-> Mac, gid |-> "v4", sgid |-> 0]]
  /\ state = "RTR" /\ dest = 0
  /\ rq = <<>> /\ resp = <<>> /\ mem = [c \in HostCells |-> [k |-> "unwritten"]]
  /\ wire = <<>> /\ sent = {} /\ comps = <<>> /\ failed = FALSE
  /\ calls = [call \in DOMAIN Bound[type] |-> 0]
  /\ abort = "none"

Running == abort = "none"

Counted(call) == calls[call] < Bound[type][call] /\ calls' = [calls EXCEPT ![call] = @ + 1]

\* roce_add_gid fills an empty place, roce_del_gid empties a full one.
AddGid(i, gid) ==
  /\ Running /\ Counted("gids") /\ gids[i] = "none"
  /\ gids' = [gids EXCEPT ![i] = gid]
  /\ UNCHANGED <<type, snd, state, dest, rq, resp, mem, wire, sent, comps, failed, abort>>

DelGid(i) ==
  /\ Running /\ Counted("gids") /\ gids[i] # "none"
  /\ gids' = [gids EXCEPT ![i] = "none"]
  /\ UNCHANGED <<type, snd, state, dest, rq, resp, mem, wire, sent, comps, failed, abort>>

\* A UD QP stores the same attributes and sends without them.
ModifySender(mod) ==
  /\ Running /\ type = "RC" /\ Counted("mods")
  /\ snd' = ModifyQp(snd, mod).attr
  /\ UNCHANGED <<type, gids, state, dest, rq, resp, mem, wire, sent, comps, failed, abort>>

\* roce_modify_qp with ROCE_QP_STATE: any state at any time, and nothing else
\* changes; roce_set_qp_state does nothing.
ModifyState(st) ==
  /\ Running /\ Counted("states")
  /\ state' = st
  /\ UNCHANGED <<type, gids, snd, dest, rq, resp, mem, wire, sent, comps, failed, abort>>

\* The payload a list stands for, by the addresses the application gave.
Payload(n, sges) ==
  [i \in 1 .. Len(Addresses(sges)) |-> Data(n, HostCell(Addresses(sges)[i]))]

(***************************************************************************)
(* The number of buffers is unsigned: the error of a list that cannot be   *)
(* mapped passes the test of map_pages < 0 and fails the assertion behind  *)
(* it, as does a number other than that of the pages.  The first list for  *)
(* which either happens ends the process.                                  *)
(***************************************************************************)
BuildError(list) ==
  IF ~Mapped(Mr, list) THEN "map_refused"
  ELSE IF MapSge(Mr, list).num # SgePages(list) THEN "pages"
  ELSE "none"

Unbuildable(lists) == {i \in 1 .. Len(lists) : BuildError(lists[i]) # "none"}

FirstError(lists) ==
  BuildError(lists[CHOOSE i \in Unbuildable(lists) : \A j \in Unbuildable(lists) : i <= j])

\* roce_post_send on an RC QP.
PostSendRc(sges, imm) ==
  LET n == calls.sends + 1
      lists == Segments(sges, snd.path_mtu)
  IN
  /\ Running /\ type = "RC" /\ Counted("sends")
  /\ IF Unbuildable(lists) = {}
     THEN /\ wire' = wire \o RcFrames(n, sges, imm)
          /\ sent' = sent \cup {Payload(n, sges)}
          /\ UNCHANGED abort
     ELSE abort' = FirstError(lists) /\ UNCHANGED <<wire, sent>>
  /\ UNCHANGED <<type, gids, snd, state, dest, rq, resp, mem, comps, failed>>

\* roce_request_ud: what exceeds the MTU or has no AH is completed unsent.
PostSendUd(sges, imm, ah, src) ==
  LET n == calls.sends + 1 IN
  /\ Running /\ type = "UD" /\ Counted("sends")
  /\ IF SgeLen(sges, Start) > ActiveMtu \/ ah.mac = "none"
     THEN UNCHANGED <<wire, sent, abort>>
     ELSE IF BuildError(sges) # "none"
     THEN abort' = BuildError(sges) /\ UNCHANGED <<wire, sent>>
     ELSE /\ wire' = Append(wire, UdFrame(n, sges, imm, ah, src))
          /\ sent' = IF ah.mac = Mac /\ ah.qpn = Qpn
                     THEN sent \cup {BuildGrh(Masked(IpHeader(ah))) \o Payload(n, sges)}
                     ELSE sent
          /\ UNCHANGED abort
  /\ UNCHANGED <<type, gids, snd, state, dest, rq, resp, mem, comps, failed>>

PostRecv(sges) ==
  /\ Running /\ Counted("recvs")
  /\ rq' = Append(rq, [id |-> calls.recvs + 1, sges |-> sges])
  /\ UNCHANGED <<type, gids, snd, state, dest, resp, mem, wire, sent, comps, failed, abort>>

\* A frame of somebody else reaches the port.
StrayArrives(stray) ==
  /\ Running /\ Counted("dups") /\ stray.type = type
  /\ wire' = Append(wire, stray.frame)
  /\ sent' = IF stray.data = <<>> THEN sent ELSE sent \cup {stray.data}
  /\ UNCHANGED <<type, gids, snd, state, dest, rq, resp, mem, comps, failed, abort>>

\* The network may repeat a datagram and deliver any of them next, or never.
Repeat(i) ==
  /\ Running /\ type = "UD" /\ Counted("dups")
  /\ wire' = Append(wire, wire[i])
  /\ UNCHANGED <<type, gids, snd, state, dest, rq, resp, mem, sent, comps, failed, abort>>

(***************************************************************************)
(* roce_net_recv, of a frame cut at cut.  An RC packet is taken in order,  *)
(* and again until it is accepted: its PSN does not match before.          *)
(***************************************************************************)
RecvFrame(s, d) ==
  IF Overrun(d) THEN [s EXCEPT !.ok = FALSE, !.abort = "ihlbuf"]
  ELSE IF d.ok THEN RecvBth(s, d)
  ELSE [s EXCEPT !.ok = FALSE]

NetRecv(i, cut) ==
  /\ Running /\ (type = "RC" => i = 1) /\ cut <= Len(wire[i])
  /\ \E d \in {Decap(<<SubSeq(wire[i], 1, cut), From(wire[i], cut)>>)} :
     \E after \in {RecvFrame([rq |-> rq, resp |-> resp, mem |-> mem, comps |-> comps,
                              failed |-> failed, dest |-> dest, abort |-> abort,
                              ok |-> TRUE], d)} :
       /\ rq' = after.rq /\ resp' = after.resp /\ mem' = after.mem
       /\ comps' = after.comps /\ failed' = after.failed /\ dest' = after.dest
       /\ abort' = after.abort
       /\ wire' = IF type = "RC" /\ ~after.ok /\ d.ok /\ d.bth[1].type = "RC"
                  THEN wire ELSE RemoveAt(wire, i)
       /\ UNCHANGED <<type, gids, snd, state, sent, calls>>

FrameNext ==
  \/ \E i \in 0 .. GidLen - 1 : DelGid(i) \/ \E gid \in {"v4", "v6"} : AddGid(i, gid)
  \/ \E mod \in Mods : ModifySender(mod)
  \/ \E st \in {"RESET", "RTR"} : ModifyState(st)
  \/ \E sges \in SendLists, imm \in BOOLEAN :
       \/ PostSendRc(sges, imm)
       \/ \E ah \in Ahs, src \in Sources : PostSendUd(sges, imm, ah, src)
  \/ \E sges \in RecvLists : PostRecv(sges)
  \/ \E stray \in Strays : StrayArrives(stray)
  \/ \E i \in 1 .. Len(wire) : Repeat(i) \/ \E cut \in Cuts : NetRecv(i, cut)

FrameSpec == FrameInit /\ [][FrameNext]_frame_vars

-----------------------------------------------------------------------------
(***************************************************************************)
(* What the last theorems of FramesProofs ask of the constants; the MCs    *)
(* have it of theirs.  The region is of whole pages, enough of them.       *)
(***************************************************************************)
WholePages ==
  /\ Mr.iova \in Nat /\ Mr.length \in Nat /\ Mr.page \in Nat \ {0}
  /\ Mr.iovs \in Seq([base : Int, len : {Mr.page}])
  /\ (Mr.iova % Mr.page) + Mr.length <= Mr.page * Len(Mr.iovs)

\* The pages of the region are of the size that pages are counted with, and its end has
\* room below the next multiple of AddrCut.
ContextPages ==
  /\ Mr.page = PageSize
  /\ (Mr.iova + Mr.length + PageSize - 1) \div AddrCut = Mr.iova \div AddrCut

\* Nonempty entries.
NatSge == [addr : Nat, len : Nat \ {0}]

\* The part of an entry that lies in the region touches at most so many of its pages.
Touches(sge, pages) ==
  LET end == Smaller(sge.addr + sge.len, Mr.iova + Mr.length)
  IN (sge.addr % Mr.page) + end - sge.addr <= pages * Mr.page

\* dst_iovs has room for the pages of every entry.
RecvsFit ==
  \A sges \in RecvLists :
    /\ sges \in Seq(NatSge) /\ Len(sges) \in 1 .. MaxSge
    /\ \E pages \in 0 .. 2 * MaxSge :
         /\ Len(sges) * pages <= 2 * MaxSge
         /\ \A i \in 1 .. Len(sges) : Touches(sges[i], pages)

IsSeq(s) == Len(s) \in Nat /\ s = [i \in 1 .. Len(s) |-> s[i]]

\* The units at the places of the headers of a frame have the fields of those headers.
Shaped(w) ==
  LET eth == VnetHdr + 1
      ip == eth + 1
      udp == IF w[eth].family = "v4" THEN ip + 1 + OptionsLen(w[ip]) ELSE ip + 2
      bth == udp + 1
  IN /\ IsSeq(w)
     /\ ip <= Len(w) => w[ip].ihl \in Nat
     /\ ip <= Len(w) /\ bth <= Len(w) => w[bth].padcnt \in Nat
     /\ ip <= Len(w) /\ bth < Len(w) /\ w[bth].type = "UD" => w[bth + 1].src \in Nat

StraysShaped == \A stray \in Strays : Shaped(stray.frame)

FramesGiven ==
  /\ WholePages /\ RecvsFit /\ StraysShaped
  /\ \A sges \in SendLists : sges \in Seq(NatSge)

-----------------------------------------------------------------------------
\* A cursor lies in its list, an index of the GID table in the table.
FramesTypeOK ==
  /\ type \in Types
  /\ gids \in [0 .. GidLen - 1 -> {"none", "v4", "v6"}]
  /\ snd.path_mtu \in 1 .. MaxMtu /\ snd.ah_attr.sgid \in 0 .. GidLen - 1
  /\ state \in {"RESET", "RTR"}
  /\ dest \in Nat
  /\ \A i \in 1 .. Len(rq) : rq[i].sges \in RecvLists
  /\ Len(resp) <= 1
  /\ \A i \in 1 .. Len(resp) :
       LET cur == resp[i].cur sges == resp[i].wr.sges IN
       cur.idx \in 0 .. Len(sges) /\ (cur.off # 0 => cur.off < sges[cur.idx + 1].len)
  /\ DOMAIN mem = HostCells
  /\ abort \in {"none", "sge_len", "map_refused", "pages", "iovs", "ihlbuf"}

\* The WR of resp.wr was posted before those of the queue.
WrIds == [i \in 1 .. Len(resp) |-> resp[i].wr.id] \o [i \in 1 .. Len(rq) |-> rq[i].id]

Service == INSTANCE DatagramService
  WITH messages <- sent, waiting <- WrIds,
       completed <- [i \in 1 .. Len(comps) |-> [wr |-> comps[i].wr, data |-> comps[i].data]]

(***************************************************************************)
(* What the application reads through the scatter list of a completed WR   *)
(* is the gather list of one send, unit for unit, and without padding,     *)
(* wherever pages, list entries, packets and buffers of the frame end;     *)
(* before it, for UD, the IP header sent, with all bits set in the fields  *)
(* that change on the way.  WRs complete in the order they were posted.    *)
(***************************************************************************)
IsDatagramService == Service!ServiceSpec

(***************************************************************************)
(* roce_mr_map_sge yields as many buffers as roce_sge_pages counts pages,  *)
(* on both sides, and never more than the array dst_iovs of the responder  *)
(* holds: for a region whose pages are those of the context (ContextPages) *)
(* and receive lists that touch no more of them than dst_iovs has room for *)
(* (RecvsFit).                                                             *)
(***************************************************************************)
PagesAgree == abort \notin {"pages", "iovs"}

(***************************************************************************)
(* Between datagrams a UD QP holds a receive WR exactly when a datagram    *)
(* was ever refused that did not fit its WR or could not be mapped: that   *)
(* WR was taken out of the queue and is given back on no path.             *)
(***************************************************************************)
UdHeldIffRefused == type = "UD" => (resp # <<>> <=> failed)

(***************************************************************************)
(* A datagram refused after it took its WR is the last a UD QP takes: with *)
(* resp.wr set every other is "missing SEND LAST", and no state change,    *)
(* reset included, clears it.                                              *)
(***************************************************************************)
RefusalIsFinal ==
  [][type = "UD" /\ resp # <<>> => comps' = comps /\ resp' = resp]_frame_vars
=============================================================================
