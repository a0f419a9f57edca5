---------------------------- MODULE MuxFlowProof ----------------------------
(***************************************************************************)
(* Proofs about MuxFlow for every size of window, buffer and transfer.     *)
(*                                                                         *)
(* The argument is about the segments in the pipe.  In each direction they *)
(* form a chain: each starts where the one before it ended, the first at   *)
(* what the receiver expects and the last ends at the sender's counter.    *)
(* With what the two ends have told each other about windows this bounds   *)
(* what can still arrive, hence what the buffers must hold; and with what  *)
(* they have told each other last, that no window stays closed.            *)
(***************************************************************************)
EXTENDS MuxFlow, TLAPS

-----------------------------------------------------------------------------
(* Chains of segments. *)

\* Where the stream stands before segment i of q; RSTs are out of the stream.
SeqAt(q, i, last) ==
  IF i \in 1..Len(q) /\ q[i].flags # "RST" THEN q[i].seq ELSE last

\* The segments of q carry the stream from position first to position last.
Chain(q, first, last) ==
  /\ SeqAt(q, 1, last) = first
  /\ \A i \in 1..Len(q) : q[i].flags # "RST" =>
       /\ q[i].seq + Span(q[i]) = SeqAt(q, i + 1, last)
       /\ q[i].seq + Span(q[i]) <= last
  /\ \A i \in 1..Len(q) - 1 : q[i].flags = "RST" => q[i+1].flags = "RST"

\* No segment of q is an RST.
NoRst(q) == \A i \in 1..Len(q) : q[i].flags # "RST"

\* A segment's fields and the room it takes in the stream are numbers.
LEMMA SegmentType ==
  ASSUME NEW s \in Segment
  PROVE  /\ s.flags \in Flags /\ s.seq \in Nat /\ s.ack \in Nat
         /\ s.win \in Nat /\ s.len \in Nat /\ Span(s) \in Nat
         /\ s.win * WinUnit \in Nat
         /\ s.flags \in {"SYN", "SYNACK"} => Span(s) = s.len + 1
         /\ s.flags \notin {"SYN", "SYNACK"} => Span(s) = s.len
<1>1. s.flags \in Flags /\ s.seq \in Nat /\ s.ack \in Nat /\ s.win \in Nat /\ s.len \in Nat
  BY DEF Segment
<1>2. s.win * WinUnit \in Nat
  BY <1>1, FlowAssumption
<1> QED BY <1>1, <1>2 DEF Span

\* Sending the next stretch of the stream extends the chain.
LEMMA ChainAppend ==
  ASSUME NEW q \in Seq(Segment), NEW s \in Segment,
         NEW first \in Nat, NEW last \in Nat,
         Chain(q, first, last), NoRst(q),
         s.flags # "RST", s.seq = last
  PROVE  Chain(Append(q, s), first, s.seq + Span(s))
<1> DEFINE r == Append(q, s)
<1>1. /\ Len(r) = Len(q) + 1 /\ r[Len(q) + 1] = s
      /\ \A i \in 1..Len(q) : r[i] = q[i] /\ q[i] \in Segment
  OBVIOUS
<1>2. Span(s) \in Nat /\ s.seq \in Nat
  BY SegmentType
<1>3. \A i \in 1..Len(q) : Span(q[i]) \in Nat /\ q[i].seq \in Nat
  BY <1>1, SegmentType
<1>4. \A i \in 1..Len(q) + 1 : SeqAt(r, i, s.seq + Span(s)) = SeqAt(q, i, last)
  BY <1>1 DEF SeqAt, NoRst
<1>5. SeqAt(r, 1, s.seq + Span(s)) = first
  BY <1>4 DEF Chain
<1>6. ASSUME NEW i \in 1..Len(r)
      PROVE  /\ r[i].flags # "RST"
             /\ r[i].seq + Span(r[i]) = SeqAt(r, i + 1, s.seq + Span(s))
             /\ r[i].seq + Span(r[i]) <= s.seq + Span(s)
  <2>1. CASE i = Len(q) + 1
    BY <2>1, <1>1, <1>2 DEF SeqAt
  <2>2. CASE i \in 1..Len(q)
    BY <2>2, <1>1, <1>2, <1>3, <1>4 DEF Chain, NoRst
  <2> QED BY <2>1, <2>2, <1>1
<1> QED BY <1>5, <1>6, <1>1 DEF Chain

\* An RST behind the chain does not change it.
LEMMA ChainAppendRst ==
  ASSUME NEW q \in Seq(Segment), NEW s \in Segment,
         NEW first \in Nat, NEW last \in Nat,
         Chain(q, first, last), s.flags = "RST"
  PROVE  Chain(Append(q, s), first, last)
<1> DEFINE r == Append(q, s)
<1>1. /\ Len(r) = Len(q) + 1 /\ r[Len(q) + 1] = s
      /\ \A i \in 1..Len(q) : r[i] = q[i]
  OBVIOUS
<1>2. \A i \in 1..Len(q) + 2 : SeqAt(r, i, last) = SeqAt(q, i, last)
  BY <1>1 DEF SeqAt
<1>3. \A i \in 1..Len(r) : r[i].flags # "RST" => i \in 1..Len(q)
  BY <1>1
<1> QED BY <1>1, <1>2, <1>3 DEF Chain

\* Receiving the first segment moves the start of the chain past it.
LEMMA ChainTail ==
  ASSUME NEW q \in Seq(Segment), q # <<>>,
         NEW first \in Nat, NEW last \in Nat,
         Chain(q, first, last), Head(q).flags # "RST"
  PROVE  /\ Head(q).seq = first
         /\ first + Span(Head(q)) <= last
         /\ Chain(Tail(q), first + Span(Head(q)), last)
<1> DEFINE r == Tail(q)
<1>1. /\ Len(r) = Len(q) - 1 /\ Len(q) \in Nat \ {0} /\ Head(q) = q[1]
      /\ \A i \in 1..Len(r) : r[i] = q[i + 1]
  OBVIOUS
<1>2. Head(q).seq = first
  BY <1>1 DEF Chain, SeqAt
<1>3. \A i \in 1..Len(q) : SeqAt(r, i, last) = SeqAt(q, i + 1, last)
  BY <1>1 DEF SeqAt
<1>4. first + Span(Head(q)) <= last /\ SeqAt(r, 1, last) = first + Span(Head(q))
  BY <1>1, <1>2, <1>3 DEF Chain
<1>5. \A i \in 1..Len(r) : /\ i + 1 \in 1..Len(q)
                          /\ SeqAt(r, i + 1, last) = SeqAt(q, i + 2, last)
                          /\ r[i] = q[i + 1]
  BY <1>1, <1>3
<1>6. \A i \in 1..Len(r) - 1 : i + 1 \in 1..Len(q) - 1 /\ r[i + 1] = q[i + 2]
  BY <1>1
<1> QED BY <1>2, <1>4, <1>5, <1>6 DEF Chain

-----------------------------------------------------------------------------
(* The inductive invariant. *)

\* Position after all that the host has sent: tx_seq only counts the SYN once
\* it has been answered.
HostNext == IF tx_seq = 0 THEN 1 ELSE tx_seq

\* Position the host expects next from the device.
HostExpects == IF state = "CONNECTING" THEN 0 ELSE rx_recvd + 1

\* What the phases of the handshake imply for counters, client and wires.
Phases ==
  /\ state = "CONNECTING" => /\ tx_seq = 0 /\ tx_ack = 0 /\ ib_size = 0
                             /\ d_seq <= 1 /\ cstate = "CONNECTING1"
                             /\ dstate # "OPEN"
                             /\ \A i \in 1..Len(toDev) : toDev[i].flags = "SYN"
  /\ state = "CONNECTED"  => /\ tx_seq > 0 /\ tx_ack > 0
                             /\ cstate \in {"CONNECTING2", "CONNECTED"}
  /\ dstate = "LISTENING" => d_rcv = 0 /\ d_seq = 0 /\ toHost = <<>>
  /\ dstate # "LISTENING" => d_rcv > 0
  /\ dstate \in {"SYN_RCVD", "OPEN"} => d_seq > 0
  /\ state \notin {"FREED", "CRASHED"} => NoRst(toDev)
  /\ dstate # "CLOSED" => NoRst(toHost)

\* A segment on its way to the device: what it acknowledges and the window it
\* grants never go beyond what the host has delivered and can take.
ToDevOK(s, ack) ==
  /\ s.flags \in {"SYN", "ACK", "RST"}
  /\ s.flags = "SYN" => s.seq = 0 /\ s.len = 0
  /\ s.flags # "RST" => s.ack <= ack /\ s.win * WinUnit <= TxWin

\* A segment on its way to the host: what it acknowledges has been received (rcv)
\* and is no older than what the host knows (known), and the window it grants
\* lies within the buffer of the device, whose application has consumed app.
ToHostOK(s, known, rcv, app) ==
  /\ s.flags = "SYNACK" => s.len = 0
  /\ 1 <= s.ack /\ s.ack <= rcv /\ known <= s.ack
  /\ s.win * WinUnit <= DevBuf
  /\ s.ack + s.win * WinUnit <= 1 + app + DevBuf

ToHostAll ==
  /\ \A i \in 1..Len(toHost) : ToHostOK(toHost[i], rx_ack, d_rcv, d_app)
  /\ \A i, j \in 1..Len(toHost) : i <= j => toHost[i].ack <= toHost[j].ack

ToDevAll == \A i \in 1..Len(toDev) : ToDevOK(toDev[i], tx_ack)

\* Device to host.
Downstream ==
  /\ state \notin {"FREED", "CRASHED"} => Chain(toHost, HostExpects, d_seq)
  /\ state = "CONNECTED" => tx_ack + ib_size = rx_recvd + 1
  /\ tx_ack <= 1 + got + sock
  /\ d_ack <= tx_ack /\ d_win <= TxWin
  /\ ToDevAll
  /\ d_seq <= 1 \/ d_seq <= tx_ack + TxWin

\* Host to device.
Upstream ==
  /\ dstate # "CLOSED" => Chain(toDev, d_rcv, HostNext)
  /\ d_rcv <= HostNext
  /\ d_app <= d_rcv /\ (d_rcv > 0 => d_app < d_rcv)
  /\ d_rcv <= 1 + d_app + DevBuf
  /\ ToHostAll
  /\ rx_ack <= d_rcv /\ rx_win <= DevBuf /\ rx_ack + rx_win <= 1 + d_app + DevBuf
  /\ tx_seq <= 1 + d_app + DevBuf
  /\ state = "CONNECTED" =>
       /\ rx_ack > 0
       /\ tx_seq + sendable <= rx_ack + DevBuf
       /\ tx_seq + sendable <= 1 + d_app + DevBuf

IInv == TypeOK /\ Phases /\ Downstream /\ Upstream

-----------------------------------------------------------------------------
(* Facts about the operators of the module. *)

\* A window in units of WinUnit bytes promises no more than the room it is made of.
LEMMA WholeUnits ==
  \A x \in Nat : x \div WinUnit \in Nat /\ (x \div WinUnit) * WinUnit <= x
<1>1. \A x \in Nat, u \in Nat \ {0} : x \div u \in Nat /\ (x \div u) * u <= x
  OBVIOUS
<1>2. WinUnit \in Nat \ {0}
  BY FlowAssumption
<1> QED BY ONLY <1>1, <1>2, Zenon

LEMMA HostSegmentType ==
  ASSUME NEW f \in Flags, NEW seq \in Nat, NEW ack \in Nat, NEW len \in Nat
  PROVE  /\ HostSegment(f, seq, ack, len) \in Segment
         /\ HostSegment(f, seq, ack, len).win * WinUnit <= TxWin
<1>1. TxWin \div WinUnit \in Nat /\ (TxWin \div WinUnit) * WinUnit <= TxWin
  <2>1. TxWin \in Nat
    BY FlowAssumption
  <2> QED BY ONLY <2>1, WholeUnits, Zenon
<1> QED BY <1>1 DEF HostSegment, Segment

LEMMA SendableType ==
  ASSUME NEW seq \in Nat, NEW ack \in Nat, NEW win \in Nat
  PROVE  Sendable(seq, ack, win) \in Nat
<1>1. (seq - ack) % SeqMod \in Nat
  BY FlowAssumption
<1> QED BY <1>1, FlowAssumption DEF Sendable, Least

\* What update_connection allows never exceeds the window it was told, when
\* what is on its way is less than the whole sequence space.
LEMMA SendableBound ==
  ASSUME NEW seq \in Nat, NEW ack \in Nat, NEW win \in Nat,
         ack <= seq, seq <= ack + DevBuf + 1
  PROVE  /\ Sendable(seq, ack, win) \in Nat
         /\ Sendable(seq, ack, win) > 0 => seq + Sendable(seq, ack, win) <= ack + win
<1>1. (seq - ack) % SeqMod = seq - ack
  <2>1. seq - ack \in Nat /\ seq - ack < SeqMod
    BY FlowAssumption
  <2> QED BY <2>1, FlowAssumption
<1> QED BY <1>1, FlowAssumption DEF Sendable, Least

-----------------------------------------------------------------------------
(* What a step does to the segments in the pipe. *)

\* The part of TypeOK that arithmetic needs, and the part sequences need.
Counters ==
  {tx_seq, tx_ack, rx_recvd, rx_ack, rx_win, sendable, ib_size, sock, got,
   d_seq, d_rcv, d_app, d_ack, d_win} \subseteq Nat
Wires == toDev \in Seq(Segment) /\ toHost \in Seq(Segment)

LEMMA TypeParts == TypeOK => Counters /\ Wires
  BY FlowAssumption DEF TypeOK, Counters, Wires

\* What is good for the counters now stays good when they grow.
LEMMA SegmentsAge ==
  ASSUME NEW s \in Segment, NEW k \in Nat, NEW r \in Nat, NEW a \in Nat,
         NEW r2 \in Nat, NEW a2 \in Nat, r <= r2, a <= a2
  PROVE  /\ ToHostOK(s, k, r, a) => ToHostOK(s, k, r2, a2)
         /\ ToDevOK(s, r) => ToDevOK(s, r2)
  BY SegmentType, FlowAssumption DEF ToHostOK, ToDevOK

\* Nothing arrives: the counters the segments are compared with only grow.
LEMMA ToHostSame ==
  ASSUME Counters, Wires, Counters', Wires', ToHostAll,
         toHost' = toHost, rx_ack' = rx_ack, d_rcv <= d_rcv', d_app <= d_app'
  PROVE  ToHostAll'
<1>1. \A i \in 1..Len(toHost) : toHost[i] \in Segment
  BY DEF Wires
<1>2. \A s \in Segment : ToHostOK(s, rx_ack, d_rcv, d_app)
                           => ToHostOK(s, rx_ack, d_rcv', d_app')
  BY SegmentsAge DEF Counters
<1> QED BY <1>1, <1>2 DEF ToHostAll

\* The host takes the first segment and remembers what it acknowledged.
LEMMA ToHostTaken ==
  ASSUME Counters, Wires, Counters', Wires', ToHostAll,
         toHost # <<>>, toHost' = Tail(toHost),
         rx_ack' = Head(toHost).ack, d_rcv' = d_rcv, d_app' = d_app
  PROVE  /\ ToHostAll' /\ 1 <= rx_ack' /\ rx_ack' <= d_rcv'
         /\ ToHostOK(Head(toHost), rx_ack, d_rcv, d_app)
         /\ Head(toHost) \in Segment
<1>1. /\ Len(toHost) \in Nat \ {0} /\ Head(toHost) = toHost[1]
      /\ Len(Tail(toHost)) = Len(toHost) - 1
      /\ \A i \in 1..Len(toHost) - 1 : Tail(toHost)[i] = toHost[i + 1]
      /\ \A i \in 1..Len(toHost) : toHost[i] \in Segment
  BY DEF Wires
<1>2. ToHostOK(toHost[1], rx_ack, d_rcv, d_app)
  BY <1>1 DEF ToHostAll
<1>3. ASSUME NEW i \in 1..Len(toHost')
      PROVE  ToHostOK(toHost'[i], rx_ack', d_rcv', d_app')
  <2>1. i + 1 \in 1..Len(toHost) /\ toHost'[i] = toHost[i + 1]
    BY <1>1
  <2>2. /\ ToHostOK(toHost[i + 1], rx_ack, d_rcv, d_app)
        /\ toHost[1].ack <= toHost[i + 1].ack
    BY <1>1, <2>1 DEF ToHostAll
  <2> QED BY <1>1, <2>1, <2>2 DEF ToHostOK
<1>4. ASSUME NEW i \in 1..Len(toHost'), NEW j \in 1..Len(toHost'), i <= j
      PROVE  toHost'[i].ack <= toHost'[j].ack
  BY <1>1, <1>4 DEF ToHostAll
<1> QED BY <1>1, <1>2, <1>3, <1>4 DEF ToHostAll, ToHostOK

\* The device sends a segment that acknowledges all it has received.
LEMMA ToHostSent ==
  ASSUME Counters, Wires, Counters', Wires', ToHostAll, NEW s \in Segment,
         toHost' = Append(toHost, s), rx_ack' = rx_ack,
         d_rcv <= d_rcv', d_app <= d_app',
         s.ack = d_rcv', ToHostOK(s, rx_ack, d_rcv', d_app')
  PROVE  ToHostAll'
<1>1. /\ Len(toHost') = Len(toHost) + 1 /\ Len(toHost) \in Nat
      /\ toHost'[Len(toHost) + 1] = s
      /\ \A i \in 1..Len(toHost) : toHost'[i] = toHost[i] /\ toHost[i] \in Segment
  BY DEF Wires
<1>2. \A t \in Segment : ToHostOK(t, rx_ack, d_rcv, d_app) =>
         ToHostOK(t, rx_ack, d_rcv', d_app') /\ t.ack <= s.ack
  <2> SUFFICES ASSUME NEW t \in Segment, ToHostOK(t, rx_ack, d_rcv, d_app)
               PROVE  ToHostOK(t, rx_ack, d_rcv', d_app') /\ t.ack <= s.ack
    OBVIOUS
  <2>1. ToHostOK(t, rx_ack, d_rcv', d_app')
    BY SegmentsAge DEF Counters
  <2> QED BY <2>1 DEF ToHostOK
<1>3. ASSUME NEW i \in 1..Len(toHost')
      PROVE  ToHostOK(toHost'[i], rx_ack, d_rcv', d_app') /\ toHost'[i].ack <= s.ack
  <2>1. CASE i = Len(toHost) + 1
    BY <2>1, <1>1, SegmentType
  <2>2. CASE i \in 1..Len(toHost)
    BY <2>2, <1>1, <1>2 DEF ToHostAll
  <2> QED BY <2>1, <2>2, <1>1
<1>4. ASSUME NEW i \in 1..Len(toHost'), NEW j \in 1..Len(toHost'), i <= j
      PROVE  toHost'[i].ack <= toHost'[j].ack
  <2>1. CASE j = Len(toHost) + 1
    BY <2>1, <1>1, <1>3
  <2>2. CASE j \in 1..Len(toHost)
    BY <2>2, <1>1, <1>4 DEF ToHostAll
  <2> QED BY <2>1, <2>2, <1>1
<1> QED BY <1>3, <1>4 DEF ToHostAll

\* Towards the device: a segment leaves, or one that is in order joins.
LEMMA ToDevStep ==
  ASSUME Counters, Wires, Counters', Wires', ToDevAll, tx_ack <= tx_ack',
         \/ toDev' = toDev
         \/ toDev # <<>> /\ toDev' = Tail(toDev)
         \/ \E s \in Segment : ToDevOK(s, tx_ack') /\ toDev' = Append(toDev, s)
  PROVE  ToDevAll'
<1>1. \A i \in 1..Len(toDev) : toDev[i] \in Segment
  BY DEF Wires
<1>2. \A s \in Segment : ToDevOK(s, tx_ack) => ToDevOK(s, tx_ack')
  <2>1. tx_ack \in Nat /\ tx_ack' \in Nat
    BY DEF Counters
  <2> QED BY <2>1, SegmentsAge
<1>3. \A i \in 1..Len(toDev) : ToDevOK(toDev[i], tx_ack')
  BY <1>1, <1>2 DEF ToDevAll
<1>4. CASE toDev' = toDev
  BY <1>3, <1>4 DEF ToDevAll
<1>5. CASE toDev # <<>> /\ toDev' = Tail(toDev)
  <2>1. /\ Len(toDev') = Len(toDev) - 1 /\ Len(toDev) \in Nat \ {0}
        /\ \A i \in 1..Len(toDev') : toDev'[i] = toDev[i + 1]
    BY <1>5 DEF Wires
  <2> QED BY <2>1, <1>3 DEF ToDevAll
<1>6. ASSUME NEW s \in Segment, ToDevOK(s, tx_ack'), toDev' = Append(toDev, s)
      PROVE  ToDevAll'
  <2>1. /\ Len(toDev') = Len(toDev) + 1 /\ Len(toDev) \in Nat
        /\ toDev'[Len(toDev) + 1] = s
        /\ \A i \in 1..Len(toDev) : toDev'[i] = toDev[i]
    BY <1>6 DEF Wires
  <2> QED BY <2>1, <1>3, <1>6 DEF ToDevAll
<1> QED BY <1>4, <1>5, <1>6

-----------------------------------------------------------------------------
(* Types. *)

LEMMA TeardownType ==
  ASSUME TypeOK, NEW st, NEW ib \in Nat, NEW sk \in 0..SockCap,
         NEW wire \in Seq(Segment), tx_seq' \in Nat, tx_ack' \in Nat,
         Teardown(st, ib, sk, wire)
  PROVE  /\ state' = "FREED" /\ cstate' \in ClientStates
         /\ events' \in SUBSET Poll /\ devents' = devents
         /\ sendable' = sendable /\ ack_pending' = ack_pending
         /\ ib_size' \in Nat /\ sock' \in 0..SockCap /\ sk <= sock'
         /\ \/ toDev' = wire
            \/ toDev' = Append(wire, HostSegment("RST", tx_seq', tx_ack', 0))
         /\ toDev' \in Seq(Segment)
<1> DEFINE rst == HostSegment("RST", tx_seq', tx_ack', 0)
<1>1. rst \in Segment
  BY HostSegmentType DEF Flags
<1>2. toDev' = wire \/ toDev' = Append(wire, rst)
  <2>1. CASE st \in {"REFUSED", "DYING"}
    BY <2>1 DEF Teardown
  <2>2. CASE st \notin {"REFUSED", "DYING"}
    BY <2>2 DEF Teardown
  <2> QED BY <2>1, <2>2
<1>3. toDev' \in Seq(Segment)
  BY <1>1, <1>2
<1>4. cstate' \in ClientStates /\ events' \in SUBSET Poll
  <2>0. events \in SUBSET Poll
    BY DEF TypeOK
  <2>1. CASE st \in {"REFUSED", "CONNECTING"}
    BY <2>0, <2>1 DEF Teardown, ClientStates, Poll
  <2>2. CASE st \notin {"REFUSED", "CONNECTING"}
    BY <2>0, <2>2 DEF Teardown, ClientStates
  <2> QED BY <2>1, <2>2
<1>5. ib_size' \in Nat /\ sock' \in 0..SockCap /\ sk <= sock'
  <2>1. CASE st \in {"REFUSED", "CONNECTING"}
    BY <2>1 DEF Teardown
  <2>2. CASE st \notin {"REFUSED", "CONNECTING"}
    BY <2>2, FlowAssumption DEF Teardown, Least
  <2> QED BY <2>1, <2>2
<1> QED BY <1>2, <1>3, <1>4, <1>5 DEF Teardown

LEMMA UpdateType ==
  ASSUME NEW ev \in SUBSET Poll, tx_seq' \in Nat, rx_ack' \in Nat, rx_win' \in Nat,
         UpdateConnection(ev)
  PROVE  /\ sendable' = Sendable(tx_seq', rx_ack', rx_win') /\ sendable' \in Nat
         /\ ack_pending' \in BOOLEAN
         /\ devents' \in SUBSET Poll /\ events' \in SUBSET Poll
<1>1. sendable' = Sendable(tx_seq', rx_ack', rx_win') /\ sendable' \in Nat
  BY SendableType DEF UpdateConnection
<1>2. ack_pending' \in BOOLEAN
  BY DEF UpdateConnection
<1>3. devents' \in SUBSET Poll
  BY DEF UpdateConnection, Poll
<1>4. events' \in SUBSET Poll
  BY <1>3 DEF UpdateConnection
<1> QED BY <1>1, <1>2, <1>3, <1>4

\* The host side of a step, when the connection is torn down in it.
LEMMA TornType ==
  ASSUME TypeOK, NEW st, NEW ib \in Nat, NEW sk \in 0..SockCap,
         Teardown(st, ib, sk, toDev), UNCHANGED <<capp, got, wrote, devVars>>,
         tx_seq' \in Nat, tx_ack' \in Nat, tx_acked' \in Nat,
         rx_recvd' \in Nat, rx_ack' \in Nat, rx_win' \in Nat,
         out' \in 0..SockCap, toHost' \in Seq(Segment)
  PROVE  TypeOK'
<1>1. toDev \in Seq(Segment)
  BY DEF TypeOK
<1>2. /\ state' = "FREED" /\ cstate' \in ClientStates
      /\ events' \in SUBSET Poll /\ devents' = devents
      /\ sendable' = sendable /\ ack_pending' = ack_pending
      /\ ib_size' \in Nat /\ sock' \in 0..SockCap
      /\ toDev' \in Seq(Segment)
  BY <1>1, TeardownType
<1> QED BY <1>2 DEF TypeOK, ConnStates, devVars

\* The host side of a step, when the connection goes on.
LEMMA KeptType ==
  ASSUME TypeOK, NEW ev \in SUBSET Poll,
         UpdateConnection(ev), UNCHANGED <<capp, got, wrote, devVars>>,
         state' \in ConnStates, cstate' \in ClientStates,
         tx_seq' \in Nat, tx_ack' \in Nat, tx_acked' \in Nat,
         rx_recvd' \in Nat, rx_ack' \in Nat, rx_win' \in Nat,
         ib_size' \in Nat, sock' \in 0..SockCap,
         out' \in 0..SockCap, toDev' \in Seq(Segment), toHost' \in Seq(Segment)
  PROVE  TypeOK'
<1>1. /\ sendable' \in Nat /\ ack_pending' \in BOOLEAN
      /\ devents' \in SUBSET Poll /\ events' \in SUBSET Poll
  BY UpdateType
<1> QED BY <1>1 DEF TypeOK, devVars

\* What TakeHeader leaves for a handler to work with.
LEMMA TakeHeaderType ==
  ASSUME TypeOK, TakeHeader
  PROVE  /\ Arrives \in Segment /\ toHost' \in Seq(Segment) /\ toHost # <<>>
         /\ rx_ack' \in Nat /\ rx_win' \in Nat
         /\ UNCHANGED <<capp, got, out, wrote, devVars>>
         /\ out' \in 0..SockCap
<1>1. toHost \in Seq(Segment) /\ out \in 0..SockCap
  BY DEF TypeOK
<1>2. toHost # <<>> /\ toHost' = Tail(toHost) /\ rx_ack' = Arrives.ack
      /\ rx_win' = Arrives.win * WinUnit
  BY DEF TakeHeader
<1>3. Head(toHost) \in Segment /\ Tail(toHost) \in Seq(Segment)
  BY <1>1, <1>2
<1>4. rx_ack' \in Nat /\ rx_win' \in Nat
  BY <1>2, <1>3, SegmentType DEF Arrives
<1> QED BY <1>1, <1>2, <1>3, <1>4 DEF TakeHeader, Arrives

LEMMA TypeRecvSynAck == TypeOK /\ RecvSynAck => TypeOK'
<1> SUFFICES ASSUME TypeOK, RecvSynAck PROVE TypeOK'
  OBVIOUS
<1>1. /\ Arrives \in Segment /\ toHost' \in Seq(Segment)
      /\ rx_ack' \in Nat /\ rx_win' \in Nat
      /\ UNCHANGED <<capp, got, out, wrote, devVars>> /\ out' \in 0..SockCap
  BY TakeHeaderType DEF RecvSynAck
<1>2. /\ tx_seq' \in Nat /\ tx_ack' \in Nat /\ rx_recvd' \in Nat /\ tx_acked \in Nat
      /\ ib_size \in Nat /\ sock \in 0..SockCap /\ toDev \in Seq(Segment)
  BY <1>1, SegmentType DEF RecvSynAck, TypeOK
<1>3. CASE /\ toDev' = Append(toDev, HostSegment("ACK", tx_seq', tx_ack', 0))
           /\ tx_acked' = tx_ack'
           /\ state' = "CONNECTED" /\ cstate' = "CONNECTING2"
           /\ UNCHANGED <<ib_size, sock>>
           /\ UpdateConnection({"OUT"})
  <2>1. HostSegment("ACK", tx_seq', tx_ack', 0) \in Segment
    BY <1>2, HostSegmentType DEF Flags
  <2>2. toDev' \in Seq(Segment) /\ {"OUT"} \in SUBSET Poll
    BY <1>2, <1>3, <2>1 DEF Poll
  <2>3. state' \in ConnStates /\ cstate' \in ClientStates
    BY <1>3 DEF ConnStates, ClientStates
  <2> QED BY <1>1, <1>2, <1>3, <2>2, <2>3, KeptType
<1>4. CASE UNCHANGED tx_acked /\ Teardown("CONNECTING", ib_size, sock, toDev)
  BY <1>1, <1>2, <1>4, TornType
<1> QED BY <1>3, <1>4 DEF RecvSynAck

LEMMA TypeRecvRefusal == TypeOK /\ RecvRefusal => TypeOK'
<1> SUFFICES ASSUME TypeOK, RecvRefusal PROVE TypeOK'
  OBVIOUS
<1>1. /\ toHost' \in Seq(Segment) /\ rx_ack' \in Nat /\ rx_win' \in Nat
      /\ UNCHANGED <<capp, got, out, wrote, devVars>> /\ out' \in 0..SockCap
  BY TakeHeaderType DEF RecvRefusal
<1>2. /\ tx_seq' \in Nat /\ tx_ack' \in Nat /\ tx_acked' \in Nat /\ rx_recvd' \in Nat
      /\ ib_size \in Nat /\ sock \in 0..SockCap
  BY DEF RecvRefusal, TypeOK
<1> QED BY <1>1, <1>2, TornType DEF RecvRefusal

LEMMA TypeRecvReset == TypeOK /\ RecvReset => TypeOK'
<1> SUFFICES ASSUME TypeOK, RecvReset PROVE TypeOK'
  OBVIOUS
<1>1. /\ toHost' \in Seq(Segment) /\ rx_ack' \in Nat /\ rx_win' \in Nat
      /\ UNCHANGED <<capp, got, out, wrote, devVars>> /\ out' \in 0..SockCap
  BY TakeHeaderType DEF RecvReset
<1>2. /\ tx_seq' \in Nat /\ tx_ack' \in Nat /\ tx_acked' \in Nat /\ rx_recvd' \in Nat
      /\ ib_size \in Nat /\ sock \in 0..SockCap
  BY DEF RecvReset, TypeOK
<1> QED BY <1>1, <1>2, TornType DEF RecvReset

LEMMA TypeRecvData == TypeOK /\ RecvData => TypeOK'
<1> SUFFICES ASSUME TypeOK, RecvData PROVE TypeOK'
  OBVIOUS
<1>1. /\ Arrives \in Segment /\ toHost' \in Seq(Segment)
      /\ rx_ack' \in Nat /\ rx_win' \in Nat
      /\ UNCHANGED <<capp, got, out, wrote, devVars>> /\ out' \in 0..SockCap
  BY TakeHeaderType DEF RecvData
<1>2. /\ tx_seq' = tx_seq /\ tx_ack' = tx_ack
      /\ tx_seq \in Nat /\ tx_ack \in Nat /\ tx_acked \in Nat /\ rx_recvd \in Nat
      /\ ib_size \in Nat /\ sock \in 0..SockCap /\ toDev \in Seq(Segment)
      /\ events \in SUBSET Poll /\ state \in ConnStates /\ cstate \in ClientStates
  BY DEF RecvData, TypeOK
<1>3. Arrives.len \in Nat
  BY <1>1, SegmentType
<1>4. CASE UNCHANGED <<tx_acked, rx_recvd>> /\ Teardown("CONNECTED", ib_size, sock, toDev)
  BY <1>1, <1>2, <1>4, TornType
<1>5. CASE /\ rx_recvd' = rx_recvd + Arrives.len
           /\ ib_size' = ib_size + Arrives.len
           /\ toDev' = Append(toDev, HostSegment("ACK", tx_seq, tx_ack, 0))
           /\ tx_acked' = tx_ack
           /\ UNCHANGED <<state, cstate, sock>>
           /\ UpdateConnection(events)
  <2>1. HostSegment("ACK", tx_seq, tx_ack, 0) \in Segment
    BY <1>2, HostSegmentType DEF Flags
  <2>2. toDev' \in Seq(Segment) /\ rx_recvd' \in Nat /\ ib_size' \in Nat
    BY <1>2, <1>3, <1>5, <2>1, SMTT(30)
  <2> QED BY <1>1, <1>2, <1>5, <2>2, KeptType
<1>6. CASE /\ rx_recvd' = rx_recvd + Arrives.len
           /\ UNCHANGED tx_acked
           /\ Teardown("CONNECTED", ib_size + Arrives.len, sock, toDev)
  <2>1. rx_recvd' \in Nat /\ ib_size + Arrives.len \in Nat
    BY <1>2, <1>3, <1>6
  <2> QED BY <1>1, <1>2, <1>6, <2>1, TornType
<1> QED BY <1>4, <1>5, <1>6 DEF RecvData

LEMMA TypeRecvNoConnection == TypeOK /\ RecvNoConnection => TypeOK'
<1> SUFFICES ASSUME TypeOK, RecvNoConnection PROVE TypeOK'
  OBVIOUS
<1> DEFINE rst == [flags |-> "RST", seq |-> 0, ack |-> Arrives.seq, win |-> 0, len |-> 0]
<1>1. toHost \in Seq(Segment) /\ toHost # <<>> /\ toHost' = Tail(toHost)
      /\ toDev \in Seq(Segment)
  BY DEF TypeOK, RecvNoConnection
<1>2. Arrives \in Segment /\ toHost' \in Seq(Segment)
  BY <1>1 DEF Arrives
<1>3. rst \in Segment
  BY <1>2, SegmentType DEF Segment, Flags
<1>4. toDev' \in Seq(Segment)
  <2>1. toDev' = toDev \/ toDev' = Append(toDev, rst)
    BY DEF RecvNoConnection
  <2> QED BY <1>1, <1>3, <2>1
<1> QED BY <1>2, <1>4 DEF TypeOK, RecvNoConnection, connVars, seqVars, clientVars,
                         appVars, devVars

LEMMA TypeAnonRstFails == TypeOK /\ AnonRstFails => TypeOK'
BY DEF TypeOK, AnonRstFails, ConnStates, seqVars, clientVars, appVars, devVars

\* device_client_process after n bytes have been written to the client.
LEMMA TypeAfterWrite ==
  ASSUME TypeOK, state = "CONNECTED", NEW n \in Nat, n <= ib_size,
         sock + n <= SockCap, AfterWrite(n)
  PROVE  TypeOK'
<1>1. /\ tx_seq \in Nat /\ tx_ack \in Nat /\ tx_acked \in Nat /\ rx_recvd \in Nat
      /\ rx_ack \in Nat /\ rx_win \in Nat /\ sendable \in Nat
      /\ ib_size \in Nat /\ sock \in 0..SockCap /\ toDev \in Seq(Segment)
      /\ events \in SUBSET Poll /\ state \in ConnStates /\ cstate \in ClientStates
      /\ out \in 0..SockCap /\ toHost \in Seq(Segment)
  BY DEF TypeOK
<1>2. /\ tx_ack' = tx_ack + n
      /\ UNCHANGED <<capp, got, wrote, toHost, devVars, rx_recvd, rx_ack, rx_win>>
  BY DEF AfterWrite
<1>3. ib_size - n \in Nat /\ sock + n \in 0..SockCap /\ tx_ack' \in Nat
  BY <1>1, <1>2, FlowAssumption
<1>4. CASE /\ UNCHANGED <<tx_seq, tx_acked, out>>
           /\ Teardown("CONNECTED", ib_size - n, sock + n, toDev)
  BY <1>1, <1>2, <1>3, <1>4, TornType
<1>5. ASSUME NEW m \in 1..Least(out, sendable), out' = out - m,
             UNCHANGED <<tx_seq, tx_acked>>,
             Teardown("CONNECTED", ib_size - n, sock + n, toDev)
      PROVE  TypeOK'
  <2>1. out' \in 0..SockCap
    BY <1>1, <1>5, FlowAssumption DEF Least
  <2> QED BY <1>1, <1>2, <1>3, <1>5, <2>1, TornType
<1>6. ASSUME NEW m \in 1..Least(out, sendable), out' = out - m,
             toDev' = Append(toDev, HostSegment("ACK", tx_seq, tx_ack', m)),
             tx_acked' = tx_ack', tx_seq' = tx_seq + m,
             ib_size' = ib_size - n, sock' = sock + n,
             UNCHANGED <<state, cstate>>, UpdateConnection(events)
      PROVE  TypeOK'
  <2>1. out' \in 0..SockCap /\ m \in Nat /\ tx_seq' \in Nat
    BY <1>1, <1>6, FlowAssumption DEF Least
  <2>2. HostSegment("ACK", tx_seq, tx_ack', m) \in Segment
    BY <1>1, <1>3, <2>1, HostSegmentType DEF Flags
  <2>3. toDev' \in Seq(Segment)
    BY <1>1, <1>6, <2>2
  <2> QED BY <1>1, <1>2, <1>3, <1>6, <2>1, <2>3, KeptType
<1>7. CASE /\ ib_size' = ib_size - n /\ sock' = sock + n
           /\ UNCHANGED <<state, cstate, tx_seq, tx_acked, out, toDev>>
           /\ UpdateConnection(events)
  BY <1>1, <1>2, <1>3, <1>7, KeptType
<1> QED BY <1>4, <1>5, <1>6, <1>7 DEF AfterWrite

LEMMA TypeDeviceClientProcess == TypeOK /\ DeviceClientProcess => TypeOK'
<1> SUFFICES ASSUME TypeOK, DeviceClientProcess PROVE TypeOK'
  OBVIOUS
<1>1. /\ ib_size \in Nat /\ sock \in 0..SockCap
      /\ toHost \in Seq(Segment) /\ out \in 0..SockCap
      /\ tx_seq \in Nat /\ tx_ack \in Nat /\ tx_acked \in Nat
      /\ rx_recvd \in Nat /\ rx_ack \in Nat /\ rx_win \in Nat
  BY DEF TypeOK
<1>2. CASE ClientWriteFails
  BY <1>1, <1>2, TornType DEF ClientWriteFails, seqVars
<1>3. ASSUME NEW n \in 1..Least(ib_size, SockCap - sock), AfterWrite(n)
      PROVE  TypeOK'
  <2>1. n \in Nat /\ n <= ib_size /\ sock + n <= SockCap
    BY <1>1, FlowAssumption DEF Least
  <2> QED BY <1>3, <2>1, TypeAfterWrite DEF DeviceClientProcess
<1>4. CASE AfterWrite(0)
  BY <1>1, <1>4, FlowAssumption, TypeAfterWrite DEF DeviceClientProcess
<1> QED BY <1>2, <1>3, <1>4 DEF DeviceClientProcess

LEMMA TypeCheckTimeouts == TypeOK /\ CheckTimeouts => TypeOK'
<1> SUFFICES ASSUME TypeOK, CheckTimeouts PROVE TypeOK'
  OBVIOUS
<1>1. /\ tx_seq' = tx_seq /\ tx_ack' = tx_ack /\ rx_recvd' = rx_recvd
      /\ rx_ack' = rx_ack /\ rx_win' = rx_win /\ out' = out /\ toHost' = toHost
      /\ UNCHANGED <<capp, got, wrote, devVars>>
      /\ tx_seq \in Nat /\ tx_ack \in Nat /\ tx_acked \in Nat /\ rx_recvd \in Nat
      /\ rx_ack \in Nat /\ rx_win \in Nat
      /\ ib_size \in Nat /\ sock \in 0..SockCap /\ toDev \in Seq(Segment)
      /\ events \in SUBSET Poll /\ state \in ConnStates /\ cstate \in ClientStates
      /\ out \in 0..SockCap /\ toHost \in Seq(Segment)
  BY DEF CheckTimeouts, TypeOK
<1>2. CASE UNCHANGED tx_acked /\ Teardown("CONNECTED", ib_size, sock, toDev)
  BY <1>1, <1>2, TornType
<1>3. CASE /\ toDev' = Append(toDev, HostSegment("ACK", tx_seq, tx_ack, 0))
           /\ tx_acked' = tx_ack
           /\ UNCHANGED <<state, cstate, ib_size, sock>>
           /\ UpdateConnection(events)
  <2>1. HostSegment("ACK", tx_seq, tx_ack, 0) \in Segment
    BY <1>1, HostSegmentType DEF Flags
  <2>2. toDev' \in Seq(Segment)
    BY <1>1, <1>3, <2>1
  <2> QED BY <1>1, <1>3, <2>2, KeptType
<1> QED BY <1>2, <1>3 DEF CheckTimeouts

LEMMA TypeClient == TypeOK /\ (ProcessSend \/ ClientStep) => TypeOK'
<1> SUFFICES ASSUME TypeOK, ProcessSend \/ ClientStep PROVE TypeOK'
  OBVIOUS
<1> USE DEF connVars, seqVars, clientVars, appVars, devVars
<1>1. CASE ProcessSend
  BY <1>1 DEF ProcessSend, TypeOK, ClientStates
<1>2. CASE ClientWrites
  BY <1>2, FlowAssumption DEF ClientWrites, TypeOK
<1>3. CASE ClientReads
  BY <1>3, FlowAssumption DEF ClientReads, TypeOK
<1>4. CASE ClientCloses
  BY <1>4 DEF ClientCloses, TypeOK
<1> QED BY <1>1, <1>2, <1>3, <1>4 DEF ClientStep

\* The segment the device emits is well formed if what it has received and not
\* consumed fits its buffer.
LEMMA DevEmitsType ==
  ASSUME NEW f \in Flags, NEW seq \in Nat, NEW rcv \in Nat, NEW len \in Nat,
         d_app \in Nat, toHost \in Seq(Segment), rcv <= 1 + d_app + DevBuf,
         DevEmits(f, seq, rcv, len)
  PROVE  \E s \in Segment :
           /\ toHost' = Append(toHost, s)
           /\ s.flags = f /\ s.seq = seq /\ s.ack = rcv /\ s.len = len
           /\ d_told' = <<rcv, s.win>> /\ d_told' \in Nat \X Nat
           /\ s.win * WinUnit <= DevBuf - (rcv - 1 - d_app)
           /\ toHost' \in Seq(Segment)
<1> DEFINE room == DevBuf - (rcv - 1 - d_app)
           seg == [flags |-> f, seq |-> seq, ack |-> rcv,
                   win |-> room \div WinUnit, len |-> len]
<1>1. room \in Nat
  BY FlowAssumption
<1>2. room \div WinUnit \in Nat /\ (room \div WinUnit) * WinUnit <= room
  <2> HIDE DEF room
  <2> QED BY ONLY <1>1, WholeUnits, ZenonT(30)
<1>3. seg \in Segment
  BY <1>2 DEF Segment
<1>4. toHost' = Append(toHost, seg) /\ d_told' = <<rcv, seg.win>>
  BY DEF DevEmits, DevAdvert
<1>5. seg.flags = f /\ seg.seq = seq /\ seg.ack = rcv /\ seg.len = len
  OBVIOUS
<1>6. seg.win \in Nat /\ seg.win * WinUnit <= DevBuf - (rcv - 1 - d_app)
  <2>1. seg.win = room \div WinUnit
    OBVIOUS
  <2> HIDE DEF seg
  <2>2. seg.win \in Nat /\ seg.win * WinUnit <= room
    <3> HIDE DEF room
    <3> QED BY ONLY <1>2, <2>1, ZenonT(30)
  <2> QED BY <2>2
<1> HIDE DEF seg
<1>7. toHost' \in Seq(Segment) /\ d_told' \in Nat \X Nat
  BY <1>3, <1>4, <1>6
<1> QED BY <1>3, <1>4, <1>5, <1>6, <1>7, ZenonT(30)

-----------------------------------------------------------------------------
(* Steps of the host. *)

\* The host handles the first segment in the pipe, or none.
Takes == /\ toHost # <<>> /\ toHost' = Tail(toHost)
         /\ rx_ack' = Head(toHost).ack /\ rx_win' = Head(toHost).win * WinUnit
Takes0 == toHost' = toHost /\ rx_ack' = rx_ack /\ rx_win' = rx_win

\* The device's side of the invariant after a step of the host.
LEMMA HostTakes ==
  ASSUME IInv, TypeOK', UNCHANGED devVars, Takes \/ Takes0
  PROVE  /\ ToHostAll' /\ rx_ack' <= d_rcv' /\ rx_win' <= DevBuf
         /\ rx_ack' + rx_win' <= 1 + d_app' + DevBuf
         /\ rx_ack <= rx_ack' /\ (Takes => rx_ack' > 0)
         /\ dstate' = "LISTENING" => d_rcv' = 0 /\ d_seq' = 0 /\ toHost' = <<>>
         /\ dstate' # "LISTENING" => d_rcv' > 0
         /\ dstate' \in {"SYN_RCVD", "OPEN"} => d_seq' > 0
         /\ dstate' # "CLOSED" => NoRst(toHost')
<1>1. Counters /\ Wires /\ Counters' /\ Wires'
  BY TypeParts, PTL DEF IInv
<1>2. UNCHANGED <<dstate, d_seq, d_rcv, d_app, d_ack, d_win, d_told>>
  BY DEF devVars
<1>3. Phases /\ Upstream
  BY DEF IInv
<1>4. dstate' # "LISTENING" => d_rcv' > 0
  BY <1>2, <1>3 DEF Phases
<1>4a. dstate' \in {"SYN_RCVD", "OPEN"} => d_seq' > 0
  BY <1>2, <1>3 DEF Phases
<1>5. CASE Takes0
  <2>1. ToHostAll'
    BY <1>1, <1>2, <1>3, <1>5, ToHostSame DEF Upstream, Takes0, Counters
  <2>2. /\ rx_ack' <= d_rcv' /\ rx_win' <= DevBuf /\ rx_ack' + rx_win' <= 1 + d_app' + DevBuf
        /\ rx_ack <= rx_ack'
    BY <1>1, <1>2, <1>3, <1>5 DEF Upstream, Takes0, Counters
  <2>3. ~ Takes
    BY <1>1, <1>5 DEF Takes, Takes0, Wires
  <2>4. /\ dstate' = "LISTENING" => d_rcv' = 0 /\ d_seq' = 0 /\ toHost' = <<>>
        /\ dstate' # "CLOSED" => NoRst(toHost')
    BY <1>2, <1>3, <1>5 DEF Phases, Takes0
  <2> QED BY <2>1, <2>2, <2>3, <2>4, <1>4, <1>4a
<1>6. CASE Takes
  <2>1. /\ ToHostAll' /\ 1 <= rx_ack' /\ rx_ack' <= d_rcv'
        /\ ToHostOK(Head(toHost), rx_ack, d_rcv, d_app)
        /\ Head(toHost) \in Segment
    BY <1>1, <1>2, <1>3, <1>6, ToHostTaken DEF Upstream, Takes
  <2>2. /\ rx_win' <= DevBuf /\ rx_ack' + rx_win' <= 1 + d_app' + DevBuf
        /\ rx_ack <= rx_ack' /\ rx_ack' > 0
    <3>1. /\ rx_ack' = Head(toHost).ack /\ rx_win' = Head(toHost).win * WinUnit
          /\ d_app' = d_app
      BY <1>2, <1>6 DEF Takes
    <3>2. /\ rx_ack <= rx_ack' /\ 1 <= rx_ack' /\ rx_win' <= DevBuf
          /\ rx_ack' + rx_win' <= 1 + d_app' + DevBuf
      BY <2>1, <3>1 DEF ToHostOK
    <3>3. rx_ack' > 0
      BY <1>1, <3>2 DEF Counters
    <3> QED BY <3>2, <3>3
  <2>3. dstate' # "LISTENING"
    BY <1>2, <1>3, <1>6 DEF Phases, Takes
  <2>4. NoRst(toHost) => NoRst(toHost')
    BY <1>1, <1>6 DEF NoRst, Takes, Wires
  <2> QED BY <1>2, <1>3, <1>4, <1>4a, <2>1, <2>2, <2>3, <2>4 DEF Phases
<1> QED BY <1>5, <1>6

\* What it may send: the RST of a teardown, an ACK with m bytes.
SendsRst == \/ toDev' = toDev
            \/ toDev' = Append(toDev, HostSegment("RST", tx_seq', tx_ack', 0))
SendsAck(m) == \/ toDev' = toDev /\ m = 0
               \/ toDev' = Append(toDev, HostSegment("ACK", HostNext, tx_ack', m))

\* A step of the host in which the connection is torn down.
LEMMA Torn ==
  ASSUME IInv, TypeOK', UNCHANGED <<devVars, got>>, Takes \/ Takes0,
         state' = "FREED",
         SendsRst, HostNext' = HostNext, tx_seq' <= 1 + d_app + DevBuf,
         tx_ack <= tx_ack', tx_ack' <= 1 + got + sock'
  PROVE  IInv'
<1> DEFINE rst == HostSegment("RST", tx_seq', tx_ack', 0)
<1>1. Counters /\ Wires /\ Counters' /\ Wires'
  BY TypeParts, PTL DEF IInv
<1>2. UNCHANGED <<dstate, d_seq, d_rcv, d_app, d_ack, d_win, d_told, got>>
  BY DEF devVars
<1>3. Phases /\ Downstream /\ Upstream
  BY DEF IInv
<1>4. /\ ToHostAll' /\ rx_ack' <= d_rcv' /\ rx_win' <= DevBuf
      /\ rx_ack' + rx_win' <= 1 + d_app' + DevBuf
      /\ dstate' = "LISTENING" => d_rcv' = 0 /\ d_seq' = 0 /\ toHost' = <<>>
      /\ dstate' # "LISTENING" => d_rcv' > 0
      /\ dstate' \in {"SYN_RCVD", "OPEN"} => d_seq' > 0
      /\ dstate' # "CLOSED" => NoRst(toHost')
  BY HostTakes
<1>5. rst \in Segment /\ rst.flags = "RST"
  <2>1. tx_seq' \in Nat /\ tx_ack' \in Nat /\ 0 \in Nat /\ "RST" \in Flags
    BY <1>1 DEF Counters, Flags
  <2> QED BY <2>1, HostSegmentType DEF HostSegment
<1>6. ToDevAll'
  <2>1. ToDevOK(rst, tx_ack')
    BY <1>5 DEF ToDevOK
  <2> HIDE DEF rst
  <2>2. ToDevAll
    BY <1>3 DEF Downstream
  <2> QED BY <1>1, <1>5, <2>1, <2>2, ToDevStep DEF rst, SendsRst
<1>7. dstate' # "CLOSED" => Chain(toDev', d_rcv', HostNext')
  <2>1. HostNext \in Nat /\ d_rcv \in Nat /\ toDev \in Seq(Segment)
    BY <1>1 DEF HostNext, Counters, Wires
  <2>2. dstate # "CLOSED" => Chain(toDev, d_rcv, HostNext)
    BY <1>3 DEF Upstream
  <2> HIDE DEF rst
  <2> QED BY <1>2, <1>5, <2>1, <2>2, ChainAppendRst DEF rst, SendsRst
<1>8. Phases'
  BY <1>4 DEF Phases
<1>9. Downstream'
  BY <1>1, <1>2, <1>3, <1>6, FlowAssumption DEF Downstream, Counters
<1>10. Upstream'
  <2>1. /\ d_rcv' <= HostNext' /\ d_app' <= d_rcv' /\ (d_rcv' > 0 => d_app' < d_rcv')
        /\ d_rcv' <= 1 + d_app' + DevBuf /\ tx_seq' <= 1 + d_app' + DevBuf
    BY <1>2, <1>3 DEF Upstream
  <2> QED BY <1>4, <1>7, <2>1 DEF Upstream
<1> QED BY <1>8, <1>9, <1>10 DEF IInv

\* A step of the host after which the connection goes on: an ACK of m bytes may
\* have been sent, and the counters agree with the wires again.
LEMMA Kept ==
  ASSUME IInv, TypeOK', UNCHANGED <<devVars, got>>, Takes \/ Takes0,
         state \notin {"FREED", "CRASHED"}, state' = "CONNECTED",
         cstate' \in {"CONNECTING2", "CONNECTED"},
         NEW m \in Nat, SendsAck(m), HostNext' = HostNext + m, tx_seq' > 0, rx_ack' > 0,
         tx_ack <= tx_ack', tx_ack' <= 1 + got + sock', tx_ack' > 0,
         tx_ack' + ib_size' = rx_recvd' + 1,
         Chain(toHost', HostExpects', d_seq),
         sendable' = Sendable(tx_seq', rx_ack', rx_win'),
         tx_seq' <= 1 + d_app + DevBuf, tx_seq' <= rx_ack' + DevBuf
  PROVE  IInv'
<1> DEFINE ack == HostSegment("ACK", HostNext, tx_ack', m)
<1>1. Counters /\ Wires /\ Counters' /\ Wires'
  BY TypeParts, PTL DEF IInv
<1>2. UNCHANGED <<dstate, d_seq, d_rcv, d_app, d_ack, d_win, d_told, got>>
  BY DEF devVars
<1>3. Phases /\ Downstream /\ Upstream
  BY DEF IInv
<1>4. /\ ToHostAll' /\ rx_ack' <= d_rcv' /\ rx_win' <= DevBuf
      /\ rx_ack' + rx_win' <= 1 + d_app' + DevBuf
      /\ dstate' = "LISTENING" => d_rcv' = 0 /\ d_seq' = 0 /\ toHost' = <<>>
      /\ dstate' # "LISTENING" => d_rcv' > 0
      /\ dstate' \in {"SYN_RCVD", "OPEN"} => d_seq' > 0
      /\ dstate' # "CLOSED" => NoRst(toHost')
  BY HostTakes
<1>5. HostNext \in Nat /\ d_rcv \in Nat /\ toDev \in Seq(Segment) /\ HostNext' \in Nat
  BY <1>1 DEF HostNext, Counters, Wires
<1>6. /\ ack \in Segment /\ ack.flags = "ACK" /\ ack.seq = HostNext /\ ack.ack = tx_ack'
      /\ Span(ack) = m /\ ack.win * WinUnit <= TxWin
  <2>1. tx_ack' \in Nat /\ "ACK" \in Flags
    BY <1>1 DEF Counters, Flags
  <2> QED BY <1>5, <2>1, HostSegmentType DEF HostSegment, Span
<1>7. NoRst(toDev) /\ NoRst(toDev')
  <2>1. NoRst(toDev)
    BY <1>3 DEF Phases
  <2>2. CASE toDev' = Append(toDev, ack)
    <3> HIDE DEF ack
    <3>1. /\ Len(toDev') = Len(toDev) + 1 /\ toDev'[Len(toDev) + 1] = ack
          /\ \A i \in 1..Len(toDev) : toDev'[i] = toDev[i]
      BY <1>5, <2>2
    <3> QED BY <1>5, <1>6, <2>1, <3>1 DEF NoRst
  <2> QED BY <2>1, <2>2 DEF SendsAck
<1>8. ToDevAll'
  <2> HIDE DEF ack
  <2>1. ToDevOK(ack, tx_ack')
    BY <1>1, <1>6 DEF ToDevOK, Counters
  <2>2. ToDevAll
    BY <1>3 DEF Downstream
  <2> QED BY <1>1, <1>6, <2>1, <2>2, ToDevStep DEF ack, SendsAck
<1>9. dstate' # "CLOSED" => Chain(toDev', d_rcv', HostNext')
  <2>1. dstate # "CLOSED" => Chain(toDev, d_rcv, HostNext)
    BY <1>3 DEF Upstream
  <2> HIDE DEF ack
  <2>2. CASE toDev' = Append(toDev, ack)
    BY <1>2, <1>5, <1>6, <1>7, <2>1, <2>2, ChainAppend
  <2> QED BY <1>2, <1>5, <2>1, <2>2 DEF ack, SendsAck
<1>10. Phases'
  BY <1>4, <1>7 DEF Phases
<1>11. Downstream'
  BY <1>1, <1>2, <1>3, <1>8, FlowAssumption DEF Downstream, Counters
<1>12. Upstream'
  <2>1. /\ d_rcv' <= HostNext' /\ d_app' <= d_rcv' /\ (d_rcv' > 0 => d_app' < d_rcv')
        /\ d_rcv' <= 1 + d_app' + DevBuf /\ tx_seq' <= 1 + d_app' + DevBuf
    BY <1>1, <1>2, <1>3, <1>5 DEF Upstream, Counters
  <2>2. HostNext' = tx_seq'
    BY <1>1 DEF HostNext, Counters
  <2>3. rx_ack' <= tx_seq' /\ tx_seq' <= rx_ack' + DevBuf + 1
    <3>1. /\ {tx_seq', rx_ack', d_rcv'} \subseteq Nat /\ DevBuf \in Nat
          /\ rx_ack' <= d_rcv' /\ d_rcv' <= tx_seq' /\ tx_seq' <= rx_ack' + DevBuf
      BY <1>1, <1>4, <2>1, <2>2, FlowAssumption DEF Counters
    <3> QED BY <3>1
  <2>4. /\ sendable' \in Nat
        /\ sendable' > 0 => tx_seq' + sendable' <= rx_ack' + rx_win'
    BY <1>1, <2>3, SendableBound DEF Counters
  <2>5. /\ tx_seq' + sendable' <= rx_ack' + DevBuf
        /\ tx_seq' + sendable' <= 1 + d_app' + DevBuf
    <3>1. /\ {tx_seq', rx_ack', rx_win', d_app'} \subseteq Nat /\ DevBuf \in Nat
          /\ rx_win' <= DevBuf /\ rx_ack' + rx_win' <= 1 + d_app' + DevBuf
          /\ tx_seq' <= rx_ack' + DevBuf /\ tx_seq' <= 1 + d_app' + DevBuf
      BY <1>1, <1>4, <2>1, FlowAssumption DEF Counters
    <3> QED BY <2>4, <3>1
  <2> QED BY <1>4, <1>9, <2>1, <2>5 DEF Upstream
<1> QED BY <1>10, <1>11, <1>12 DEF IInv

\* The segment the host takes starts where the host expects it to.
LEMMA TakesNext ==
  ASSUME IInv, state \notin {"FREED", "CRASHED"}, Takes, Head(toHost).flags # "RST"
  PROVE  /\ Head(toHost) \in Segment /\ Head(toHost).seq = HostExpects
         /\ Head(toHost).flags = "SYNACK" => Span(Head(toHost)) = 1
         /\ Head(toHost).flags = "ACK" => Span(Head(toHost)) = Head(toHost).len
         /\ Chain(toHost', HostExpects + Span(Head(toHost)), d_seq)
<1>1. Counters /\ Wires
  BY TypeParts DEF IInv
<1>2. /\ toHost \in Seq(Segment) /\ toHost # <<>> /\ toHost' = Tail(toHost)
      /\ Head(toHost) \in Segment /\ Head(toHost) = toHost[1] /\ 1 \in 1..Len(toHost)
  BY <1>1 DEF Takes, Wires
<1>3. HostExpects \in Nat /\ d_seq \in Nat
  BY <1>1 DEF HostExpects, Counters
<1>4. Chain(toHost, HostExpects, d_seq)
  BY DEF IInv, Downstream
<1>5. /\ Head(toHost).seq = HostExpects
      /\ Chain(toHost', HostExpects + Span(Head(toHost)), d_seq)
  BY <1>2, <1>3, <1>4, ChainTail
<1>6. Head(toHost).flags = "SYNACK" => Head(toHost).len = 0
  BY <1>2 DEF IInv, Upstream, ToHostAll, ToHostOK
<1> QED BY <1>2, <1>5, <1>6, SegmentType

LEMMA InvRecvSynAck == IInv /\ RecvSynAck => IInv'
<1> SUFFICES ASSUME IInv, RecvSynAck PROVE IInv'
  OBVIOUS
<1>1. TypeOK /\ Phases /\ Downstream /\ Upstream
  BY DEF IInv
<1>2. TypeOK'
  BY <1>1, TypeRecvSynAck
<1>3. Counters /\ Wires /\ Counters' /\ Wires'
  BY <1>1, <1>2, TypeParts, PTL
<1>4. /\ state = "CONNECTING" /\ Takes /\ UNCHANGED <<devVars, got>>
      /\ Head(toHost).flags = "SYNACK"
      /\ tx_seq' = tx_seq + 1 /\ tx_ack' = tx_ack + 1 /\ rx_recvd' = Head(toHost).seq
  BY DEF RecvSynAck, TakeHeader, Takes, Arrives
<1>5. /\ tx_seq = 0 /\ tx_ack = 0 /\ ib_size = 0 /\ HostNext = 1 /\ HostExpects = 0
  BY <1>1, <1>4 DEF Phases, HostNext, HostExpects
<1>6. tx_seq' = 1 /\ tx_ack' = 1 /\ HostNext' = 1 /\ HostNext' = HostNext + 0
  BY <1>4, <1>5 DEF HostNext
<1>7. rx_recvd' = 0 /\ Chain(toHost', 1, d_seq)
  BY <1>4, <1>5, TakesNext
<1>8. rx_ack' > 0
  BY <1>2, <1>4, HostTakes
<1>9. d_rcv' = d_rcv /\ rx_ack \in Nat /\ got' = got
  BY <1>3, <1>4 DEF devVars, Counters
<1>10. tx_seq' <= 1 + d_app + DevBuf /\ tx_seq' <= rx_ack' + DevBuf
  BY <1>3, <1>6, <1>8, FlowAssumption DEF Counters
<1>11. CASE /\ toDev' = Append(toDev, HostSegment("ACK", tx_seq', tx_ack', 0))
            /\ state' = "CONNECTED" /\ cstate' = "CONNECTING2"
            /\ UNCHANGED <<ib_size, sock>>
            /\ UpdateConnection({"OUT"})
  <2>1. SendsAck(0)
    BY <1>5, <1>6, <1>11 DEF SendsAck
  <2>2. tx_ack' <= 1 + got + sock' /\ tx_ack <= tx_ack' /\ tx_ack' > 0
    BY <1>3, <1>5, <1>6 DEF Counters
  <2>3. tx_ack' + ib_size' = rx_recvd' + 1
    BY <1>5, <1>6, <1>7, <1>11
  <2>4. HostExpects' = 1
    BY <1>7, <1>11 DEF HostExpects
  <2>5. sendable' = Sendable(tx_seq', rx_ack', rx_win')
    BY <1>11 DEF UpdateConnection
  <2> QED BY <1>2, <1>4, <1>6, <1>7, <1>8, <1>10, <1>11, <2>1, <2>2, <2>3, <2>4, <2>5, Kept
<1>12. CASE Teardown("CONNECTING", ib_size, sock, toDev)
  <2>1. state' = "FREED" /\ SendsRst
    BY <1>12 DEF Teardown, SendsRst
  <2>2. tx_ack' <= 1 + got + sock' /\ tx_ack <= tx_ack'
    BY <1>3, <1>5, <1>6 DEF Counters
  <2> QED BY <1>2, <1>4, <1>5, <1>6, <1>10, <2>1, <2>2, Torn
<1> QED BY <1>11, <1>12 DEF RecvSynAck

\* A teardown that leaves the counters alone.
LEMMA TornNow ==
  ASSUME IInv, TypeOK', state \notin {"FREED", "CRASHED"}, UNCHANGED <<devVars, got, tx_seq, tx_ack>>,
         Takes \/ Takes0, NEW st, NEW ib \in Nat, Teardown(st, ib, sock, toDev)
  PROVE  IInv'
<1>1. TypeOK /\ Phases /\ Downstream /\ Upstream
  BY DEF IInv
<1>2. Counters /\ Wires /\ Counters' /\ Wires'
  BY <1>1, TypeParts, PTL
<1>3. state' = "FREED" /\ SendsRst
  BY DEF Teardown, SendsRst
<1>4. HostNext' = HostNext
  BY DEF HostNext
<1>5. sock <= sock'
  <2>1. /\ sock \in 0..SockCap /\ toDev \in Seq(Segment)
        /\ tx_seq' \in Nat /\ tx_ack' \in Nat
    BY <1>1, <1>2 DEF TypeOK, Counters
  <2> QED BY <1>1, <2>1, TeardownType
<1>6. tx_seq' <= 1 + d_app + DevBuf
  BY <1>1 DEF Upstream
<1>7. tx_ack <= tx_ack' /\ tx_ack' <= 1 + got + sock'
  BY <1>1, <1>2, <1>5 DEF Downstream, Counters
<1> QED BY <1>3, <1>4, <1>6, <1>7, Torn

LEMMA InvRecvRefusal == IInv /\ RecvRefusal => IInv'
<1> SUFFICES ASSUME IInv, RecvRefusal PROVE IInv'
  OBVIOUS
<1>1. TypeOK' /\ ib_size \in Nat
  BY TypeRecvRefusal DEF IInv, TypeOK
<1>2. Takes /\ UNCHANGED <<devVars, got, tx_seq, tx_ack>> /\ state \notin {"FREED", "CRASHED"}
  BY DEF RecvRefusal, TakeHeader, Takes, Arrives
<1> QED BY <1>1, <1>2, TornNow DEF RecvRefusal

LEMMA InvRecvReset == IInv /\ RecvReset => IInv'
<1> SUFFICES ASSUME IInv, RecvReset PROVE IInv'
  OBVIOUS
<1>1. TypeOK' /\ ib_size \in Nat
  BY TypeRecvReset DEF IInv, TypeOK
<1>2. Takes /\ UNCHANGED <<devVars, got, tx_seq, tx_ack>> /\ state \notin {"FREED", "CRASHED"}
  BY DEF RecvReset, TakeHeader, Takes, Arrives
<1> QED BY <1>1, <1>2, TornNow DEF RecvReset

\* A connection that is up may send as much as update_connection allowed.
LEMMA Room ==
  ASSUME IInv, TypeOK', state = "CONNECTED", UNCHANGED devVars, Takes \/ Takes0,
         NEW m \in Nat, m <= sendable
  PROVE  /\ rx_ack' > 0 /\ HostNext = tx_seq /\ tx_seq > 0 /\ tx_ack > 0
         /\ tx_seq + m <= rx_ack' + DevBuf /\ tx_seq + m <= 1 + d_app + DevBuf
<1>1. TypeOK /\ Phases /\ Downstream /\ Upstream
  BY DEF IInv
<1>2. Counters /\ Wires /\ Counters' /\ Wires'
  BY <1>1, TypeParts, PTL
<1>3. tx_seq > 0 /\ tx_ack > 0 /\ HostNext = tx_seq
  BY <1>1, <1>2 DEF Phases, HostNext, Counters
<1>4. rx_ack <= rx_ack'
  BY HostTakes
<1>5. /\ rx_ack > 0 /\ tx_seq + sendable <= rx_ack + DevBuf
      /\ tx_seq + sendable <= 1 + d_app + DevBuf
  BY <1>1 DEF Upstream
<1>6. {tx_seq, sendable, rx_ack, rx_ack', d_app} \subseteq Nat /\ DevBuf \in Nat
  BY <1>2, FlowAssumption DEF Counters
<1> QED BY <1>3, <1>4, <1>5, <1>6

LEMMA InvRecvData == IInv /\ RecvData => IInv'
<1> SUFFICES ASSUME IInv, RecvData PROVE IInv'
  OBVIOUS
<1>1. TypeOK /\ Phases /\ Downstream /\ Upstream /\ TypeOK'
  BY TypeRecvData DEF IInv
<1>2. Counters /\ Wires /\ Counters' /\ Wires'
  BY <1>1, TypeParts, PTL
<1>3. /\ Takes /\ UNCHANGED <<devVars, got, tx_seq, tx_ack>> /\ state = "CONNECTED"
      /\ Head(toHost).flags = "ACK"
  BY DEF RecvData, TakeHeader, Takes, Arrives
<1>4. /\ Head(toHost).len \in Nat
      /\ Chain(toHost', rx_recvd + 1 + Head(toHost).len, d_seq)
  BY <1>3, TakesNext, SegmentType DEF HostExpects
<1>5. CASE Teardown("CONNECTED", ib_size, sock, toDev)
  BY <1>1, <1>2, <1>3, <1>5, TornNow DEF Counters
<1>6. CASE Teardown("CONNECTED", ib_size + Arrives.len, sock, toDev)
  <2>1. ib_size + Arrives.len \in Nat
    BY <1>2, <1>4 DEF Counters, Arrives
  <2> QED BY <1>1, <1>3, <1>6, <2>1, TornNow
<1>7. CASE /\ rx_recvd' = rx_recvd + Arrives.len
           /\ ib_size' = ib_size + Arrives.len
           /\ toDev' = Append(toDev, HostSegment("ACK", tx_seq, tx_ack, 0))
           /\ UNCHANGED <<state, cstate, sock>>
           /\ UpdateConnection(events)
  <2>0. 0 \in Nat /\ 0 <= sendable
    BY <1>2 DEF Counters
  <2>1. /\ rx_ack' > 0 /\ HostNext = tx_seq /\ tx_seq > 0 /\ tx_ack > 0
        /\ tx_seq + 0 <= rx_ack' + DevBuf /\ tx_seq + 0 <= 1 + d_app + DevBuf
    BY <1>1, <1>3, <2>0, Room DEF IInv
  <2>2. tx_seq' = tx_seq /\ tx_ack' = tx_ack /\ tx_seq \in Nat /\ tx_seq + 0 = tx_seq
    BY <1>2, <1>3 DEF Counters
  <2>3. SendsAck(0) /\ HostNext' = HostNext + 0
    BY <1>7, <2>1, <2>2 DEF SendsAck, HostNext
  <2>4. tx_ack + ib_size = rx_recvd + 1 /\ tx_ack <= 1 + got + sock
    BY <1>1, <1>3 DEF Downstream
  <2>5. {tx_ack, ib_size, rx_recvd, sock, got} \subseteq Nat
    BY <1>2 DEF Counters
  <2>6. tx_ack' + ib_size' = rx_recvd' + 1
    <3>1. PICK n \in Nat : n = Head(toHost).len
      BY <1>4
    <3>2. /\ ib_size' = ib_size + n /\ rx_recvd' = rx_recvd + n /\ tx_ack' = tx_ack
      BY <1>7, <2>2, <3>1 DEF Arrives
    <3> QED BY <2>4, <2>5, <3>2
  <2>7. tx_ack <= tx_ack' /\ tx_ack' <= 1 + got + sock' /\ tx_ack' > 0
    BY <1>7, <2>1, <2>2, <2>4, <2>5
  <2>8. Chain(toHost', HostExpects', d_seq)
    <3>1. HostExpects' = rx_recvd + 1 + Head(toHost).len
      BY <1>3, <1>4, <1>7, <2>5 DEF HostExpects, Arrives
    <3> QED BY <1>4, <3>1
  <2>9. sendable' = Sendable(tx_seq', rx_ack', rx_win')
    BY <1>7 DEF UpdateConnection
  <2>10. state \notin {"FREED", "CRASHED"} /\ state' = "CONNECTED" /\ cstate' \in {"CONNECTING2", "CONNECTED"}
    BY <1>1, <1>3, <1>7 DEF Phases
  <2> HIDE DEF SendsAck, HostNext
  <2>11. tx_seq' <= rx_ack' + DevBuf /\ tx_seq' <= 1 + d_app + DevBuf /\ tx_seq' > 0
    BY <2>1, <2>2
  <2> QED BY <1>1, <1>3, <2>1, <2>3, <2>6, <2>7, <2>8, <2>9, <2>10, <2>11, Kept
<1> QED BY <1>5, <1>6, <1>7 DEF RecvData

LEMMA InvCheckTimeouts == IInv /\ CheckTimeouts => IInv'
<1> SUFFICES ASSUME IInv, CheckTimeouts PROVE IInv'
  OBVIOUS
<1>1. TypeOK /\ Phases /\ Downstream /\ Upstream /\ TypeOK'
  BY TypeCheckTimeouts DEF IInv
<1>2. Counters /\ Wires /\ Counters' /\ Wires'
  BY <1>1, TypeParts, PTL
<1>3. /\ Takes0 /\ UNCHANGED <<devVars, got, tx_seq, tx_ack, rx_recvd>>
      /\ state = "CONNECTED"
  BY DEF CheckTimeouts, Takes0
<1>4. CASE Teardown("CONNECTED", ib_size, sock, toDev)
  BY <1>1, <1>2, <1>3, <1>4, TornNow DEF Counters
<1>5. CASE /\ toDev' = Append(toDev, HostSegment("ACK", tx_seq, tx_ack, 0))
           /\ UNCHANGED <<state, cstate, ib_size, sock>>
           /\ UpdateConnection(events)
  <2>0. 0 \in Nat /\ 0 <= sendable
    BY <1>2 DEF Counters
  <2>1. /\ rx_ack' > 0 /\ HostNext = tx_seq /\ tx_seq > 0 /\ tx_ack > 0
        /\ tx_seq + 0 <= rx_ack' + DevBuf /\ tx_seq + 0 <= 1 + d_app + DevBuf
    BY <1>1, <1>3, <2>0, Room DEF IInv
  <2>2. tx_seq' = tx_seq /\ tx_ack' = tx_ack /\ tx_seq \in Nat /\ tx_seq + 0 = tx_seq
    BY <1>2, <1>3 DEF Counters
  <2>3. SendsAck(0) /\ HostNext' = HostNext + 0
    BY <1>5, <2>1, <2>2 DEF SendsAck, HostNext
  <2>4. /\ tx_ack + ib_size = rx_recvd + 1 /\ tx_ack <= 1 + got + sock
        /\ Chain(toHost, HostExpects, d_seq)
    BY <1>1, <1>3 DEF Downstream
  <2>5. tx_ack \in Nat /\ tx_ack <= tx_ack
    BY <1>2 DEF Counters
  <2>6. /\ tx_ack' + ib_size' = rx_recvd' + 1 /\ tx_ack <= tx_ack'
        /\ tx_ack' <= 1 + got + sock' /\ tx_ack' > 0
        /\ Chain(toHost', HostExpects', d_seq)
    BY <1>3, <1>5, <2>1, <2>2, <2>4, <2>5 DEF HostExpects, Takes0
  <2>7. sendable' = Sendable(tx_seq', rx_ack', rx_win')
    BY <1>5 DEF UpdateConnection
  <2>8. state \notin {"FREED", "CRASHED"} /\ state' = "CONNECTED" /\ cstate' \in {"CONNECTING2", "CONNECTED"}
    BY <1>1, <1>3, <1>5 DEF Phases
  <2>9. tx_seq' <= rx_ack' + DevBuf /\ tx_seq' <= 1 + d_app + DevBuf /\ tx_seq' > 0
    BY <2>1, <2>2
  <2> QED BY <1>1, <1>3, <2>1, <2>3, <2>6, <2>7, <2>8, <2>9, Kept
<1> QED BY <1>4, <1>5 DEF CheckTimeouts

\* The anonymous RST for a segment of a connection that is gone.
LEMMA InvRecvNoConnection == IInv /\ RecvNoConnection => IInv'
<1> SUFFICES ASSUME IInv, RecvNoConnection PROVE IInv'
  OBVIOUS
<1> DEFINE rst == [flags |-> "RST", seq |-> 0, ack |-> Arrives.seq, win |-> 0, len |-> 0]
<1>1. TypeOK /\ Phases /\ Downstream /\ Upstream /\ TypeOK'
  BY TypeRecvNoConnection DEF IInv
<1>2. Counters /\ Wires /\ Counters' /\ Wires'
  BY <1>1, TypeParts, PTL
<1>3. /\ state = "FREED" /\ toHost # <<>> /\ toHost' = Tail(toHost)
      /\ toDev' = toDev \/ toDev' = Append(toDev, rst)
      /\ UNCHANGED <<connVars, clientVars, appVars, devVars>>
  BY DEF RecvNoConnection
<1>4. UNCHANGED <<state, tx_seq, tx_ack, rx_recvd, rx_ack, rx_win, sendable, ib_size,
                  cstate, sock, got, dstate, d_seq, d_rcv, d_app, d_ack, d_win>>
  BY <1>3 DEF connVars, seqVars, clientVars, appVars, devVars
<1>5. Head(toHost) \in Segment
  BY <1>2, <1>3 DEF Wires
<1>6. rst \in Segment /\ rst.flags = "RST"
  BY <1>5, SegmentType DEF Segment, Flags, Arrives
<1> HIDE DEF rst
<1>7. /\ Len(toHost) \in Nat \ {0} /\ Len(toHost') = Len(toHost) - 1
      /\ \A i \in 1..Len(toHost') : toHost'[i] = toHost[i + 1]
  BY <1>2, <1>3 DEF Wires
<1>8. ToHostAll'
  <2>1. /\ \A i \in 1..Len(toHost) : ToHostOK(toHost[i], rx_ack, d_rcv, d_app)
        /\ \A i, j \in 1..Len(toHost) : i <= j => toHost[i].ack <= toHost[j].ack
    BY <1>1 DEF Upstream, ToHostAll
  <2>2. \A i \in 1..Len(toHost') : ToHostOK(toHost'[i], rx_ack, d_rcv, d_app)
    BY <1>7, <2>1
  <2>3. ASSUME NEW i \in 1..Len(toHost'), NEW j \in 1..Len(toHost'), i <= j
        PROVE  toHost'[i].ack <= toHost'[j].ack
    BY <1>7, <2>1, <2>3
  <2> QED BY <1>4, <2>2, <2>3 DEF ToHostAll
<1>9. ToDevAll'
  <2>1. ToDevOK(rst, tx_ack')
    BY <1>6 DEF ToDevOK
  <2>2. tx_ack <= tx_ack' /\ ToDevAll
    BY <1>1, <1>2, <1>4 DEF Downstream, Counters
  <2> QED BY <1>2, <1>3, <1>6, <2>1, <2>2, ToDevStep
<1>10. dstate' # "CLOSED" => Chain(toDev', d_rcv', HostNext')
  <2>1. HostNext' = HostNext /\ HostNext \in Nat /\ d_rcv \in Nat /\ toDev \in Seq(Segment)
    BY <1>2, <1>4 DEF HostNext, Counters, Wires
  <2>2. dstate # "CLOSED" => Chain(toDev, d_rcv, HostNext)
    BY <1>1 DEF Upstream
  <2> QED BY <1>3, <1>4, <1>6, <2>1, <2>2, ChainAppendRst
<1>11. Phases'
  <2>1. NoRst(toHost) => NoRst(toHost')
    BY <1>7 DEF NoRst
  <2> QED BY <1>1, <1>3, <1>4, <2>1 DEF Phases
<1>12. Downstream'
  BY <1>1, <1>3, <1>4, <1>9 DEF Downstream
<1>13. Upstream'
  <2>1. HostNext' = HostNext
    BY <1>4 DEF HostNext
  <2> QED BY <1>1, <1>3, <1>4, <1>8, <1>10, <2>1 DEF Upstream
<1> QED BY <1>1, <1>11, <1>12, <1>13 DEF IInv

LEMMA InvAnonRstFails == IInv /\ AnonRstFails => IInv'
<1> SUFFICES ASSUME IInv, AnonRstFails PROVE IInv'
  OBVIOUS
<1>1. TypeOK /\ Phases /\ Downstream /\ Upstream /\ TypeOK'
  BY TypeAnonRstFails DEF IInv
<1>2. /\ state = "FREED" /\ state' = "CRASHED"
      /\ UNCHANGED <<tx_seq, tx_ack, rx_recvd, rx_ack, rx_win, sendable, ib_size, cstate, sock,
                     got, toDev, toHost, dstate, d_seq, d_rcv, d_app, d_ack, d_win>>
  BY DEF AnonRstFails, seqVars, clientVars, appVars, devVars
<1>3. HostNext' = HostNext
  BY <1>2 DEF HostNext
<1>4. Phases'
  BY <1>1, <1>2 DEF Phases, NoRst
<1>5. Downstream'
  BY <1>1, <1>2 DEF Downstream, ToDevAll
<1>6. Upstream'
  BY <1>1, <1>2, <1>3 DEF Upstream, ToHostAll
<1> QED BY <1>1, <1>4, <1>5, <1>6 DEF IInv

\* device_client_process after n bytes have been written to the client.
LEMMA InvAfterWrite ==
  ASSUME IInv, state = "CONNECTED", cstate = "CONNECTED", NEW n \in Nat, n <= ib_size,
         sock + n <= SockCap, AfterWrite(n)
  PROVE  IInv'
<1>1. TypeOK /\ Phases /\ Downstream /\ Upstream /\ TypeOK'
  BY TypeAfterWrite DEF IInv
<1>2. Counters /\ Wires /\ Counters' /\ Wires'
  BY <1>1, TypeParts, PTL
<1>3. /\ Takes0 /\ UNCHANGED <<devVars, got, rx_recvd>> /\ tx_ack' = tx_ack + n
  BY DEF AfterWrite, Takes0
<1>4. /\ tx_ack + ib_size = rx_recvd + 1 /\ tx_ack <= 1 + got + sock
      /\ Chain(toHost, HostExpects, d_seq)
  BY <1>1 DEF Downstream
<1>5. {tx_seq, tx_ack, ib_size, rx_recvd, sock, got, sendable} \subseteq Nat
  BY <1>2 DEF Counters
<1>6. /\ tx_ack <= tx_ack' /\ tx_ack' <= 1 + got + (sock + n)
      /\ ib_size - n \in Nat /\ sock + n \in Nat
      /\ tx_ack' + (ib_size - n) = rx_recvd + 1
  BY <1>3, <1>4, <1>5
<1>7. ASSUME NEW m \in Nat, m <= sendable, tx_seq' = tx_seq + m, SendsAck(m),
             ib_size' = ib_size - n, sock' = sock + n,
             state' = state, cstate' = cstate, UpdateConnection(events)
      PROVE  IInv'
  <2>1. /\ rx_ack' > 0 /\ HostNext = tx_seq /\ tx_seq > 0 /\ tx_ack > 0
        /\ tx_seq + m <= rx_ack' + DevBuf /\ tx_seq + m <= 1 + d_app + DevBuf
    BY <1>1, <1>3, <1>7, Room DEF IInv
  <2>2. tx_seq' > 0 /\ tx_ack' > 0
    BY <1>3, <1>5, <1>7, <2>1
  <2>3. HostNext' = HostNext + m
    BY <1>2, <1>7, <2>1, <2>2 DEF HostNext, Counters
  <2>4. Chain(toHost', HostExpects', d_seq)
    BY <1>3, <1>4, <1>7 DEF HostExpects, Takes0
  <2>5. tx_ack' + ib_size' = rx_recvd' + 1 /\ tx_ack' <= 1 + got + sock'
    BY <1>3, <1>6, <1>7
  <2>6. sendable' = Sendable(tx_seq', rx_ack', rx_win')
    BY <1>7 DEF UpdateConnection
  <2>7. tx_seq' <= rx_ack' + DevBuf /\ tx_seq' <= 1 + d_app + DevBuf
    BY <1>7, <2>1
  <2> QED BY <1>1, <1>3, <1>6, <1>7, <2>1, <2>2, <2>3, <2>4, <2>5, <2>6, <2>7, Kept
<1>8. ASSUME tx_seq' = tx_seq, Teardown("CONNECTED", ib_size - n, sock + n, toDev)
      PROVE  IInv'
  <2>1. state' = "FREED" /\ SendsRst
    BY <1>8 DEF Teardown, SendsRst
  <2>2. sock + n <= sock'
    <3>1. /\ sock + n \in 0..SockCap /\ toDev \in Seq(Segment)
          /\ tx_seq' \in Nat /\ tx_ack' \in Nat
      BY <1>1, <1>2, <1>6, FlowAssumption DEF TypeOK, Counters
    <3> QED BY <1>1, <1>6, <1>8, <3>1, TeardownType
  <2>3. tx_ack' <= 1 + got + sock'
    <3>1. {tx_ack', sock'} \subseteq Nat
      BY <1>2 DEF Counters
    <3> QED BY <1>5, <1>6, <2>2, <3>1
  <2>4. HostNext' = HostNext /\ tx_seq' <= 1 + d_app + DevBuf
    BY <1>1, <1>8 DEF HostNext, Upstream
  <2> QED BY <1>1, <1>3, <1>6, <2>1, <2>3, <2>4, Torn
<1>9. ASSUME NEW m \in 1..Least(out, sendable),
             \/ /\ toDev' = Append(toDev, HostSegment("ACK", tx_seq, tx_ack', m))
                /\ tx_seq' = tx_seq + m
                /\ ib_size' = ib_size - n /\ sock' = sock + n
                /\ UNCHANGED <<state, cstate>>
                /\ UpdateConnection(events)
             \/ /\ UNCHANGED tx_seq
                /\ Teardown("CONNECTED", ib_size - n, sock + n, toDev)
      PROVE  IInv'
  <2>1. m \in Nat /\ m <= sendable
    <3>1. out \in Nat /\ sendable \in Nat
      BY <1>1, <1>5, FlowAssumption DEF TypeOK
    <3> QED BY <3>1 DEF Least
  <2>2. HostNext = tx_seq
    BY <1>1, <1>5 DEF Phases, HostNext
  <2>3. SendsAck(m) \/ toDev' # Append(toDev, HostSegment("ACK", tx_seq, tx_ack', m))
    BY <2>2 DEF SendsAck
  <2> QED BY <1>7, <1>8, <1>9, <2>1, <2>3
<1>10. CASE /\ UNCHANGED tx_seq
            /\ Teardown("CONNECTED", ib_size - n, sock + n, toDev)
  BY <1>8, <1>10
<1>11. CASE /\ ib_size' = ib_size - n /\ sock' = sock + n
            /\ UNCHANGED <<state, cstate, tx_seq, toDev>>
            /\ UpdateConnection(events)
  <2>1. 0 \in Nat /\ 0 <= sendable /\ tx_seq' = tx_seq + 0
    BY <1>5, <1>11
  <2>2. SendsAck(0)
    BY <1>11 DEF SendsAck
  <2> QED BY <1>7, <1>11, <2>1, <2>2
<1> QED BY <1>9, <1>10, <1>11 DEF AfterWrite

LEMMA InvDeviceClientProcess == IInv /\ DeviceClientProcess => IInv'
<1> SUFFICES ASSUME IInv, DeviceClientProcess PROVE IInv'
  OBVIOUS
<1>1. TypeOK /\ TypeOK'
  BY TypeDeviceClientProcess DEF IInv
<1>2. ib_size \in Nat /\ sock \in 0..SockCap
  BY <1>1 DEF TypeOK
<1>3. state = "CONNECTED" /\ cstate = "CONNECTED"
  BY DEF DeviceClientProcess
<1>4. CASE ClientWriteFails
  <2>1. Takes0 /\ UNCHANGED <<devVars, got, tx_seq, tx_ack>>
    BY <1>4 DEF ClientWriteFails, Takes0, seqVars
  <2> QED BY <1>1, <1>2, <1>3, <1>4, <2>1, TornNow DEF ClientWriteFails
<1>5. ASSUME NEW n \in 1..Least(ib_size, SockCap - sock), AfterWrite(n)
      PROVE  IInv'
  <2>1. n \in Nat /\ n <= ib_size /\ sock + n <= SockCap
    BY <1>2, FlowAssumption DEF Least
  <2> QED BY <1>3, <1>5, <2>1, InvAfterWrite
<1>6. CASE AfterWrite(0)
  <2>1. 0 \in Nat /\ 0 <= ib_size /\ sock + 0 <= SockCap
    BY <1>2, FlowAssumption
  <2> QED BY <1>3, <1>6, <2>1, InvAfterWrite
<1> QED BY <1>4, <1>5, <1>6 DEF DeviceClientProcess

\* process_send and the client program touch no sequence number.
LEMMA InvClient == IInv /\ (ProcessSend \/ ClientStep) => IInv'
<1> SUFFICES ASSUME IInv, ProcessSend \/ ClientStep PROVE IInv'
  OBVIOUS
<1>1. TypeOK /\ Phases /\ Downstream /\ Upstream /\ TypeOK'
  BY TypeClient DEF IInv
<1>2. /\ UNCHANGED <<connVars, toDev, toHost, devVars>>
      /\ \/ cstate' = cstate
         \/ cstate = "CONNECTING2" /\ cstate' = "CONNECTED"
      /\ \/ UNCHANGED <<sock, got>>
         \/ sock' = sock - 1 /\ got' = got + 1
  BY DEF ClientStep, ProcessSend, ClientWrites, ClientReads, ClientCloses,
         appVars, clientVars
<1>3. UNCHANGED <<state, tx_seq, tx_ack, rx_recvd, rx_ack, rx_win, sendable, ib_size,
                  dstate, d_seq, d_rcv, d_app, d_ack, d_win, toDev, toHost>>
  BY <1>2 DEF connVars, seqVars, devVars
<1>4. tx_ack' <= 1 + got' + sock'
  <2>1. tx_ack <= 1 + got + sock /\ {tx_ack, got, sock} \subseteq Nat
    BY <1>1, TypeParts DEF Downstream, Counters
  <2> QED BY <1>2, <1>3, <2>1
<1>5. /\ HostNext' = HostNext /\ HostExpects' = HostExpects
      /\ (NoRst(toDev) => NoRst(toDev')) /\ (NoRst(toHost) => NoRst(toHost'))
      /\ ToDevAll' = ToDevAll /\ ToHostAll' = ToHostAll
  BY <1>3 DEF HostNext, HostExpects, ToDevAll, ToHostAll
<1>6. Phases'
  BY <1>1, <1>2, <1>3, <1>5 DEF Phases
<1>7. Downstream'
  BY <1>1, <1>3, <1>4, <1>5 DEF Downstream
<1>8. Upstream'
  BY <1>1, <1>3, <1>5 DEF Upstream
<1> QED BY <1>1, <1>6, <1>7, <1>8 DEF IInv

-----------------------------------------------------------------------------
(* Steps of the device. *)

\* The device emits a segment where its stream stands.
LEMMA Emitted ==
  ASSUME IInv, dstate # "CLOSED", NEW s \in Segment, toHost' = Append(toHost, s),
         s.seq = d_seq,
         d_seq' = IF s.flags = "RST" THEN d_seq ELSE d_seq + Span(s)
  PROVE  /\ state \notin {"FREED", "CRASHED"} => Chain(toHost', HostExpects, d_seq')
         /\ s.flags # "RST" => NoRst(toHost')
<1>1. Counters /\ Wires /\ Phases /\ Downstream
  BY TypeParts DEF IInv
<1>2. toHost \in Seq(Segment) /\ d_seq \in Nat /\ HostExpects \in Nat
  BY <1>1, SMTT(30) DEF Counters, Wires, HostExpects
<1>3. NoRst(toHost) /\ (state \notin {"FREED", "CRASHED"} => Chain(toHost, HostExpects, d_seq))
  BY <1>1 DEF Phases, Downstream
<1>4. s.flags # "RST" => NoRst(toHost')
  <2>1. /\ Len(toHost') = Len(toHost) + 1 /\ toHost'[Len(toHost) + 1] = s
        /\ \A i \in 1..Len(toHost) : toHost'[i] = toHost[i]
    BY <1>2
  <2> QED BY <1>2, <1>3, <2>1 DEF NoRst
<1>5. CASE s.flags = "RST"
  BY <1>2, <1>3, <1>4, <1>5, ChainAppendRst
<1>6. CASE s.flags # "RST"
  BY <1>2, <1>3, <1>4, <1>6, ChainAppend
<1> QED BY <1>5, <1>6

\* Taking the first segment away leaves the others what they were.
LEMMA TailKeeps ==
  ASSUME NEW q \in Seq(Segment), q # <<>>
  PROVE  /\ NoRst(q) => NoRst(Tail(q))
         /\ (\A i \in 1..Len(q) : q[i].flags = "SYN")
              => \A i \in 1..Len(Tail(q)) : Tail(q)[i].flags = "SYN"
<1>1. \A i \in 1..Len(Tail(q)) : i + 1 \in 1..Len(q) /\ Tail(q)[i] = q[i + 1]
  OBVIOUS
<1> QED BY <1>1 DEF NoRst

\* The device's side of a step.
LEMMA DevType ==
  ASSUME TypeOK, UNCHANGED <<connVars, clientVars, appVars>>,
         toDev' \in Seq(Segment), toHost' \in Seq(Segment), dstate' \in DevStates,
         d_seq' \in Nat, d_rcv' \in Nat, d_app' \in Nat, d_ack' \in Nat, d_win' \in Nat,
         d_told' \in Nat \X Nat
  PROVE  TypeOK'
BY DEF TypeOK, connVars, seqVars, clientVars, appVars

\* The device takes the first segment in the pipe, or none.
DevTakes == \/ toDev' = toDev
            \/ toDev # <<>> /\ toDev' = Tail(toDev)

\* What a step of the device has to respect.
LEMMA DevKeeps ==
  ASSUME IInv, TypeOK', UNCHANGED <<connVars, clientVars, appVars>>,
         state \notin {"FREED", "CRASHED"} => Chain(toHost', HostExpects, d_seq'),
         DevTakes,
         dstate' # "CLOSED" => Chain(toDev', d_rcv', HostNext) /\ NoRst(toHost'),
         dstate' # "LISTENING", dstate' \in {"SYN_RCVD", "OPEN"} => d_seq' > 0,
         d_rcv' > 0, d_rcv' <= HostNext, d_app' < d_rcv', d_rcv' <= 1 + d_app' + DevBuf,
         d_app <= d_app', rx_ack <= d_rcv', ToHostAll',
         d_ack' <= tx_ack, d_win' <= TxWin, d_seq' <= 1 \/ d_seq' <= tx_ack + TxWin,
         state = "CONNECTING" => d_seq' <= 1 /\ dstate' # "OPEN"
  PROVE  IInv'
<1>1. Counters /\ Wires /\ Counters' /\ Wires' /\ Phases /\ Downstream /\ Upstream
  BY TypeParts, PTL DEF IInv
<1>2. UNCHANGED <<state, tx_seq, tx_ack, rx_recvd, rx_ack, rx_win, sendable, ib_size,
                  cstate, sock, got>>
  BY DEF connVars, seqVars, clientVars, appVars
<1>3. HostNext' = HostNext /\ HostExpects' = HostExpects
  BY <1>2 DEF HostNext, HostExpects
<1>4. /\ NoRst(toDev) => NoRst(toDev')
      /\ (\A i \in 1..Len(toDev) : toDev[i].flags = "SYN")
           => \A i \in 1..Len(toDev') : toDev'[i].flags = "SYN"
  <2>1. CASE toDev # <<>> /\ toDev' = Tail(toDev)
    BY <1>1, <2>1, TailKeeps DEF Wires
  <2> QED BY <2>1 DEF DevTakes
<1>5. ToDevAll'
  <2>1. tx_ack <= tx_ack' /\ ToDevAll
    BY <1>1, <1>2 DEF Downstream, Counters
  <2> QED BY <1>1, <2>1, ToDevStep DEF DevTakes
<1>6. Phases'
  BY <1>1, <1>2, <1>4 DEF Phases
<1>7. Downstream'
  BY <1>1, <1>2, <1>3, <1>5 DEF Downstream
<1>8. Upstream'
  <2>1. /\ tx_seq <= 1 + d_app' + DevBuf /\ rx_ack + rx_win <= 1 + d_app' + DevBuf
        /\ state = "CONNECTED" => tx_seq + sendable <= 1 + d_app' + DevBuf
    <3>1. /\ tx_seq <= 1 + d_app + DevBuf /\ rx_ack + rx_win <= 1 + d_app + DevBuf
          /\ state = "CONNECTED" => tx_seq + sendable <= 1 + d_app + DevBuf
      BY <1>1 DEF Upstream
    <3>2. {tx_seq, rx_ack, rx_win, sendable, d_app, d_app'} \subseteq Nat /\ DevBuf \in Nat
      BY <1>1, FlowAssumption DEF Counters
    <3> QED BY <3>1, <3>2
  <2>2. d_app' <= d_rcv'
    <3>1. {d_app', d_rcv'} \subseteq Nat /\ d_app' < d_rcv'
      BY <1>1 DEF Counters
    <3> QED BY <3>1
  <2> QED BY <1>1, <1>2, <1>3, <2>1, <2>2 DEF Upstream
<1> QED BY <1>6, <1>7, <1>8 DEF IInv

\* The segment the device takes starts where it expects it to.
LEMMA DevTakesNext ==
  ASSUME IInv, dstate # "CLOSED", toDev # <<>>, Head(toDev).flags # "RST"
  PROVE  /\ Head(toDev) \in Segment /\ Head(toDev).seq = d_rcv
         /\ Head(toDev).ack <= tx_ack /\ Head(toDev).win * WinUnit <= TxWin
         /\ Head(toDev).win * WinUnit \in Nat
         /\ Head(toDev).flags \in {"SYN", "ACK"}
         /\ Head(toDev).flags = "SYN" => /\ d_rcv = 0 /\ Span(Head(toDev)) = 1
         /\ Head(toDev).flags = "ACK" => Span(Head(toDev)) = Head(toDev).len
         /\ Head(toDev).flags = "ACK" => state # "CONNECTING"
         /\ d_rcv + Span(Head(toDev)) <= HostNext
         /\ Chain(Tail(toDev), d_rcv + Span(Head(toDev)), HostNext)
<1>1. Counters /\ Wires /\ Phases /\ Downstream /\ Upstream
  BY TypeParts DEF IInv
<1>2. /\ toDev \in Seq(Segment) /\ Head(toDev) \in Segment
      /\ Head(toDev) = toDev[1] /\ 1 \in 1..Len(toDev)
  BY <1>1 DEF Wires
<1>3. d_rcv \in Nat /\ HostNext \in Nat
  BY <1>1 DEF Counters, HostNext
<1>4. Chain(toDev, d_rcv, HostNext)
  BY <1>1 DEF Upstream
<1>5. /\ Head(toDev).seq = d_rcv /\ d_rcv + Span(Head(toDev)) <= HostNext
      /\ Chain(Tail(toDev), d_rcv + Span(Head(toDev)), HostNext)
  BY <1>2, <1>3, <1>4, ChainTail
<1>6. ToDevOK(Head(toDev), tx_ack)
  BY <1>1, <1>2 DEF Downstream, ToDevAll
<1>7. Head(toDev).flags = "ACK" => state # "CONNECTING"
  BY <1>1, <1>2 DEF Phases
<1> QED BY <1>2, <1>5, <1>6, <1>7, SegmentType DEF ToDevOK

\* A segment that tells the device's free space is a good one.
LEMMA AdvertOK ==
  ASSUME IInv, NEW s \in Segment, NEW rcv \in Nat, s.ack = rcv, 1 <= rcv, d_app < rcv,
         rx_ack <= rcv, s.win * WinUnit <= DevBuf - (rcv - 1 - d_app),
         s.flags = "SYNACK" => s.len = 0
  PROVE  ToHostOK(s, rx_ack, rcv, d_app)
<1>1. d_app \in Nat /\ rx_ack \in Nat /\ s.win * WinUnit \in Nat /\ DevBuf \in Nat
  BY SegmentType, FlowAssumption, TypeParts DEF IInv, Counters
<1>2. s.win * WinUnit <= DevBuf /\ rcv + s.win * WinUnit <= 1 + d_app + DevBuf
  <2>1. PICK w \in Nat : w = s.win * WinUnit
    BY <1>1
  <2>2. w <= DevBuf - (rcv - 1 - d_app)
    BY <2>1
  <2>3. w <= DevBuf /\ rcv + w <= 1 + d_app + DevBuf
    BY <1>1, <2>2
  <2> QED BY <2>1, <2>3
<1> QED BY <1>2 DEF ToHostOK

LEMMA InvDevAccepts == IInv /\ DevAccepts => IInv'
<1> SUFFICES ASSUME IInv, DevAccepts PROVE IInv'
  OBVIOUS
<1>1. Counters /\ Wires /\ Phases /\ Downstream /\ Upstream /\ TypeOK
  BY TypeParts DEF IInv
<1>2. /\ dstate = "LISTENING" /\ toDev # <<>> /\ Head(toDev).flags = "SYN"
      /\ toDev' = Tail(toDev) /\ UNCHANGED <<connVars, clientVars, appVars>>
      /\ d_app' = d_app /\ d_rcv' = Head(toDev).seq + 1
      /\ d_ack' = Head(toDev).ack /\ d_win' = Head(toDev).win * WinUnit
  BY DEF DevAccepts, DevUnchanged
<1>3. /\ Head(toDev) \in Segment /\ Head(toDev).seq = 0 /\ d_rcv = 0 /\ d_rcv' = 1
      /\ d_ack' <= tx_ack /\ d_win' <= TxWin /\ d_win' \in Nat /\ d_ack' \in Nat
      /\ d_rcv' <= HostNext /\ Chain(toDev', d_rcv', HostNext)
  <2>1. /\ Head(toDev) \in Segment /\ d_rcv = 0 /\ Span(Head(toDev)) = 1
        /\ Head(toDev).seq = 0
        /\ d_ack' <= tx_ack /\ d_win' <= TxWin /\ d_win' \in Nat
        /\ d_rcv + Span(Head(toDev)) <= HostNext
        /\ Chain(Tail(toDev), d_rcv + Span(Head(toDev)), HostNext)
    BY <1>2, DevTakesNext
  <2> QED BY <1>2, <2>1, SegmentType
<1>4. d_app = 0 /\ d_seq = 0 /\ toHost = <<>> /\ rx_ack = 0
  BY <1>1, <1>2, <1>3 DEF Phases, Upstream, Counters
<1>5. ASSUME NEW f \in Flags, DevEmits(f, 0, d_rcv', 0),
             \/ f = "SYNACK" /\ dstate' = "SYN_RCVD" /\ d_seq' = 1
             \/ f \in {"RST", "FIN"} /\ dstate' = "CLOSED" /\ d_seq' = 0
      PROVE  IInv'
  <2>1. 1 <= 1 + d_app + DevBuf /\ d_app < 1
    BY <1>4, FlowAssumption
  <2>2. PICK s \in Segment :
           /\ toHost' = Append(toHost, s)
           /\ s.flags = f /\ s.seq = 0 /\ s.ack = 1 /\ s.len = 0
           /\ d_told' \in Nat \X Nat
           /\ s.win * WinUnit <= DevBuf - (1 - 1 - d_app)
           /\ toHost' \in Seq(Segment)
    BY <1>1, <1>3, <1>4, <1>5, <2>1, DevEmitsType DEF Wires
  <2>3. d_seq' = IF s.flags = "RST" THEN d_seq ELSE d_seq + Span(s)
    BY <1>4, <1>5, <2>2 DEF Span
  <2>4. /\ state \notin {"FREED", "CRASHED"} => Chain(toHost', HostExpects, d_seq')
        /\ s.flags # "RST" => NoRst(toHost')
    BY <1>2, <1>4, <2>2, <2>3, Emitted
  <2>5. ToHostOK(s, rx_ack, 1, d_app)
    BY <1>4, <2>1, <2>2, AdvertOK
  <2>6. TypeOK'
    <3>1. toDev' \in Seq(Segment)
      BY <1>1, <1>2 DEF Wires
    <3>2. dstate' \in DevStates /\ d_seq' \in Nat
      BY <1>5 DEF DevStates
    <3>3. d_rcv' \in Nat /\ d_app' \in Nat
      BY <1>2, <1>3, <1>4
    <3> QED BY <1>1, <1>2, <1>3, <2>2, <3>1, <3>2, <3>3, DevType
  <2>7. Counters' /\ Wires'
    BY <2>6, TypeParts, PTL
  <2>8. ToHostAll'
    <3>1. rx_ack' = rx_ack /\ d_rcv <= d_rcv' /\ d_app <= d_app'
      BY <1>2, <1>3, <1>4 DEF connVars, seqVars
    <3> QED BY <1>1, <1>2, <1>3, <2>2, <2>5, <2>7, <3>1, ToHostSent DEF Upstream
  <2>9. /\ d_app' < d_rcv' /\ d_rcv' <= 1 + d_app' + DevBuf /\ d_app <= d_app'
        /\ rx_ack <= d_rcv' /\ d_rcv' > 0
    BY <1>2, <1>3, <1>4, <2>1
  <2>10. d_seq' <= 1 /\ dstate' # "OPEN" /\ dstate' # "LISTENING"
         /\ (dstate' \in {"SYN_RCVD", "OPEN"} => d_seq' > 0)
         /\ (dstate' # "CLOSED" => NoRst(toHost'))
    BY <1>5, <2>2, <2>4
  <2> QED BY <1>2, <1>3, <2>4, <2>6, <2>8, <2>9, <2>10, DevKeeps DEF DevTakes
<1>6. CASE dstate' = "SYN_RCVD" /\ d_seq' = 1 /\ DevEmits("SYNACK", 0, d_rcv', 0)
  BY <1>5, <1>6 DEF Flags
<1>7. ASSUME NEW f \in {"RST", "FIN"}, dstate' = "CLOSED", d_seq' = 0,
             DevEmits(f, 0, d_rcv', 0)
      PROVE  IInv'
  BY <1>5, <1>7 DEF Flags
<1> QED BY <1>6, <1>7 DEF DevAccepts

LEMMA InvDevReceives == IInv /\ DevReceives => IInv'
<1> SUFFICES ASSUME IInv, DevReceives PROVE IInv'
  OBVIOUS
<1>1. Counters /\ Wires /\ Phases /\ Downstream /\ Upstream /\ TypeOK
  BY TypeParts DEF IInv
<1>2. /\ dstate \in {"SYN_RCVD", "OPEN"} /\ toDev # <<>> /\ toDev' = Tail(toDev)
      /\ UNCHANGED <<connVars, clientVars, appVars>>
      /\ toHost' = toHost /\ d_seq' = d_seq /\ d_app' = d_app /\ d_told' = d_told
  BY DEF DevReceives, DevUnchanged
<1>3. /\ d_seq > 0 /\ d_rcv > 0 /\ NoRst(toHost) /\ d_app < d_rcv
      /\ d_rcv <= HostNext /\ d_rcv <= 1 + d_app + DevBuf
      /\ rx_ack <= d_rcv /\ d_ack <= tx_ack /\ d_win <= TxWin
      /\ d_seq <= 1 \/ d_seq <= tx_ack + TxWin
      /\ state = "CONNECTING" => d_seq <= 1
      /\ state \notin {"FREED", "CRASHED"} => Chain(toHost', HostExpects, d_seq')
  BY <1>1, <1>2 DEF Phases, Downstream, Upstream
<1>4. toDev' \in Seq(Segment) /\ toHost' \in Seq(Segment) /\ rx_ack' = rx_ack
  BY <1>1, <1>2 DEF Wires, connVars, seqVars
<1>5. d_app <= d_app' /\ d_rcv <= d_rcv
  BY <1>1, <1>2 DEF Counters
<1>6. CASE dstate' = "CLOSED" /\ UNCHANGED <<d_rcv, d_ack, d_win>>
  <2>1. TypeOK'
    BY <1>1, <1>2, <1>4, <1>6, DevType DEF TypeOK, DevStates
  <2>2. ToHostAll'
    BY <1>1, <1>2, <1>4, <1>6 DEF Upstream, ToHostAll
  <2> QED BY <1>2, <1>3, <1>5, <1>6, <2>1, <2>2, DevKeeps DEF DevTakes
<1>7. CASE /\ Head(toDev).flags # "RST" /\ dstate' = "OPEN"
           /\ d_rcv' = d_rcv + Head(toDev).len
           /\ d_ack' = Head(toDev).ack /\ d_win' = Head(toDev).win * WinUnit
  <2>1. /\ Head(toDev) \in Segment /\ d_ack' <= tx_ack /\ d_win' <= TxWin /\ d_win' \in Nat
        /\ Head(toDev).flags = "ACK" /\ state # "CONNECTING"
        /\ d_rcv + Head(toDev).len <= HostNext
        /\ Chain(Tail(toDev), d_rcv + Head(toDev).len, HostNext)
    <3>1. Head(toDev).flags \in {"SYN", "ACK"} /\ (Head(toDev).flags = "SYN" => d_rcv = 0)
      BY <1>2, <1>7, DevTakesNext
    <3>2. Head(toDev).flags = "ACK"
      BY <1>3, <3>1
    <3> QED BY <1>2, <1>7, <3>2, DevTakesNext
  <2>2. PICK n \in Nat : n = Head(toDev).len
    BY <2>1, SegmentType
  <2>3. d_rcv' = d_rcv + n /\ d_rcv + n <= HostNext /\ d_ack' \in Nat
    BY <1>7, <2>1, <2>2, SegmentType
  <2>4. HostNext \in Nat /\ HostNext <= 1 + d_app + DevBuf
    <3>1. tx_seq <= 1 + d_app + DevBuf /\ {tx_seq, d_app} \subseteq Nat
      BY <1>1 DEF Upstream, Counters
    <3> QED BY <3>1, FlowAssumption DEF HostNext
  <2>5. /\ d_rcv' > 0 /\ d_rcv <= d_rcv' /\ d_app' < d_rcv' /\ d_rcv' <= 1 + d_app' + DevBuf
        /\ rx_ack <= d_rcv' /\ d_rcv' <= HostNext /\ d_rcv' \in Nat
    <3>1. {d_rcv, d_app, rx_ack} \subseteq Nat /\ DevBuf \in Nat
      BY <1>1, FlowAssumption DEF Counters
    <3> QED BY <1>2, <1>3, <2>3, <2>4, <3>1
  <2>6. TypeOK'
    <3>1. d_seq \in Nat /\ d_app \in Nat /\ d_told \in Nat \X Nat
      BY <1>1 DEF TypeOK
    <3>2. dstate' \in DevStates
      BY <1>7 DEF DevStates
    <3> QED BY <1>1, <1>2, <1>4, <2>1, <2>3, <2>5, <3>1, <3>2, DevType
  <2>7. Counters' /\ Wires'
    BY <2>6, TypeParts, PTL
  <2>8. ToHostAll'
    BY <1>1, <1>2, <1>4, <1>5, <2>5, <2>7, ToHostSame DEF Upstream
  <2>9. Chain(toDev', d_rcv', HostNext)
    BY <1>2, <1>7, <2>1
  <2> QED BY <1>2, <1>3, <1>5, <1>7, <2>1, <2>5, <2>6, <2>8, <2>9, DevKeeps DEF DevTakes
<1> QED BY <1>6, <1>7 DEF DevReceives

LEMMA InvDevDrops == IInv /\ DevDrops => IInv'
<1> SUFFICES ASSUME IInv, DevDrops PROVE IInv'
  OBVIOUS
<1>1. Counters /\ Wires /\ Phases /\ Downstream /\ Upstream /\ TypeOK
  BY TypeParts DEF IInv
<1>2. /\ dstate = "CLOSED" /\ toDev # <<>> /\ toDev' = Tail(toDev)
      /\ UNCHANGED <<connVars, clientVars, appVars>> /\ toHost' = toHost
      /\ UNCHANGED <<dstate, d_seq, d_rcv, d_app, d_ack, d_win, d_told>>
  BY DEF DevDrops, DevUnchanged, devVars
<1>3. toDev' \in Seq(Segment) /\ rx_ack' = rx_ack
  BY <1>1, <1>2 DEF Wires, connVars, seqVars
<1>4. TypeOK'
  BY <1>1, <1>2, <1>3, DevType DEF TypeOK
<1>5. ToHostAll'
  BY <1>1, <1>2, <1>3 DEF Upstream, ToHostAll
<1>6. /\ d_rcv > 0 /\ d_app < d_rcv
      /\ d_rcv <= HostNext /\ d_rcv <= 1 + d_app + DevBuf
      /\ rx_ack <= d_rcv /\ d_ack <= tx_ack /\ d_win <= TxWin
      /\ d_seq <= 1 \/ d_seq <= tx_ack + TxWin
      /\ state = "CONNECTING" => d_seq <= 1
      /\ state \notin {"FREED", "CRASHED"} => Chain(toHost', HostExpects, d_seq')
  BY <1>1, <1>2 DEF Phases, Downstream, Upstream
<1>7. d_app <= d_app'
  BY <1>1, <1>2 DEF Counters
<1> QED BY <1>2, <1>4, <1>5, <1>6, <1>7, DevKeeps DEF DevTakes

LEMMA InvDevConsumes == IInv /\ DevConsumes => IInv'
<1> SUFFICES ASSUME IInv, DevConsumes PROVE IInv'
  OBVIOUS
<1>1. Counters /\ Wires /\ Phases /\ Downstream /\ Upstream /\ TypeOK
  BY TypeParts DEF IInv
<1>2. /\ d_app < d_rcv - 1 /\ d_app' = d_app + 1 /\ toDev' = toDev
      /\ UNCHANGED <<connVars, clientVars, appVars>> /\ toHost' = toHost
      /\ UNCHANGED <<dstate, d_seq, d_rcv, d_ack, d_win, d_told>>
  BY DEF DevConsumes, DevUnchanged
<1>3. {d_app, d_rcv} \subseteq Nat /\ DevBuf \in Nat
  BY <1>1, FlowAssumption DEF Counters
<1>4. /\ d_rcv > 0 /\ d_app' < d_rcv /\ d_app <= d_app' /\ d_app' \in Nat
      /\ (d_rcv <= 1 + d_app + DevBuf => d_rcv <= 1 + d_app' + DevBuf)
  BY <1>2, <1>3
<1>5. TypeOK'
  BY <1>1, <1>2, <1>4, DevType DEF TypeOK
<1>6. ToHostAll'
  <2>1. Counters' /\ Wires'
    BY <1>5, TypeParts, PTL
  <2>2. rx_ack' = rx_ack /\ d_rcv <= d_rcv'
    BY <1>2, <1>3 DEF connVars, seqVars
  <2> QED BY <1>1, <1>2, <1>4, <2>1, <2>2, ToHostSame DEF Upstream
<1>7. /\ dstate # "LISTENING"
      /\ d_rcv <= HostNext /\ d_rcv <= 1 + d_app' + DevBuf
      /\ rx_ack <= d_rcv /\ d_ack <= tx_ack /\ d_win <= TxWin
      /\ d_seq <= 1 \/ d_seq <= tx_ack + TxWin
      /\ dstate \in {"SYN_RCVD", "OPEN"} => d_seq > 0
      /\ state = "CONNECTING" => d_seq <= 1 /\ dstate # "OPEN"
      /\ state \notin {"FREED", "CRASHED"} => Chain(toHost', HostExpects, d_seq')
      /\ dstate # "CLOSED" => Chain(toDev, d_rcv, HostNext) /\ NoRst(toHost)
  BY <1>1, <1>2, <1>4 DEF Phases, Downstream, Upstream
<1>8. /\ dstate' # "CLOSED" => Chain(toDev', d_rcv', HostNext) /\ NoRst(toHost')
      /\ dstate' # "LISTENING" /\ (dstate' \in {"SYN_RCVD", "OPEN"} => d_seq' > 0)
      /\ d_rcv' > 0 /\ d_rcv' <= HostNext /\ d_app' < d_rcv' /\ d_rcv' <= 1 + d_app' + DevBuf
      /\ d_app <= d_app' /\ rx_ack <= d_rcv'
      /\ d_ack' <= tx_ack /\ d_win' <= TxWin /\ (d_seq' <= 1 \/ d_seq' <= tx_ack + TxWin)
      /\ state = "CONNECTING" => d_seq' <= 1 /\ dstate' # "OPEN"
  BY <1>2, <1>4, <1>7
<1> QED BY <1>2, <1>5, <1>6, <1>7, <1>8, DevKeeps DEF DevTakes

\* The open device emits a segment with n bytes of its stream, or ends it.
LEMMA InvDevEmits ==
  ASSUME IInv, dstate = "OPEN", UNCHANGED <<connVars, clientVars, appVars, toDev>>,
         UNCHANGED <<d_rcv, d_app, d_ack, d_win>>,
         NEW f \in {"ACK", "RST", "FIN"}, NEW n \in Nat, DevEmits(f, d_seq, d_rcv, n),
         d_seq' = d_seq + n, f = "ACK" \/ n = 0, n = 0 \/ d_seq + n <= d_ack + d_win,
         dstate' = IF f = "ACK" THEN "OPEN" ELSE "CLOSED"
  PROVE  IInv'
<1>1. Counters /\ Wires /\ Phases /\ Downstream /\ Upstream /\ TypeOK
  BY TypeParts DEF IInv
<1>2. /\ d_rcv > 0 /\ d_app < d_rcv /\ d_seq > 0
      /\ d_rcv <= HostNext /\ d_rcv <= 1 + d_app + DevBuf
      /\ rx_ack <= d_rcv /\ d_ack <= tx_ack /\ d_win <= TxWin
      /\ d_seq <= 1 \/ d_seq <= tx_ack + TxWin
      /\ state # "CONNECTING" /\ Chain(toDev, d_rcv, HostNext)
  BY <1>1 DEF Phases, Downstream, Upstream
<1>3. {d_seq, d_rcv, d_app, d_ack, d_win, tx_ack} \subseteq Nat /\ TxWin \in Nat
  BY <1>1, FlowAssumption DEF Counters
<1>4. PICK s \in Segment :
         /\ toHost' = Append(toHost, s)
         /\ s.flags = f /\ s.seq = d_seq /\ s.ack = d_rcv /\ s.len = n
         /\ d_told' \in Nat \X Nat
         /\ s.win * WinUnit <= DevBuf - (d_rcv - 1 - d_app)
         /\ toHost' \in Seq(Segment)
  <2>1. f \in Flags /\ d_app \in Nat /\ d_seq \in Nat /\ d_rcv \in Nat
    BY <1>3 DEF Flags
  <2> QED BY <1>1, <1>2, <2>1, DevEmitsType DEF Wires
<1>5. d_seq' = IF s.flags = "RST" THEN d_seq ELSE d_seq + Span(s)
  <2>1. Span(s) = n
    BY <1>4 DEF Span
  <2> QED BY <1>3, <1>4, <2>1
<1>6. /\ state \notin {"FREED", "CRASHED"} => Chain(toHost', HostExpects, d_seq')
      /\ s.flags # "RST" => NoRst(toHost')
  BY <1>4, <1>5, Emitted
<1>7. ToHostOK(s, rx_ack, d_rcv, d_app)
  <2>1. 1 <= d_rcv /\ d_rcv \in Nat
    BY <1>2, <1>3
  <2> QED BY <1>2, <1>4, <2>1, AdvertOK
<1>8. TypeOK'
  <2>1. dstate' \in DevStates /\ d_seq' \in Nat
    BY <1>3 DEF DevStates
  <2> QED BY <1>1, <1>4, <2>1, DevType DEF TypeOK
<1>9. ToHostAll'
  <2>1. Counters' /\ Wires'
    BY <1>8, TypeParts, PTL
  <2>2. rx_ack' = rx_ack /\ d_rcv <= d_rcv' /\ d_app <= d_app'
    BY <1>3 DEF connVars, seqVars
  <2> QED BY <1>1, <1>4, <1>7, <2>1, <2>2, ToHostSent DEF Upstream
<1>10. d_seq' <= 1 \/ d_seq' <= tx_ack + TxWin
  <2>1. CASE n = 0
    BY <1>2, <1>3, <2>1
  <2>2. CASE d_seq + n <= d_ack + d_win
    BY <1>2, <1>3, <2>2
  <2> QED BY <2>1, <2>2
<1>11. d_seq' > 0 /\ d_app <= d_app'
  BY <1>2, <1>3
<1>12. dstate' # "CLOSED" => NoRst(toHost')
  BY <1>4, <1>6
<1>13. /\ dstate' # "CLOSED" => Chain(toDev', d_rcv', HostNext) /\ NoRst(toHost')
       /\ dstate' # "LISTENING" /\ (dstate' \in {"SYN_RCVD", "OPEN"} => d_seq' > 0)
       /\ d_rcv' > 0 /\ d_rcv' <= HostNext /\ d_app' < d_rcv' /\ d_rcv' <= 1 + d_app' + DevBuf
       /\ d_app <= d_app' /\ rx_ack <= d_rcv' /\ d_ack' <= tx_ack /\ d_win' <= TxWin
       /\ state = "CONNECTING" => d_seq' <= 1 /\ dstate' # "OPEN"
  BY <1>2, <1>11, <1>12
<1> QED BY <1>6, <1>8, <1>9, <1>10, <1>13, DevKeeps DEF DevTakes

LEMMA InvDevTalks == IInv /\ (DevAcks \/ DevSends \/ DevCloses) => IInv'
<1> SUFFICES ASSUME IInv, DevAcks \/ DevSends \/ DevCloses PROVE IInv'
  OBVIOUS
<1>1. d_seq \in Nat /\ 0 \in Nat /\ d_seq + 0 = d_seq
  BY DEF IInv, TypeOK
<1>2. CASE DevAcks
  BY <1>1, <1>2, InvDevEmits DEF DevAcks, DevUnchanged
<1>3. CASE DevCloses
  <2>1. PICK f \in {"RST", "FIN"} : DevEmits(f, d_seq, d_rcv, 0)
    BY <1>3 DEF DevCloses
  <2> QED BY <1>1, <1>3, <2>1, InvDevEmits DEF DevCloses, DevUnchanged
<1>4. CASE DevSends
  <2>1. PICK n \in 1..(MaxIn + 1 - d_seq) :
          /\ d_seq + n <= d_ack + d_win
          /\ DevEmits("ACK", d_seq, d_rcv, n) /\ d_seq' = d_seq + n
    BY <1>4 DEF DevSends
  <2>2. n \in Nat
    BY <1>1, FlowAssumption
  <2> QED BY <1>4, <2>1, <2>2, InvDevEmits DEF DevSends, DevUnchanged
<1> QED BY <1>2, <1>3, <1>4

-----------------------------------------------------------------------------
(* The theorems. *)

\* The invariant holds when device_start_connect has sent the SYN.
LEMMA InvInit == Init => IInv
<1> SUFFICES ASSUME Init PROVE IInv
  OBVIOUS
<1> DEFINE syn == HostSegment("SYN", 0, 0, 0)
<1>1. /\ syn \in Segment /\ syn.flags = "SYN" /\ syn.seq = 0 /\ syn.len = 0 /\ syn.ack = 0
      /\ syn.win * WinUnit <= TxWin
  BY HostSegmentType DEF HostSegment, Flags
<1>2. toDev = <<syn>> /\ toHost = <<>> /\ Len(toDev) = 1 /\ toDev[1] = syn /\ Len(toHost) = 0
  BY DEF Init
<1> HIDE DEF syn
<1>3. TypeOK
  <2>1. toDev \in Seq(Segment) /\ toHost \in Seq(Segment)
    BY <1>1, <1>2
  <2>2. /\ state \in ConnStates /\ cstate \in ClientStates /\ dstate \in DevStates
        /\ events \in SUBSET Poll /\ devents \in SUBSET Poll /\ ack_pending \in BOOLEAN
        /\ capp \in {"OPEN", "CLOSED"} /\ d_told \in Nat \X Nat
    BY DEF Init, ConnStates, ClientStates, DevStates, Poll
  <2>3. sock \in 0..SockCap /\ out \in 0..SockCap /\ wrote \in 0..MaxOut
    BY FlowAssumption DEF Init
  <2> QED BY <2>1, <2>2, <2>3 DEF Init, TypeOK
<1>4. Phases
  BY <1>1, <1>2 DEF Init, Phases, NoRst
<1>5. HostNext = 1 /\ HostExpects = 0
  BY DEF Init, HostNext, HostExpects
<1>6. Chain(toHost, 0, 0)
  BY <1>2 DEF Chain, SeqAt
<1>7. Chain(toDev, 0, 1)
  <2>1. Span(syn) = 1
    BY <1>1, SegmentType
  <2> QED BY <1>1, <1>2, <2>1 DEF Chain, SeqAt
<1>8. ToDevAll /\ ToHostAll
  BY <1>1, <1>2 DEF Init, ToDevAll, ToHostAll, ToDevOK
<1>9. Downstream
  BY <1>5, <1>6, <1>8, FlowAssumption DEF Init, Downstream
<1>10. Upstream
  BY <1>5, <1>7, <1>8, FlowAssumption DEF Init, Upstream
<1> QED BY <1>3, <1>4, <1>9, <1>10 DEF IInv

LEMMA InvStep == IInv /\ [Next]_vars => IInv'
<1> SUFFICES ASSUME IInv, [Next]_vars PROVE IInv'
  OBVIOUS
<1>1. CASE UsbInput
  BY <1>1, InvRecvSynAck, InvRecvRefusal, InvRecvData, InvRecvReset, InvRecvNoConnection,
     InvAnonRstFails
     DEF UsbInput
<1>2. CASE ProcessSend \/ ClientStep
  BY <1>2, InvClient
<1>3. CASE DeviceClientProcess
  BY <1>3, InvDeviceClientProcess
<1>4. CASE CheckTimeouts
  BY <1>4, InvCheckTimeouts
<1>5. CASE DevStep
  BY <1>5, InvDevAccepts, InvDevReceives, InvDevDrops, InvDevConsumes, InvDevTalks
     DEF DevStep
<1>6. CASE UNCHANGED vars
  <2> USE <1>6 DEF vars, connVars, seqVars, clientVars, appVars, devVars
  <2>1. TypeOK'
    BY DEF IInv, TypeOK
  <2>2. Phases'
    BY DEF IInv, Phases, NoRst
  <2>3. Downstream'
    BY DEF IInv, Downstream, HostExpects, ToDevAll
  <2>4. Upstream'
    BY DEF IInv, Upstream, HostNext, ToHostAll
  <2> QED BY <2>1, <2>2, <2>3, <2>4 DEF IInv
<1> QED BY <1>1, <1>2, <1>3, <1>4, <1>5, <1>6 DEF Next, HostStep

\* The segments in the pipe and the counters of both ends always agree.
THEOREM Invariant == Spec => []IInv
BY InvInit, InvStep, PTL DEF Spec

\* Every variable keeps its type, for every size of window, buffer and transfer.
THEOREM TypeCorrect == Spec => []TypeOK
<1>1. IInv => TypeOK
  BY DEF IInv
<1> QED BY Invariant, <1>1, PTL

\* connection_device_input never meets more data than ib_buf has room for, so its
\* overflow branch, whose caller goes on with a freed connection, is not taken.
THEOREM InputAlwaysFits == Spec => []InputFits
<1>1. IInv => InputFits
  <2> SUFFICES ASSUME IInv, state = "CONNECTED", toHost # <<>>, Arrives.flags = "ACK"
               PROVE  ib_size + Arrives.len <= InCap
    BY DEF InputFits
  <2>1. Counters /\ Wires /\ Phases /\ Downstream /\ Upstream
    BY TypeParts DEF IInv
  <2>2. /\ toHost \in Seq(Segment) /\ Arrives \in Segment
        /\ rx_recvd + 1 \in Nat /\ d_seq \in Nat /\ HostExpects = rx_recvd + 1
    <3>1. toHost \in Seq(Segment) /\ Arrives \in Segment
      BY <2>1 DEF Wires, Arrives
    <3>2. rx_recvd + 1 \in Nat /\ d_seq \in Nat
      BY <2>1 DEF Counters
    <3> QED BY <3>1, <3>2 DEF HostExpects
  <2>3. PICK n \in Nat : n = Arrives.len
    BY <2>2, SegmentType
  <2>4. rx_recvd + 1 + n <= d_seq
    <3>1. Span(Arrives) = n
      BY <2>2, <2>3, SegmentType
    <3>2. Chain(toHost, rx_recvd + 1, d_seq)
      BY <2>1, <2>2 DEF Downstream
    <3> QED BY <2>2, <3>1, <3>2, ChainTail DEF Arrives
  <2>5. tx_ack + ib_size = rx_recvd + 1 /\ (d_seq <= 1 \/ d_seq <= tx_ack + TxWin) /\ tx_ack > 0
    BY <2>1 DEF Downstream, Phases
  <2>6. {tx_ack, ib_size, rx_recvd, d_seq} \subseteq Nat /\ TxWin \in Nat /\ InCap \in Nat
        /\ TxWin <= InCap
    BY <2>1, FlowAssumption DEF Counters
  <2>7. ib_size + n <= InCap
    BY <2>4, <2>5, <2>6
  <2> QED BY <2>3, <2>7
<1> QED BY Invariant, <1>1, PTL

\* The host never overruns the receive buffer of the device.
THEOREM DeviceAlwaysFits == Spec => []DeviceFits
<1>1. IInv => DeviceFits
  <2> SUFFICES ASSUME IInv PROVE tx_seq - 1 - d_app <= DevBuf
    BY DEF DeviceFits
  <2>1. tx_seq <= 1 + d_app + DevBuf /\ {tx_seq, d_app} \subseteq Nat
    BY TypeParts DEF IInv, Upstream, Counters
  <2> QED BY <2>1, FlowAssumption
<1> QED BY Invariant, <1>1, PTL

\* Data the host has not yet handed to the client is never acknowledged.
THEOREM AcknowledgedIsDelivered == Spec => []AckMeansDelivered
<1>1. IInv => AckMeansDelivered
  <2> SUFFICES ASSUME IInv PROVE d_ack <= 1 + got + sock
    BY DEF AckMeansDelivered
  <2>1. /\ d_ack <= tx_ack /\ tx_ack <= 1 + got + sock
        /\ {d_ack, tx_ack, got, sock} \subseteq Nat
    BY TypeParts DEF IInv, Downstream, Counters
  <2> QED BY <2>1
<1> QED BY Invariant, <1>1, PTL

\* Neither end ever meets a segment out of order: send_tcp numbers the stream
\* without gaps whatever the interleaving of data, ACKs and teardown.
THEOREM AlwaysInSequence == Spec => []InSequence
<1>1. IInv => InSequence
  <2> SUFFICES ASSUME IInv PROVE InSequence
    OBVIOUS
  <2>1. Counters /\ Wires /\ Phases /\ Downstream /\ Upstream
    BY TypeParts DEF IInv
  <2>2. ASSUME state = "CONNECTED", toHost # <<>>, Arrives.flags # "RST"
        PROVE  Arrives.seq = rx_recvd + 1
    <3>1. toHost \in Seq(Segment) /\ 1 \in 1..Len(toHost) /\ Arrives = toHost[1]
      BY <2>1, <2>2 DEF Wires, Arrives
    <3>2. Chain(toHost, rx_recvd + 1, d_seq)
      BY <2>1, <2>2 DEF Downstream, HostExpects
    <3> QED BY <2>2, <3>1, <3>2 DEF Chain, SeqAt
  <2>3. ASSUME dstate \in {"SYN_RCVD", "OPEN"}, toDev # <<>>, Head(toDev).flags = "ACK"
        PROVE  Head(toDev).seq = d_rcv
    BY <2>3, DevTakesNext
  <2> QED BY <2>2, <2>3 DEF InSequence
<1> QED BY Invariant, <1>1, PTL

-----------------------------------------------------------------------------
(* The event masks. *)

\* What update_connection leaves behind, and the client's mask once it is served.
MaskInv ==
  state = "CONNECTED" =>
    /\ sendable = Sendable(tx_seq, rx_ack, rx_win)
    /\ devents = (IF sendable > 0 THEN {"IN"} ELSE {}) \cup
                 (IF ib_size > 0 THEN {"OUT"} ELSE {})
    /\ ack_pending <=> tx_acked # tx_ack
    /\ cstate = "CONNECTED" => events = devents

\* Every handler that changes a counter ends in update_connection or teardown.
LEMMA MaskStep == MaskInv /\ [Next]_vars => MaskInv'
<1> SUFFICES ASSUME MaskInv, [Next]_vars PROVE MaskInv'
  OBVIOUS
<1>1. ASSUME NEW ev, UpdateConnection(ev) PROVE MaskInv'
  BY <1>1 DEF UpdateConnection, MaskInv
<1>2. ASSUME NEW st, NEW ib, NEW sk, NEW wire, Teardown(st, ib, sk, wire) PROVE MaskInv'
  BY <1>2 DEF Teardown, MaskInv
<1>3. ASSUME UNCHANGED <<connVars, clientVars>> PROVE MaskInv'
  BY <1>3 DEF MaskInv, connVars, seqVars, clientVars
<1>4. ASSUME NEW n, AfterWrite(n) PROVE MaskInv'
  BY <1>1, <1>2, <1>4 DEF AfterWrite
<1>5. CASE UsbInput
  <2>1. CASE RecvSynAck
    BY <1>1, <1>2, <2>1 DEF RecvSynAck
  <2>2. CASE RecvRefusal
    BY <1>2, <2>2 DEF RecvRefusal
  <2>3. CASE RecvData
    BY <1>1, <1>2, <2>3 DEF RecvData
  <2>4. CASE RecvReset
    BY <1>2, <2>4 DEF RecvReset
  <2>5. CASE RecvNoConnection \/ AnonRstFails
    BY <1>3, <2>5 DEF RecvNoConnection, AnonRstFails, MaskInv
  <2> QED BY <1>5, <2>1, <2>2, <2>3, <2>4, <2>5 DEF UsbInput
<1>6. CASE ProcessSend
  BY <1>6 DEF ProcessSend, MaskInv, connVars, seqVars
<1>7. CASE DeviceClientProcess
  BY <1>2, <1>4, <1>7 DEF DeviceClientProcess, ClientWriteFails
<1>8. CASE CheckTimeouts
  BY <1>1, <1>2, <1>8 DEF CheckTimeouts
<1>9. CASE ClientStep
  BY <1>3, <1>9 DEF ClientStep, ClientWrites, ClientReads, ClientCloses
<1>10. CASE DevStep
  BY <1>3, <1>10 DEF DevStep, DevUnchanged, DevAccepts, DevReceives, DevDrops,
     DevConsumes, DevAcks, DevSends, DevCloses
<1>11. CASE UNCHANGED vars
  BY <1>3, <1>11 DEF vars
<1> QED BY <1>5, <1>6, <1>7, <1>8, <1>9, <1>10, <1>11 DEF Next, HostStep

\* A served client is polled for exactly what its connection can use: no handler
\* changes a counter and leaves a stale mask, or a stale ack_pending, behind.
THEOREM EventsAlwaysMatch == Spec => []EventsMatch
<1>1. Init => MaskInv
  BY DEF Init, MaskInv
<1>2. MaskInv => EventsMatch
  BY DEF MaskInv, EventsMatch
<1> QED BY <1>1, <1>2, MaskStep, PTL DEF Spec

-----------------------------------------------------------------------------
(***************************************************************************)
(* No window stays closed.  The last window that either end has told the   *)
(* other is in the last segment under way, or has arrived; an end that has *)
(* nothing under way therefore knows what the other told it last, and so   *)
(* whether that may change is up to the other.                             *)
(***************************************************************************)
LastOf(q) == q[Len(q)]

\* What the host knows of the device's window is what the device told last.
HostTold ==
  state \notin {"FREED", "CRASHED"} =>
    IF toHost = <<>> THEN rx_ack = d_told[1] /\ rx_win = d_told[2] * WinUnit
                     ELSE LastOf(toHost).ack = d_told[1] /\ LastOf(toHost).win = d_told[2]

\* What the device knows of the host's window is what the host told last.
DeviceTold ==
  state \notin {"FREED", "CRASHED"} /\ dstate # "CLOSED" =>
    IF toDev = <<>> THEN d_ack = tx_acked /\ d_win = (TxWin \div WinUnit) * WinUnit
                    ELSE LastOf(toDev).ack = tx_acked /\ LastOf(toDev).win = TxWin \div WinUnit

\* The two steps of the handshake, and of the end, that the other end has to take.
Handshake ==
  /\ state = "CONNECTED" /\ dstate = "SYN_RCVD" => toDev # <<>>
  /\ state \notin {"FREED", "CRASHED"} /\ dstate = "CLOSED" =>
       toHost # <<>> /\ LastOf(toHost).flags \in {"RST", "FIN"}

Windows == HostTold /\ DeviceTold /\ Handshake

\* The last segment is the last until it is the first.
LEMMA LastOfTail ==
  ASSUME NEW q \in Seq(Segment), q # <<>>
  PROVE  IF Tail(q) = <<>> THEN Head(q) = LastOf(q) ELSE LastOf(Tail(q)) = LastOf(q)
<1>1. Len(Tail(q)) = Len(q) - 1 /\ Head(q) = q[1] /\ Len(q) \in Nat \ {0}
      /\ Tail(q) \in Seq(Segment) /\ \A i \in 1 .. Len(Tail(q)) : Tail(q)[i] = q[i + 1]
  OBVIOUS
<1> DEFINE n == Len(q)  t == Tail(q)
<1>n. Len(t) = n - 1 /\ n \in Nat \ {0} /\ t \in Seq(Segment)
  BY <1>1
<1> HIDE DEF n, t
<1>2. CASE n = 1
  <2>1. t = <<>>
    BY <1>n, <1>2
  <2> QED BY <1>1, <1>2, <2>1 DEF LastOf, n, t
<1>3. CASE n > 1
  <2>1. t # <<>> /\ n - 1 \in 1 .. Len(t) /\ (n - 1) + 1 = n
    BY <1>n, <1>3
  <2>2. t[n - 1] = q[n]
    BY <1>1, <2>1 DEF t
  <2> QED BY <1>n, <2>1, <2>2 DEF LastOf, n, t
<1> QED BY <1>n, <1>2, <1>3

\* A segment that is sent is the last.
LEMMA LastOfAppend ==
  ASSUME NEW q \in Seq(Segment), NEW s
  PROVE  Append(q, s) # <<>> /\ LastOf(Append(q, s)) = s
<1>1. Len(Append(q, s)) = Len(q) + 1 /\ Len(q) \in Nat /\ Append(q, s)[Len(q) + 1] = s
  OBVIOUS
<1> QED BY <1>1 DEF LastOf

\* A handler that leaves the connection alive: it takes a segment that does not end
\* the connection, or none, and sends an ACK that tells what it has acknowledged, or
\* nothing.
LEMMA HostWindows ==
  ASSUME Windows, toDev \in Seq(Segment), toHost \in Seq(Segment), state \notin {"FREED", "CRASHED"},
         UNCHANGED devVars,
         \/ Takes0
         \/ Takes /\ Head(toHost).flags \notin {"RST", "FIN"},
         \/ toDev' = toDev /\ tx_acked' = tx_acked /\ state = "CONNECTED"
         \/ \E seq, m : /\ toDev' = Append(toDev, HostSegment("ACK", seq, tx_ack', m))
                        /\ tx_acked' = tx_ack'
  PROVE  Windows'
<1>1. UNCHANGED <<dstate, d_told, d_ack, d_win>>
  BY DEF devVars
<1>2. HostTold'
  <2>1. CASE Takes0
    BY <1>1, <2>1 DEF Takes0, Windows, HostTold
  <2>2. CASE Takes
    <3>1. IF toHost' = <<>> THEN Head(toHost) = LastOf(toHost) ELSE LastOf(toHost') = LastOf(toHost)
      BY <2>2, LastOfTail DEF Takes
    <3>2. /\ rx_ack' = Head(toHost).ack /\ rx_win' = Head(toHost).win * WinUnit /\ toHost # <<>>
          /\ LastOf(toHost).ack = d_told[1] /\ LastOf(toHost).win = d_told[2]
      BY <2>2 DEF Takes, Windows, HostTold
    <3> QED BY <1>1, <3>1, <3>2 DEF HostTold
  <2> QED BY <2>1, <2>2
<1>3. toDev' # <<>> \/ (toDev' = toDev /\ state = "CONNECTED")
  BY LastOfAppend
<1>4. DeviceTold'
  <2>1. CASE toDev' = toDev /\ tx_acked' = tx_acked
    BY <1>1, <2>1 DEF Windows, DeviceTold
  <2>2. ASSUME NEW seq, NEW m, toDev' = Append(toDev, HostSegment("ACK", seq, tx_ack', m)),
               tx_acked' = tx_ack'
        PROVE  DeviceTold'
    <3>1. toDev' # <<>> /\ LastOf(toDev') = HostSegment("ACK", seq, tx_ack', m)
      BY <2>2, LastOfAppend
    <3> QED BY <2>2, <3>1 DEF DeviceTold, HostSegment
  <2> QED BY <2>1, <2>2
<1>5. Handshake'
  <2>1. state' = "CONNECTED" /\ dstate' = "SYN_RCVD" => toDev' # <<>>
    BY <1>1, <1>3 DEF Windows, Handshake
  <2>2. ASSUME dstate = "CLOSED" PROVE toHost' # <<>> /\ LastOf(toHost').flags \in {"RST", "FIN"}
    <3>1. toHost # <<>> /\ LastOf(toHost).flags \in {"RST", "FIN"}
      BY <2>2 DEF Windows, Handshake
    <3>2. CASE Takes0
      BY <3>1, <3>2 DEF Takes0
    <3>3. CASE Takes /\ Head(toHost).flags \notin {"RST", "FIN"}
      <4>1. IF toHost' = <<>> THEN Head(toHost) = LastOf(toHost) ELSE LastOf(toHost') = LastOf(toHost)
        BY <3>3, LastOfTail DEF Takes
      <4> QED BY <3>1, <3>3, <4>1
    <3> QED BY <3>2, <3>3
  <2> QED BY <1>1, <2>1, <2>2 DEF Handshake
<1> QED BY <1>2, <1>4, <1>5 DEF Windows

\* The device takes a segment of an open connection and notes what it tells.
LEMMA DeviceWindows ==
  ASSUME DeviceTold, toDev \in Seq(Segment), toDev # <<>>, toDev' = Tail(toDev),
         UNCHANGED connVars, dstate # "CLOSED",
         d_ack' = Head(toDev).ack, d_win' = Head(toDev).win * WinUnit
  PROVE  DeviceTold'
<1>1. IF toDev' = <<>> THEN Head(toDev) = LastOf(toDev) ELSE LastOf(toDev') = LastOf(toDev)
  BY LastOfTail
<1>2. state' = state /\ tx_acked' = tx_acked
  BY DEF connVars, seqVars
<1> QED BY <1>1, <1>2 DEF DeviceTold

\* The device emits a segment, and with it what it tells.
LEMMA EmitsWindows ==
  ASSUME toHost \in Seq(Segment), NEW f, NEW seq, NEW rcv, NEW len, DevEmits(f, seq, rcv, len)
  PROVE  HostTold' /\ toHost' # <<>> /\ LastOf(toHost').flags = f
<1> DEFINE adv == DevAdvert(rcv, d_app)
           seg == [flags |-> f, seq |-> seq, ack |-> adv[1], win |-> adv[2], len |-> len]
<1>1. toHost' = Append(toHost, seg) /\ d_told' = adv
  BY DEF DevEmits
<1>2. toHost' # <<>> /\ LastOf(toHost') = seg
  BY <1>1, LastOfAppend
<1>3. seg.flags = f /\ seg.ack = adv[1] /\ seg.win = adv[2]
  OBVIOUS
<1> QED BY <1>1, <1>2, <1>3 DEF HostTold

LEMMA WindowsStep == IInv /\ Windows /\ [Next]_vars => Windows'
<1> SUFFICES ASSUME IInv, Windows, [Next]_vars PROVE Windows'
  OBVIOUS
<1>1. toDev \in Seq(Segment) /\ toHost \in Seq(Segment) /\ state \in ConnStates
  BY DEF IInv, TypeOK
<1>2. ASSUME state' \in {"FREED", "CRASHED"} PROVE Windows'
  BY <1>2 DEF Windows, HostTold, DeviceTold, Handshake
<1>3. ASSUME NEW st, NEW ib, NEW sk, NEW wire, Teardown(st, ib, sk, wire) PROVE Windows'
  BY <1>2, <1>3 DEF Teardown
<1>4. ASSUME TakeHeader, state \notin {"FREED", "CRASHED"} PROVE Takes /\ UNCHANGED devVars
  BY <1>4 DEF TakeHeader, Takes, Arrives
<1>5. CASE UsbInput
  <2>1. CASE RecvSynAck
    <3>1. CASE /\ toDev' = Append(toDev, HostSegment("ACK", tx_seq', tx_ack', 0))
               /\ tx_acked' = tx_ack'
      <4>1. Head(toHost).flags \notin {"RST", "FIN"} /\ TakeHeader /\ state = "CONNECTING"
        BY <2>1 DEF RecvSynAck, Arrives
      <4> QED BY <1>1, <1>4, <3>1, <4>1, HostWindows
    <3> QED BY <1>3, <2>1, <3>1 DEF RecvSynAck
  <2>2. CASE RecvRefusal
    BY <1>3, <2>2 DEF RecvRefusal
  <2>3. CASE RecvData
    <3>1. CASE /\ toDev' = Append(toDev, HostSegment("ACK", tx_seq, tx_ack, 0))
               /\ tx_acked' = tx_ack
      <4>1. Head(toHost).flags \notin {"RST", "FIN"} /\ TakeHeader /\ state = "CONNECTED"
            /\ tx_ack' = tx_ack
        BY <2>3 DEF RecvData, Arrives
      <4> QED BY <1>1, <1>4, <3>1, <4>1, HostWindows
    <3> QED BY <1>3, <2>3, <3>1 DEF RecvData
  <2>4. CASE RecvReset
    BY <1>3, <2>4 DEF RecvReset
  <2>5. CASE RecvNoConnection \/ AnonRstFails
    <3>1. state' \in {"FREED", "CRASHED"}
      BY <2>5 DEF RecvNoConnection, AnonRstFails, connVars
    <3> QED BY <1>2, <3>1
  <2> QED BY <1>5, <2>1, <2>2, <2>3, <2>4, <2>5 DEF UsbInput
<1>6. ASSUME UNCHANGED <<connVars, toDev, toHost, devVars>> PROVE Windows'
  BY <1>6 DEF Windows, HostTold, DeviceTold, Handshake, connVars, seqVars, devVars
<1>7. ASSUME NEW n, AfterWrite(n), state = "CONNECTED" PROVE Windows'
  <2>1. Takes0 /\ UNCHANGED devVars
    BY <1>7 DEF AfterWrite, Takes0
  <2>2. CASE UNCHANGED <<toDev, tx_acked>>
    BY <1>1, <1>7, <2>1, <2>2, HostWindows
  <2>3. ASSUME NEW m, toDev' = Append(toDev, HostSegment("ACK", tx_seq, tx_ack', m)),
               tx_acked' = tx_ack'
        PROVE  Windows'
    BY <1>1, <1>7, <2>1, <2>3, HostWindows
  <2> QED BY <1>3, <1>7, <2>2, <2>3 DEF AfterWrite
<1>8. CASE DeviceClientProcess
  BY <1>3, <1>7, <1>8 DEF DeviceClientProcess, ClientWriteFails
<1>9. CASE CheckTimeouts
  <2>1. Takes0 /\ UNCHANGED devVars /\ state = "CONNECTED" /\ tx_ack' = tx_ack
    BY <1>9 DEF CheckTimeouts, Takes0
  <2>2. CASE toDev' = Append(toDev, HostSegment("ACK", tx_seq, tx_ack, 0)) /\ tx_acked' = tx_ack
    BY <1>1, <2>1, <2>2, HostWindows
  <2> QED BY <1>3, <1>9, <2>2 DEF CheckTimeouts
<1>10. CASE ProcessSend \/ ClientStep \/ UNCHANGED vars
  BY <1>6, <1>10 DEF ProcessSend, ClientStep, ClientWrites, ClientReads, ClientCloses, vars
<1>11. CASE DevStep
  <2>1. ASSUME DevUnchanged PROVE UNCHANGED connVars /\ state' = state /\ tx_acked' = tx_acked
                                  /\ rx_ack' = rx_ack /\ rx_win' = rx_win
    BY <2>1 DEF DevUnchanged, connVars, seqVars
  <2>2. CASE DevAccepts
    <3>1. /\ dstate = "LISTENING" /\ toDev # <<>> /\ toDev' = Tail(toDev) /\ DevUnchanged
          /\ d_ack' = Head(toDev).ack /\ d_win' = Head(toDev).win * WinUnit
      BY <2>2 DEF DevAccepts
    <3>2. DeviceTold'
      BY <1>1, <2>1, <3>1, DeviceWindows DEF Windows
    <3>3. PICK f \in {"SYNACK", "RST", "FIN"} :
            /\ DevEmits(f, 0, d_rcv', 0)
            /\ dstate' = IF f = "SYNACK" THEN "SYN_RCVD" ELSE "CLOSED"
      BY <2>2 DEF DevAccepts
    <3>4. HostTold' /\ toHost' # <<>> /\ LastOf(toHost').flags = f
      BY <1>1, <3>3, EmitsWindows
    <3>5. state # "CONNECTED"
      <4>1. d_rcv = 0 /\ rx_ack <= d_rcv /\ (state = "CONNECTED" => rx_ack > 0) /\ rx_ack \in Nat
        BY <3>1 DEF IInv, Phases, Upstream, TypeOK
      <4> QED BY <4>1
    <3> QED BY <2>1, <3>1, <3>2, <3>3, <3>4, <3>5 DEF Windows, Handshake
  <2>3. CASE DevReceives
    <3>1. /\ dstate \in {"SYN_RCVD", "OPEN"} /\ toDev # <<>> /\ toDev' = Tail(toDev) /\ DevUnchanged
          /\ UNCHANGED <<toHost, d_told>>
      BY <2>3 DEF DevReceives
    <3>2. CASE Head(toDev).flags = "RST"
      <4>1. state \in {"FREED", "CRASHED"}
        BY <1>1, <3>1, <3>2 DEF IInv, Phases, NoRst
      <4> QED BY <1>2, <2>1, <3>1, <4>1
    <3>3. CASE Head(toDev).flags # "RST"
      <4>1. dstate' = "OPEN" /\ d_ack' = Head(toDev).ack /\ d_win' = Head(toDev).win * WinUnit
        BY <2>3, <3>3 DEF DevReceives
      <4>2. DeviceTold'
        BY <1>1, <2>1, <3>1, <4>1, DeviceWindows DEF Windows
      <4> QED BY <2>1, <3>1, <4>1, <4>2 DEF Windows, Handshake, HostTold
    <3> QED BY <3>2, <3>3
  <2>4. CASE DevDrops
    <3>1. dstate = "CLOSED" /\ DevUnchanged /\ UNCHANGED <<toHost, dstate, d_told>>
      BY <2>4 DEF DevDrops, devVars
    <3> QED BY <2>1, <3>1 DEF Windows, HostTold, DeviceTold, Handshake
  <2>5. CASE DevConsumes
    <3>1. DevUnchanged /\ UNCHANGED <<toDev, toHost, dstate, d_ack, d_win, d_told>>
      BY <2>5 DEF DevConsumes
    <3> QED BY <2>1, <3>1 DEF Windows, HostTold, DeviceTold, Handshake
  <2>6. CASE DevAcks \/ DevSends \/ DevCloses
    <3>1. /\ DevUnchanged /\ UNCHANGED <<toDev, d_ack, d_win>> /\ dstate = "OPEN"
          /\ \E f \in {"ACK", "RST", "FIN"}, n \in Int :
               /\ DevEmits(f, d_seq, d_rcv, n)
               /\ dstate' = IF f = "ACK" THEN "OPEN" ELSE "CLOSED"
      BY <2>6 DEF DevAcks, DevSends, DevCloses
    <3>2. PICK f \in {"ACK", "RST", "FIN"}, n \in Int :
            /\ DevEmits(f, d_seq, d_rcv, n)
            /\ dstate' = IF f = "ACK" THEN "OPEN" ELSE "CLOSED"
      BY <3>1
    <3>3. HostTold' /\ toHost' # <<>> /\ LastOf(toHost').flags = f
      BY <1>1, <3>2, EmitsWindows
    <3> QED BY <2>1, <3>1, <3>2, <3>3 DEF Windows, DeviceTold, Handshake
  <2> QED BY <1>11, <2>2, <2>3, <2>4, <2>5, <2>6 DEF DevStep
<1> QED BY <1>5, <1>8, <1>9, <1>10, <1>11 DEF Next, HostStep

\* A window that is a unit or more is told as one that is open.
LEMMA UnitsOf ==
  ASSUME NEW w \in Nat, WinUnit <= w
  PROVE  (w \div WinUnit) * WinUnit \in Nat /\ (w \div WinUnit) * WinUnit > 0
<1>1. WinUnit \in Nat \ {0}
  BY FlowAssumption
<1>2. \A x \in Nat, u \in Nat \ {0} : u <= x => x \div u \in Nat /\ x \div u > 0
  OBVIOUS
<1>3. \A k \in Nat, u \in Nat \ {0} : k > 0 => k * u \in Nat /\ k * u > 0
  OBVIOUS
<1> QED BY <1>1, <1>2, <1>3

\* The invariant of the two theorems below.
WInv == IInv /\ MaskInv /\ Windows

LEMMA WindowsAlways == Spec => []WInv
<1>1. Init => MaskInv /\ Windows
  <2>1. Init => MaskInv
    BY DEF Init, MaskInv
  <2>2. ASSUME Init PROVE Windows
    <3>1. /\ state = "CONNECTING" /\ dstate = "LISTENING" /\ toHost = <<>> /\ rx_ack = 0 /\ rx_win = 0
          /\ d_told = <<0, 0>> /\ toDev = <<HostSegment("SYN", 0, 0, 0)>> /\ tx_acked = 0
      BY <2>2 DEF Init
    <3>2. d_told[1] = 0 /\ d_told[2] * WinUnit = 0
      BY <3>1, FlowAssumption
    <3>3. toDev # <<>> /\ LastOf(toDev) = HostSegment("SYN", 0, 0, 0)
      BY <3>1 DEF LastOf
    <3> QED BY <3>1, <3>2, <3>3 DEF Windows, HostTold, DeviceTold, Handshake, HostSegment
  <2> QED BY <2>1, <2>2
<1> QED BY <1>1, InvInit, InvStep, MaskStep, WindowsStep, PTL DEF Spec, WInv

\* HostNeverStalls: the host, which sends no window probe, is told of every window
\* that opens again (update_connection, and what the device acknowledges).
THEOREM HostGoesOn == Spec => []HostNeverStalls
<1>1. WInv => HostNeverStalls
  <2> SUFFICES ASSUME WInv, WinUnit <= DevBuf, state = "CONNECTED", sendable = 0, ~UnderWay,
                      ~(dstate = "OPEN" /\ (d_told # DevAdvert(d_rcv, d_app) \/ d_app < d_rcv - 1))
               PROVE  FALSE
    BY DEF HostNeverStalls
  <2>1. TypeOK /\ Phases /\ Upstream /\ Counters /\ Wires
    BY TypeParts DEF WInv, IInv
  <2>2. toHost = <<>>
    BY DEF UnderWay
  <2>3. dstate # "CLOSED" /\ toDev = <<>>
    BY <2>2 DEF UnderWay, WInv, Windows, Handshake
  <2>4. dstate # "SYN_RCVD"
    BY <2>3 DEF WInv, Windows, Handshake
  <2>5. dstate # "LISTENING"
    <3>1. rx_ack > 0 /\ rx_ack <= d_rcv /\ rx_ack \in Nat
      BY <2>1 DEF Upstream, Counters
    <3>2. dstate = "LISTENING" => d_rcv = 0
      BY <2>1 DEF Phases
    <3> QED BY <3>1, <3>2
  <2>6. dstate = "OPEN"
    BY <2>1, <2>3, <2>4, <2>5 DEF TypeOK, DevStates
  <2>7. tx_seq > 0 /\ d_rcv > 0 /\ d_app < d_rcv /\ {tx_seq, d_rcv, d_app} \subseteq Nat
    BY <2>1, <2>6 DEF Phases, Upstream, Counters
  <2>8. d_rcv = tx_seq
    <3>1. Chain(toDev, d_rcv, HostNext)
      BY <2>1, <2>3 DEF Upstream
    <3>2. d_rcv = HostNext
      BY <2>3, <3>1 DEF Chain, SeqAt
    <3> QED BY <2>7, <3>2 DEF HostNext
  <2>9. d_rcv - 1 - d_app = 0
    BY <2>6, <2>7
  <2>10. d_told = <<d_rcv, DevBuf \div WinUnit>>
    <3>1. DevBuf - 0 = DevBuf
      BY FlowAssumption
    <3> QED BY <2>6, <2>9, <3>1 DEF DevAdvert
  <2>11. rx_ack = tx_seq /\ rx_win = (DevBuf \div WinUnit) * WinUnit
    <3>1. rx_ack = d_told[1] /\ rx_win = d_told[2] * WinUnit
      BY <2>2 DEF WInv, Windows, HostTold
    <3> QED BY <2>8, <2>10, <3>1
  <2>12. rx_win \in Nat /\ rx_win > 0
    BY <2>11, UnitsOf, FlowAssumption
  <2>13. sendable = Sendable(tx_seq, tx_seq, rx_win)
    BY <2>11 DEF WInv, MaskInv
  <2>14. (tx_seq - tx_seq) % SeqMod = 0
    <3>1. tx_seq - tx_seq = 0 /\ SeqMod \in Nat \ {0}
      BY <2>7, FlowAssumption
    <3> QED BY <3>1
  <2>15. Sendable(tx_seq, tx_seq, rx_win) > 0
    BY <2>12, <2>14, FlowAssumption DEF Sendable, Least
  <2> QED BY <2>13, <2>15
<1> QED BY <1>1, WindowsAlways, PTL

\* DeviceNeverStalls: an ACK that the host has put off is sent by
\* device_check_timeouts, and nothing else makes it put off what it has to tell.
THEOREM DeviceGoesOn == Spec => []DeviceNeverStalls
<1>1. WInv => DeviceNeverStalls
  <2> SUFFICES ASSUME WInv, WinUnit <= TxWin, state = "CONNECTED", dstate = "OPEN",
                      d_seq >= d_ack + d_win, ~UnderWay, ~(ib_size > 0), ~ack_pending
               PROVE  FALSE
    BY DEF DeviceNeverStalls
  <2>1. Phases /\ Downstream /\ Counters
    BY TypeParts DEF WInv, IInv
  <2>2. toHost = <<>> /\ toDev = <<>>
    BY DEF UnderWay
  <2>3. d_ack = tx_acked /\ d_win = (TxWin \div WinUnit) * WinUnit
    BY <2>2 DEF WInv, Windows, DeviceTold
  <2>4. d_win \in Nat /\ d_win > 0
    BY <2>3, UnitsOf, FlowAssumption
  <2>5. tx_acked = tx_ack
    BY DEF WInv, MaskInv
  <2>6. d_seq = rx_recvd + 1
    <3>1. Chain(toHost, rx_recvd + 1, d_seq)
      BY <2>1 DEF Downstream, HostExpects
    <3> QED BY <2>2, <3>1 DEF Chain, SeqAt
  <2>7. tx_ack + ib_size = rx_recvd + 1 /\ {tx_ack, ib_size, rx_recvd, d_seq} \subseteq Nat
    BY <2>1 DEF Downstream, Counters
  <2>8. ib_size = 0
    BY <2>7
  <2> QED BY <2>3, <2>4, <2>5, <2>6, <2>7, <2>8
<1> QED BY <1>1, WindowsAlways, PTL

-----------------------------------------------------------------------------
(***************************************************************************)
(* MuxFlow implements the two byte streams of TetherStream, for every size *)
(* of window, buffer, segment and transfer: every step of the handlers, of *)
(* the client program and of the device is a step of a stream, or changes  *)
(* neither.  That all that goes in comes out is liveness, and left to TLC. *)
(***************************************************************************)
\* What the streams need besides IInv: where the bytes are that have gone in and
\* have not come out, and that a client without a connection has no tunnel.
Balance ==
  /\ state = "CONNECTING" => got + sock = 0 /\ wrote = 0 /\ out = 0
  /\ state = "CONNECTED"  => /\ got + sock + ib_size <= rx_recvd
                             /\ wrote + 1 = out + tx_seq
  /\ state \in {"FREED", "CRASHED"} => cstate \in {"COMMAND", "CLOSED"}
  /\ got + sock = 0 \/ got + sock + 1 <= d_seq
  /\ HostNext <= 1 + wrote

Numbers ==
  {tx_seq, tx_ack, rx_recvd, ib_size, sock, got, out, wrote, d_seq, d_rcv, d_app} \subseteq Nat

LEMMA NumbersType == TypeOK => Numbers
  BY FlowAssumption DEF TypeOK, Numbers

\* A chain does not end before it starts.
LEMMA ChainOrder ==
  ASSUME NEW q \in Seq(Segment), NEW first \in Nat, NEW last \in Nat, Chain(q, first, last)
  PROVE  first <= last
<1>1. CASE q = <<>> \/ q[1].flags = "RST"
  BY <1>1 DEF Chain, SeqAt
<1>2. CASE q # <<>> /\ q[1].flags # "RST"
  <2>1. Head(q) = q[1]
    BY <1>2
  <2>2. first + Span(Head(q)) <= last
    BY <1>2, <2>1, ChainTail
  <2>3. Span(Head(q)) \in Nat
    BY <1>2, SegmentType
  <2> QED BY <2>2, <2>3
<1> QED BY <1>1, <1>2

\* What the host has received the device has sent.
LEMMA Received ==
  ASSUME IInv, state = "CONNECTED"
  PROVE  rx_recvd + 1 <= d_seq
<1>n. TypeOK
  BY DEF IInv
<1>1. toHost \in Seq(Segment) /\ d_seq \in Nat /\ rx_recvd + 1 \in Nat
  BY <1>n DEF TypeOK
<1>2. Chain(toHost, rx_recvd + 1, d_seq)
  BY DEF IInv, Downstream, HostExpects
<1> QED BY <1>1, <1>2, ChainOrder

\* The same, with the segment that is being taken.
LEMMA ReceivedMore ==
  ASSUME IInv, state = "CONNECTED", toHost # <<>>, Arrives.flags = "ACK"
  PROVE  Arrives.len \in Nat /\ rx_recvd + Arrives.len + 1 <= d_seq
<1>n. TypeOK
  BY DEF IInv
<1>1. toHost \in Seq(Segment) /\ d_seq \in Nat /\ rx_recvd + 1 \in Nat /\ rx_recvd \in Nat
  BY <1>n DEF TypeOK
<1>2. Chain(toHost, rx_recvd + 1, d_seq)
  BY DEF IInv, Downstream, HostExpects
<1>3. Arrives \in Segment /\ Arrives.len \in Nat /\ Span(Arrives) = Arrives.len
  BY <1>1, SegmentType DEF Arrives
<1>4. rx_recvd + 1 + Span(Arrives) <= d_seq
  BY <1>1, <1>2, ChainTail DEF Arrives
<1> QED BY <1>1, <1>3, <1>4

-----------------------------------------------------------------------------
(* Balance is kept. *)

LEMMA BalanceInit == ASSUME Init PROVE Balance
BY DEF Init, Balance, HostNext

\* connection_teardown gives the client no more than ib_buf holds.
LEMMA BalanceTorn ==
  ASSUME IInv', NEW st, NEW ib \in Nat, NEW sk \in Nat, NEW wire, Teardown(st, ib, sk, wire),
         got' = got, got \in Nat, d_seq' = d_seq, d_seq \in Nat, wrote' = wrote,
         got + sk + ib = 0 \/ got + sk + ib + 1 <= d_seq,
         HostNext' <= 1 + wrote
  PROVE  Balance'
<1>1. state' = "FREED" /\ cstate' \in {"COMMAND", "CLOSED"}
  BY DEF Teardown
<1>2. sock' \in Nat
  BY NumbersType DEF IInv, Numbers, TypeOK, FlowAssumption
<1>3. sock' <= sk + ib
  BY <1>2, FlowAssumption DEF Teardown, Least
<1>4. got + sock' = 0 \/ got + sock' + 1 <= d_seq
  <2>1. got + sock' \in Nat /\ got + sock' <= got + sk + ib
    <3>1. \A x \in Nat : x <= sk + ib => got + x \in Nat /\ got + x <= got + sk + ib
      OBVIOUS
    <3> QED BY <1>2, <1>3, <3>1
  <2>2. got + sk + ib \in Nat
    OBVIOUS
  <2> QED BY <2>1, <2>2
<1> QED BY <1>1, <1>4 DEF Balance

LEMMA BalanceStep == ASSUME IInv, Balance, [Next]_vars PROVE Balance'
<1> USE DEF Balance
<1>i. IInv'
  BY InvStep
<1>n. Numbers /\ Numbers'
  BY <1>i, NumbersType, PTL DEF IInv
<1>m. /\ got \in Nat /\ sock \in Nat /\ ib_size \in Nat /\ d_seq \in Nat /\ out \in Nat
      /\ wrote \in Nat /\ tx_seq \in Nat /\ rx_recvd \in Nat
      /\ out \in 0..SockCap /\ sendable \in Nat
  BY <1>n DEF Numbers, IInv, TypeOK
<1>c. ASSUME state = "CONNECTED"
      PROVE  /\ rx_recvd + 1 <= d_seq /\ tx_seq > 0 /\ HostNext = tx_seq
             /\ got + sock + ib_size <= rx_recvd /\ wrote + 1 = out + tx_seq
             /\ got + sock + ib_size + 1 <= d_seq
  <2>1. got + sock + ib_size <= rx_recvd /\ wrote + 1 = out + tx_seq /\ rx_recvd + 1 <= d_seq
    BY <1>c, Received
  <2>2. tx_seq > 0
    BY <1>c DEF IInv, Phases
  <2>3. HostNext = tx_seq
    BY <1>m, <2>2 DEF HostNext
  <2>4. got + sock + ib_size + 1 <= d_seq
    BY <1>m, <2>1
  <2> QED BY <2>1, <2>2, <2>3, <2>4
<1>g. state = "CONNECTING" => got + sock + ib_size = 0 /\ tx_seq = 0 /\ HostNext = 1
  BY <1>n DEF IInv, Phases, HostNext, Numbers
<1>1. CASE RecvSynAck
  <2>1. /\ state = "CONNECTING" /\ UNCHANGED <<got, out, wrote, d_seq>>
        /\ tx_seq' = tx_seq + 1 /\ rx_recvd' = Arrives.seq
    BY <1>1 DEF RecvSynAck, TakeHeader, devVars
  <2>2. tx_seq' = 1 /\ HostNext' = 1
    BY <1>g, <2>1 DEF HostNext
  <2>3. CASE Teardown("CONNECTING", ib_size, sock, toDev)
    BY <1>g, <1>i, <1>n, <2>1, <2>2, <2>3, BalanceTorn DEF Numbers
  <2>4. CASE state' = "CONNECTED" /\ UNCHANGED <<ib_size, sock>>
    BY <1>g, <1>n, <2>1, <2>2, <2>4 DEF Numbers
  <2> QED BY <1>1, <2>3, <2>4 DEF RecvSynAck
<1>2. CASE RecvRefusal
  <2>1. /\ UNCHANGED <<got, wrote, d_seq, tx_seq>> /\ state = "CONNECTING"
        /\ \E st : Teardown(st, ib_size, sock, toDev)
    BY <1>2 DEF RecvRefusal, TakeHeader, devVars
  <2>2. HostNext' = HostNext
    BY <2>1 DEF HostNext
  <2> QED BY <1>g, <1>i, <1>n, <2>1, <2>2, BalanceTorn DEF Numbers
<1>3. CASE RecvData
  <2>1. /\ UNCHANGED <<got, out, wrote, d_seq, tx_seq>> /\ state = "CONNECTED"
        /\ toHost # <<>> /\ Arrives.flags = "ACK"
    BY <1>3 DEF RecvData, TakeHeader, devVars
  <2>2. HostNext' = HostNext
    BY <2>1 DEF HostNext
  <2>3. PICK l \in Nat : l = Arrives.len /\ rx_recvd + l + 1 <= d_seq
    BY <2>1, ReceivedMore
  <2>4. got + sock + (ib_size + l) + 1 <= d_seq /\ ib_size + l \in Nat
    <3>1. got + sock + ib_size <= rx_recvd
      BY <1>c, <2>1
    <3> QED BY <1>m, <2>3, <3>1
  <2>5. CASE Teardown("CONNECTED", ib_size, sock, toDev)
    BY <1>c, <1>i, <1>n, <2>1, <2>2, <2>5, BalanceTorn DEF Numbers
  <2>6. CASE Teardown("CONNECTED", ib_size + l, sock, toDev)
    BY <1>i, <1>n, <2>1, <2>2, <2>4, <2>6, BalanceTorn DEF Numbers
  <2>7. CASE rx_recvd' = rx_recvd + l /\ ib_size' = ib_size + l /\ UNCHANGED <<state, cstate, sock>>
    <3>1. got + sock + (ib_size + l) <= rx_recvd + l
      BY <1>c, <1>m, <2>1
    <3>2. got + sock + 1 <= d_seq
      BY <1>c, <1>m, <2>1
    <3> QED BY <1>c, <2>1, <2>2, <2>7, <3>1, <3>2
  <2> QED BY <1>3, <2>3, <2>5, <2>6, <2>7 DEF RecvData
<1>4. CASE RecvReset
  <2>1. /\ UNCHANGED <<got, wrote, d_seq, tx_seq>> /\ state = "CONNECTED"
        /\ \E st : Teardown(st, ib_size, sock, toDev)
    BY <1>4 DEF RecvReset, TakeHeader, devVars
  <2>2. HostNext' = HostNext
    BY <2>1 DEF HostNext
  <2> QED BY <1>c, <1>i, <1>n, <2>1, <2>2, BalanceTorn DEF Numbers
<1>5. CASE RecvNoConnection \/ AnonRstFails \/ UNCHANGED vars
  BY <1>5 DEF RecvNoConnection, AnonRstFails, vars, connVars, seqVars, clientVars, appVars, devVars, HostNext
<1>6. CASE ProcessSend
  <2>1. state \notin {"FREED", "CRASHED"} /\ UNCHANGED <<connVars, appVars, devVars>>
    BY <1>6 DEF ProcessSend
  <2> QED BY <2>1 DEF connVars, seqVars, appVars, devVars, HostNext
<1>7. CASE DeviceClientProcess
  <2>1. state = "CONNECTED"
    BY <1>7 DEF DeviceClientProcess
  <2>2. CASE ClientWriteFails
    <3>1. /\ UNCHANGED <<got, wrote, d_seq, tx_seq>>
          /\ Teardown("CONNECTED", ib_size, sock, toDev)
      BY <2>2 DEF ClientWriteFails, seqVars, devVars
    <3>2. HostNext' = HostNext
      BY <3>1 DEF HostNext
    <3> QED BY <1>c, <1>i, <1>n, <2>1, <3>1, <3>2, BalanceTorn DEF Numbers
  <2>3. ASSUME NEW n \in Nat, n <= ib_size, AfterWrite(n) PROVE Balance'
    <3>1. UNCHANGED <<got, wrote, d_seq, rx_recvd>>
      BY <2>3 DEF AfterWrite, devVars
    <3>2. ib_size - n \in Nat /\ sock + n \in Nat /\ got + (sock + n) + (ib_size - n) + 1 <= d_seq
      BY <1>c, <1>n, <2>1, <2>3 DEF Numbers
    <3>3. CASE tx_seq' = tx_seq /\ Teardown("CONNECTED", ib_size - n, sock + n, toDev)
      <4>1. HostNext' = HostNext
        BY <3>3 DEF HostNext
      <4> QED BY <1>i, <1>n, <3>1, <3>2, <3>3, <4>1, BalanceTorn DEF Numbers
    <3>4. CASE /\ ib_size' = ib_size - n /\ sock' = sock + n /\ UNCHANGED <<state, cstate>>
               /\ \E m \in Nat : m <= out /\ out' = out - m /\ tx_seq' = tx_seq + m
      <4>1. PICK m \in Nat : m <= out /\ out' = out - m /\ tx_seq' = tx_seq + m
        BY <3>4
      <4>2. HostNext' = tx_seq' /\ tx_seq' <= 1 + wrote /\ wrote + 1 = out' + tx_seq'
        BY <1>c, <1>n, <2>1, <4>1 DEF Numbers, HostNext
      <4>3. got + sock' + ib_size' <= rx_recvd /\ got + sock' + 1 <= d_seq
        BY <1>n, <2>1, <2>3, <3>2, <3>4 DEF Numbers
      <4> QED BY <2>1, <3>1, <3>4, <4>2, <4>3
    <3>5. \/ tx_seq' = tx_seq /\ Teardown("CONNECTED", ib_size - n, sock + n, toDev)
          \/ /\ ib_size' = ib_size - n /\ sock' = sock + n /\ UNCHANGED <<state, cstate>>
             /\ \E m \in Nat : m <= out /\ out' = out - m /\ tx_seq' = tx_seq + m
      <4>1. CASE "IN" \in Ready /\ sendable > 0
        <5>1. \A m \in 1..Least(out, sendable) : m \in Nat /\ m <= out
          BY <1>m DEF Least
        <5> QED BY <2>3, <4>1, <5>1 DEF AfterWrite
      <4>2. CASE ~("IN" \in Ready /\ sendable > 0)
        <5>1. out' = out - 0 /\ tx_seq' = tx_seq + 0 /\ 0 <= out
          BY <1>m, <2>3, <4>2 DEF AfterWrite
        <5> QED BY <2>3, <4>2, <5>1 DEF AfterWrite
      <4> QED BY <4>1, <4>2
    <3> QED BY <3>3, <3>4, <3>5
  <2>4. \A n \in 1..Least(ib_size, SockCap - sock) : n \in Nat /\ n <= ib_size
    BY <1>n, FlowAssumption DEF Least, Numbers, IInv, TypeOK
  <2>5. 0 <= ib_size
    BY <1>n DEF Numbers
  <2> QED BY <1>7, <2>2, <2>3, <2>4, <2>5 DEF DeviceClientProcess
<1>8. CASE CheckTimeouts
  <2>1. UNCHANGED <<got, out, wrote, d_seq, tx_seq, rx_recvd>> /\ state = "CONNECTED"
    BY <1>8 DEF CheckTimeouts, devVars
  <2>2. HostNext' = HostNext
    BY <2>1 DEF HostNext
  <2>3. CASE Teardown("CONNECTED", ib_size, sock, toDev)
    BY <1>c, <1>i, <1>n, <2>1, <2>2, <2>3, BalanceTorn DEF Numbers
  <2>4. CASE UNCHANGED <<state, cstate, ib_size, sock>>
    BY <2>1, <2>2, <2>4
  <2> QED BY <1>8, <2>3, <2>4 DEF CheckTimeouts
<1>9. CASE ClientStep
  <2>1. /\ UNCHANGED <<connVars, cstate, d_seq>> /\ HostNext' = HostNext
    BY <1>9 DEF ClientStep, ClientWrites, ClientReads, ClientCloses, clientVars, devVars,
       connVars, seqVars, HostNext
  <2>2. CASE ClientWrites
    <3>1. state = "CONNECTED"
      BY <2>2 DEF ClientWrites, IInv, Phases, TypeOK, ConnStates
    <3>2. /\ wrote' = wrote + 1 /\ out' = out + 1
          /\ UNCHANGED <<state, got, sock, ib_size, rx_recvd, tx_seq>>
      BY <2>1, <2>2 DEF ClientWrites, connVars, seqVars
    <3>3. wrote' + 1 = out' + tx_seq /\ HostNext <= 1 + wrote'
      BY <1>c, <1>m, <3>1, <3>2
    <3> QED BY <2>1, <3>1, <3>2, <3>3
  <2>3. CASE ClientReads
    <3>1. UNCHANGED <<out, wrote>> /\ got' + sock' = got + sock
          /\ got' + sock' + ib_size = got + sock + ib_size
      BY <1>n, <2>3 DEF ClientReads, Numbers
    <3> QED BY <2>1, <3>1 DEF connVars, seqVars
  <2>4. CASE ClientCloses
    BY <2>1, <2>4 DEF ClientCloses, connVars, seqVars
  <2> QED BY <1>9, <2>2, <2>3, <2>4 DEF ClientStep
<1>10. CASE DevStep
  <2>1. UNCHANGED <<connVars, clientVars, appVars>> /\ HostNext' = HostNext
    BY <1>10 DEF DevStep, DevUnchanged, DevAccepts, DevReceives, DevDrops, DevConsumes,
       DevAcks, DevSends, DevCloses, HostNext, connVars, seqVars
  <2>2. d_seq <= d_seq'
    <3>1. CASE DevAccepts
      BY <1>n, <3>1 DEF DevAccepts, IInv, Phases, Numbers
    <3>2. CASE DevSends
      BY <1>n, <3>2, FlowAssumption DEF DevSends, Numbers
    <3>3. CASE d_seq' = d_seq
      BY <1>n, <3>3 DEF Numbers
    <3> QED BY <1>10, <3>1, <3>2, <3>3 DEF DevStep, DevReceives, DevDrops, DevConsumes,
               DevAcks, DevCloses, devVars
  <2> QED BY <1>n, <2>1, <2>2 DEF connVars, seqVars, clientVars, appVars, Numbers
<1> QED BY <1>1, <1>2, <1>3, <1>4, <1>5, <1>6, <1>7, <1>8, <1>9, <1>10
        DEF Next, HostStep, UsbInput

-----------------------------------------------------------------------------
(* The refinement. *)

DownIn == IF d_seq = 0 THEN 0 ELSE d_seq - 1
IsOpen == state \notin {"FREED", "CRASHED"} /\ capp = "OPEN"

LEMMA StreamStart == ASSUME Init PROVE Stream!StreamInit
BY DEF Init, Stream!StreamInit

LEMMA StreamStep ==
  ASSUME IInv, Balance, [Next]_vars
  PROVE  [Stream!StreamNext]_(Stream!stream)
<1>n. Numbers /\ IInv'
  BY NumbersType, InvStep DEF IInv
<1> USE DEF Stream!stream, Stream!StreamNext
\* The streams stand still; the connection may end.
<1>b. ASSUME UNCHANGED <<d_seq, got, wrote, d_app, capp>>, state \in {"FREED", "CRASHED"} => state' \in {"FREED", "CRASHED"}
      PROVE  [Stream!StreamNext]_(Stream!stream)
  BY <1>b DEF Stream!Break
<1>1. CASE HostStep \/ UNCHANGED vars
  <2>1. UNCHANGED <<d_seq, got, wrote, d_app, capp>>
    BY <1>1 DEF HostStep, UsbInput, RecvSynAck, RecvRefusal, RecvData, RecvReset, TakeHeader,
       RecvNoConnection, AnonRstFails, ProcessSend, DeviceClientProcess, ClientWriteFails, AfterWrite,
       CheckTimeouts, vars, appVars, devVars
  <2>2. state \in {"FREED", "CRASHED"} => state' \in {"FREED", "CRASHED"}
    BY <1>1 DEF HostStep, UsbInput, RecvSynAck, RecvRefusal, RecvData, RecvReset,
       RecvNoConnection, AnonRstFails, ProcessSend, DeviceClientProcess, CheckTimeouts, vars, connVars
  <2> QED BY <1>b, <2>1, <2>2
<1>2. CASE ClientWrites
  <2>1. /\ UNCHANGED <<d_seq, got, d_app, state, capp>> /\ capp = "OPEN"
        /\ wrote' = wrote + 1 /\ out < SockCap
    BY <1>2 DEF ClientWrites, connVars, devVars
  <2>2. state = "CONNECTED"
    BY <1>2 DEF ClientWrites, IInv, Phases, TypeOK, ConnStates, Balance
  <2>3. wrote + 1 <= d_app + (DevBuf + SockCap)
    <3>1. wrote + 1 = out + tx_seq /\ tx_seq <= 1 + d_app + DevBuf
      BY <2>2 DEF IInv, Upstream, Balance
    <3> QED BY <1>n, <2>1, <3>1, FlowAssumption DEF Numbers
  <2>4. wrote' > wrote
    BY <1>n, <2>1 DEF Numbers
  <2> QED BY <2>1, <2>2, <2>3, <2>4 DEF Stream!ClientSends
<1>3. CASE ClientReads
  <2>1. UNCHANGED <<d_seq, wrote, d_app, state, capp>> /\ got' = got + 1 /\ sock > 0
    BY <1>3 DEF ClientReads, connVars, devVars
  <2>2. got + 1 <= DownIn /\ DownIn \in Nat
    BY <1>n, <2>1 DEF Balance, DownIn, Numbers
  <2>3. got < DownIn /\ got' \in (got + 1)..DownIn
    BY <1>n, <2>1, <2>2 DEF Numbers
  <2> QED BY <2>1, <2>3 DEF Stream!ClientReceives, DownIn
<1>4. CASE ClientCloses
  BY <1>4 DEF ClientCloses, Stream!Break, connVars, devVars
<1>5. CASE DevAccepts
  BY <1>5 DEF DevAccepts, DevUnchanged, IInv, Phases, connVars, appVars
<1>6. CASE DevReceives \/ DevDrops \/ DevAcks \/ DevCloses
  BY <1>6 DEF DevReceives, DevDrops, DevAcks, DevCloses, DevUnchanged, connVars, appVars, devVars
<1>7. CASE DevConsumes
  <2>1. UNCHANGED <<d_seq, got, wrote, state, capp>> /\ d_app' = d_app + 1 /\ d_app < d_rcv - 1
    BY <1>7 DEF DevConsumes, DevUnchanged, connVars, appVars
  <2>2. d_rcv <= 1 + wrote
    BY <1>n DEF IInv, Upstream, Balance, Numbers, HostNext
  <2>3. d_app < wrote /\ d_app' \in (d_app + 1)..wrote
    BY <1>n, <2>1, <2>2 DEF Numbers
  <2> QED BY <2>1, <2>3 DEF Stream!DeviceReceives
<1>8. CASE DevSends
  <2>1. UNCHANGED <<d_app, got, wrote, state, capp>>
    BY <1>8 DEF DevSends, DevUnchanged, connVars, appVars
  <2>2. PICK n \in Nat : n > 0 /\ d_seq' = d_seq + n /\ d_seq + n <= d_ack + d_win
    BY <1>8, <1>n, FlowAssumption DEF DevSends, Numbers
  <2>3. d_seq > 0
    BY <1>8 DEF DevSends, IInv, Phases
  <2>4. d_ack <= 1 + got + sock /\ d_win <= TxWin /\ sock <= SockCap
        /\ {d_ack, d_win} \subseteq Nat
    BY <1>n, FlowAssumption DEF IInv, Downstream, TypeOK, Numbers
  <2>5. DownIn' > DownIn /\ DownIn' <= got + (TxWin + SockCap)
    BY <1>n, <2>2, <2>3, <2>4, FlowAssumption DEF DownIn, Numbers
  <2> QED BY <2>1, <2>5 DEF Stream!DeviceSends, DownIn
<1> QED BY <1>1, <1>2, <1>3, <1>4, <1>5, <1>6, <1>7, <1>8 DEF Next, ClientStep, DevStep

\* An established CONNECT is two byte streams: nothing is lost, repeated or reordered
\* while it is open, and no more is ever in between than the window told to the device
\* and the client's socket hold, or the device's buffer and that socket.
THEOREM ImplementsStreams == Spec => Stream!StreamSafe
<1>1. Init => IInv /\ Balance
  BY InvInit, BalanceInit
<1>2. IInv /\ Balance /\ [Next]_vars => IInv' /\ Balance'
  BY InvStep, BalanceStep
<1>3. Init => Stream!StreamInit
  BY StreamStart
<1>4. IInv /\ Balance /\ [Next]_vars => [Stream!StreamNext]_(Stream!stream)
  BY StreamStep
<1> QED BY <1>1, <1>2, <1>3, <1>4, PTL DEF Spec, Stream!StreamSafe
=============================================================================
