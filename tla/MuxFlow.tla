------------------------------ MODULE MuxFlow ------------------------------
(***************************************************************************)
(* One tethered TCP connection, end to end: the struct mux_connection of   *)
(* usbmuxd/src/device.c between the socket of the client that asked for it *)
(* and the TCP stack of the device at the other end of the USB pipe.       *)
(*                                                                         *)
(* The daemon is single-threaded here (main_loop): each action below is    *)
(* one handler run to completion.  The client program, its socket buffers, *)
(* the USB pipe and the device are external.  Counters are the absolute    *)
(* stream positions; the code keeps them in uint32_t, and the one place    *)
(* where that shows, the subtraction in update_connection, is taken modulo *)
(* SeqMod.                                                                 *)
(***************************************************************************)
EXTENDS Integers, Sequences

CONSTANTS
  TxWin,       \* receive window the host advertises      (131072)
  InCap,       \* CONN_INBUF_SIZE, capacity of ib_buf      (262144)
  MaxPayload,  \* cap on one segment: min(ob_capacity, max_payload)
  WinUnit,     \* granularity of th_win on the wire        (1 << 8)
  SeqMod,      \* size of the sequence space               (2^32)
  DevBuf,      \* receive buffer of the device's TCP stack
  SockCap,     \* capacity of each direction of the client's socket
  MaxIn,       \* bound: bytes the device's application produces
  MaxOut       \* bound: bytes the client program produces

ASSUME FlowAssumption ==
  /\ TxWin \in Nat /\ InCap \in Nat /\ TxWin <= InCap
  /\ WinUnit \in Nat \ {0}
  /\ MaxPayload \in Nat \ {0} /\ SockCap \in Nat \ {0}
  /\ DevBuf \in Nat /\ SeqMod \in Nat /\ DevBuf + 1 < SeqMod
  /\ MaxIn \in Nat /\ MaxOut \in Nat

VARIABLES
  \* struct mux_connection
  state, tx_seq, tx_ack, tx_acked, rx_recvd, rx_ack, rx_win,
  sendable, ib_size, ack_pending,
  \* struct mux_client
  cstate, events, devents,
  \* the client program and its socket
  capp, sock, got, out, wrote,
  \* the USB pipe, one FIFO each way
  toDev, toHost,
  \* the device's TCP stack and application
  dstate, d_seq, d_rcv, d_app, d_ack, d_win, d_told

seqVars    == <<tx_seq, tx_ack, tx_acked, rx_recvd, rx_ack, rx_win>>
connVars   == <<state, seqVars, sendable, ib_size, ack_pending>>
clientVars == <<cstate, events, devents>>
appVars    == <<capp, sock, got, out, wrote>>
devVars    == <<dstate, d_seq, d_rcv, d_app, d_ack, d_win, d_told>>
vars       == <<connVars, clientVars, appVars, toDev, toHost, devVars>>

ConnStates   == {"CONNECTING", "CONNECTED", "FREED", "CRASHED"}
ClientStates == {"COMMAND", "CONNECTING1", "CONNECTING2", "CONNECTED", "CLOSED"}
DevStates    == {"LISTENING", "SYN_RCVD", "OPEN", "CLOSED"}
Flags        == {"SYN", "SYNACK", "ACK", "FIN", "RST"}
Segment      == [flags : Flags, seq : Nat, ack : Nat, win : Nat, len : Nat]
Poll         == {"IN", "OUT"}

Least(a, b) == IF a < b THEN a ELSE b
Span(seg)   == seg.len + (IF seg.flags \in {"SYN", "SYNACK"} THEN 1 ELSE 0)

(***************************************************************************)
(* What the code computes.                                                 *)
(***************************************************************************)

\* Mutant of HostSegment: acknowledge what was received, delivered or not.
HostSegmentAcksReceipt(flags, seq, ack, len) ==
  [flags |-> flags, seq |-> seq, ack |-> ack + ib_size,
   win |-> TxWin \div WinUnit, len |-> len]

\* Mutant of HostSegment: number a segment by the byte after it.
HostSegmentSeqAfter(flags, seq, ack, len) ==
  [flags |-> flags, seq |-> seq + len, ack |-> ack,
   win |-> TxWin \div WinUnit, len |-> len]

\* send_tcp: the segment put on the wire for the given counters.
HostSegment(flags, seq, ack, len) ==
  [flags |-> flags, seq |-> seq, ack |-> ack, win |-> TxWin \div WinUnit, len |-> len]

\* Mutant of Sendable: the whole window, forgetting what is already on its way.
SendableWholeWindow(seq, ack, win) == Least(win, MaxPayload)

\* update_connection: how much more the device's window lets the host send.
Sendable(seq, ack, win) ==
  LET sent == (seq - ack) % SeqMod
  IN  IF win > sent THEN Least(win - sent, MaxPayload) ELSE 0

\* Mutant of UpdateConnection: the client keeps the mask it had.
UpdateConnectionKeepsMask(ev) ==
  /\ sendable' = Sendable(tx_seq', rx_ack', rx_win')
  /\ ack_pending' = (tx_acked' # tx_ack')
  /\ devents' = (IF sendable' > 0 THEN {"IN"} ELSE {}) \cup
                (IF ib_size' > 0 THEN {"OUT"} ELSE {})
  /\ events' = ev

\* Mutant of UpdateConnection: an acknowledgement is only due while data is kept.
UpdateConnectionAckLost(ev) ==
  /\ sendable' = Sendable(tx_seq', rx_ack', rx_win')
  /\ ack_pending' = (tx_acked' # tx_ack' /\ ib_size' > 0)
  /\ devents' = (IF sendable' > 0 THEN {"IN"} ELSE {}) \cup
                (IF ib_size' > 0 THEN {"OUT"} ELSE {})
  /\ events' = IF cstate' = "CONNECTED" THEN devents' ELSE ev

\* update_connection, once the counters have their new values; ev is the event
\* mask the client is left with when client_set_events must not touch it.
UpdateConnection(ev) ==
  /\ sendable' = Sendable(tx_seq', rx_ack', rx_win')
  /\ ack_pending' = (tx_acked' # tx_ack')
  /\ devents' = (IF sendable' > 0 THEN {"IN"} ELSE {}) \cup
                (IF ib_size' > 0 THEN {"OUT"} ELSE {})
  /\ events' = IF cstate' = "CONNECTED" THEN devents' ELSE ev

\* Mutant of Teardown: the flush counts on the client's socket to take everything.
TeardownFlushesAll(st, ib, sk, wire) ==
  /\ state' = "FREED" /\ toDev' = wire
  /\ IF st \in {"REFUSED", "CONNECTING"}
       THEN /\ cstate' = "COMMAND" /\ events' = events \cup {"OUT"}
            /\ ib_size' = ib /\ sock' = sk
       ELSE /\ cstate' = "CLOSED" /\ events' = events
            /\ ib_size' = 0 /\ sock' = sk + ib
  /\ UNCHANGED <<sendable, ack_pending, devents>>

\* connection_teardown in connection state st, with ib bytes in ib_buf, sk bytes
\* in the client's socket and the given segments queued to the device.  The RST
\* may fail to be sent; the flush hands the client what its socket takes.
\* (conn->events has POLLOUT whenever ib_buf is not empty, see EventsMatch.)
Teardown(st, ib, sk, wire) ==
  /\ state' = "FREED"
  /\ IF st \in {"REFUSED", "DYING"}
       THEN toDev' = wire
       ELSE toDev' \in {wire, Append(wire, HostSegment("RST", tx_seq', tx_ack', 0))}
  /\ IF st \in {"REFUSED", "CONNECTING"}
       THEN /\ cstate' = "COMMAND" /\ events' = events \cup {"OUT"}
            /\ ib_size' = ib /\ sock' = sk
       ELSE LET n == IF cstate = "CONNECTED" /\ capp = "OPEN"
                       THEN Least(ib, SockCap - sk) ELSE 0
            IN  /\ cstate' = "CLOSED" /\ events' = events
                /\ ib_size' = ib - n /\ sock' = sk + n
  /\ UNCHANGED <<sendable, ack_pending, devents>>

(***************************************************************************)
(* device_tcp_input: the segment at the head of the USB pipe.              *)
(***************************************************************************)

Arrives == Head(toHost)

TakeHeader ==
  /\ toHost # <<>> /\ toHost' = Tail(toHost)
  /\ rx_ack' = Arrives.ack
  /\ rx_win' = Arrives.win * WinUnit
  /\ UNCHANGED <<capp, got, out, wrote, devVars>>

\* SYN|ACK in CONN_CONNECTING: the connection is up and the client told so.
RecvSynAck ==
  /\ state = "CONNECTING" /\ TakeHeader /\ Arrives.flags = "SYNACK"
  /\ tx_seq' = tx_seq + 1 /\ tx_ack' = tx_ack + 1
  /\ rx_recvd' = Arrives.seq
  /\ \/ /\ toDev' = Append(toDev, HostSegment("ACK", tx_seq', tx_ack', 0))
        /\ tx_acked' = tx_ack'
        /\ state' = "CONNECTED" /\ cstate' = "CONNECTING2"
        /\ UNCHANGED <<ib_size, sock>>
        /\ UpdateConnection({"OUT"})
     \/ /\ UNCHANGED tx_acked
        /\ Teardown("CONNECTING", ib_size, sock, toDev)

\* Anything else in CONN_CONNECTING refuses the connection.
RecvRefusal ==
  /\ state = "CONNECTING" /\ TakeHeader /\ Arrives.flags # "SYNACK"
  /\ UNCHANGED <<tx_seq, tx_ack, tx_acked, rx_recvd>>
  /\ Teardown(IF Arrives.flags = "RST" THEN "REFUSED" ELSE "CONNECTING",
              ib_size, sock, toDev)

\* connection_device_input followed by send_tcp_ack.
RecvData ==
  /\ state = "CONNECTED" /\ TakeHeader /\ Arrives.flags = "ACK"
  /\ UNCHANGED <<tx_seq, tx_ack>>
  /\ IF ib_size + Arrives.len > InCap
       THEN /\ UNCHANGED <<tx_acked, rx_recvd>>
            /\ Teardown("CONNECTED", ib_size, sock, toDev)
       ELSE /\ rx_recvd' = rx_recvd + Arrives.len
            /\ \/ /\ ib_size' = ib_size + Arrives.len
                  /\ toDev' = Append(toDev, HostSegment("ACK", tx_seq, tx_ack, 0))
                  /\ tx_acked' = tx_ack
                  /\ UNCHANGED <<state, cstate, sock>>
                  /\ UpdateConnection(events)
               \/ /\ UNCHANGED tx_acked
                  /\ Teardown("CONNECTED", ib_size + Arrives.len, sock, toDev)

\* Any other flags in CONN_CONNECTED end the connection.
RecvReset ==
  /\ state = "CONNECTED" /\ TakeHeader /\ Arrives.flags # "ACK"
  /\ UNCHANGED <<tx_seq, tx_ack, tx_acked, rx_recvd>>
  /\ Teardown(IF Arrives.flags = "RST" THEN "DYING" ELSE "CONNECTED",
              ib_size, sock, toDev)

\* No connection on these ports: answer with an anonymous RST.
RecvNoConnection ==
  /\ state = "FREED" /\ toHost # <<>> /\ toHost' = Tail(toHost)
  /\ toDev' = IF Arrives.flags = "RST" THEN toDev
              ELSE Append(toDev, [flags |-> "RST", seq |-> 0, ack |-> Arrives.seq,
                                  win |-> 0, len |-> 0])
  /\ UNCHANGED <<connVars, clientVars, appVars, devVars>>

\* It cannot be sent: the log line that says so asks the connection there is not for
\* its device, and the daemon is gone.
AnonRstFails ==
  /\ state = "FREED" /\ toHost # <<>> /\ Arrives.flags # "RST"
  /\ state' = "CRASHED"
  /\ UNCHANGED <<seqVars, sendable, ib_size, ack_pending, clientVars, appVars, toDev, toHost,
                 devVars>>

(***************************************************************************)
(* main_loop's work for the client and for the ACK timer.                  *)
(***************************************************************************)

\* The events poll() reports among those asked for.  Once the client program
\* has closed its end, both directions are ready (EOF, EPIPE).
Ready == {e \in events : \/ capp = "CLOSED"
                         \/ e = "IN" /\ out > 0
                         \/ e = "OUT" /\ sock < SockCap}

\* process_send: the CONNECT result has gone out, the tunnel opens.
ProcessSend ==
  /\ cstate = "CONNECTING2" /\ "OUT" \in Ready
  /\ cstate' = "CONNECTED" /\ events' = devents
  /\ UNCHANGED <<connVars, devents, appVars, toDev, toHost, devVars>>

\* Mutant of AfterWrite: a read that returns 0 is not taken for the end.
AfterWriteIgnoresEof(n) ==
  /\ tx_ack' = tx_ack + n
  /\ UNCHANGED <<capp, got, wrote, toHost, devVars, rx_recvd, rx_ack, rx_win>>
  /\ ib_size' = ib_size - n /\ sock' = sock + n
  /\ \E m \in 0..Least(out, sendable) :
       /\ "IN" \notin Ready => m = 0
       /\ out' = out - m /\ tx_seq' = tx_seq + m
       /\ IF m > 0
            THEN /\ toDev' = Append(toDev, HostSegment("ACK", tx_seq, tx_ack', m))
                 /\ tx_acked' = tx_ack'
            ELSE UNCHANGED <<toDev, tx_acked>>
  /\ UNCHANGED <<state, cstate>>
  /\ UpdateConnection(events)

\* device_client_process with n bytes written to the client before the read.
AfterWrite(n) ==
  /\ tx_ack' = tx_ack + n
  /\ UNCHANGED <<capp, got, wrote, toHost, devVars, rx_recvd, rx_ack, rx_win>>
  /\ IF "IN" \in Ready /\ sendable > 0
       THEN IF out = 0
         THEN /\ UNCHANGED <<tx_seq, tx_acked, out>>
              /\ Teardown("CONNECTED", ib_size - n, sock + n, toDev)
         ELSE \E m \in 1..Least(out, sendable) :
                /\ out' = out - m
                /\ \/ /\ toDev' = Append(toDev, HostSegment("ACK", tx_seq, tx_ack', m))
                      /\ tx_acked' = tx_ack' /\ tx_seq' = tx_seq + m
                      /\ ib_size' = ib_size - n /\ sock' = sock + n
                      /\ UNCHANGED <<state, cstate>>
                      /\ UpdateConnection(events)
                   \/ /\ UNCHANGED <<tx_seq, tx_acked>>
                      /\ Teardown("CONNECTED", ib_size - n, sock + n, toDev)
       ELSE /\ ib_size' = ib_size - n /\ sock' = sock + n
            /\ UNCHANGED <<state, cstate, tx_seq, tx_acked, out, toDev>>
            /\ UpdateConnection(events)

ClientWriteFails ==
  /\ capp = "CLOSED"
  /\ UNCHANGED <<seqVars, capp, got, out, wrote, toHost, devVars>>
  /\ Teardown("CONNECTED", ib_size, sock, toDev)

DeviceClientProcess ==
  /\ state = "CONNECTED" /\ cstate = "CONNECTED" /\ Ready # {}
  /\ IF "OUT" \in Ready /\ ib_size > 0
       THEN \/ ClientWriteFails
            \/ /\ capp = "OPEN"
               /\ \E n \in 1..Least(ib_size, SockCap - sock) : AfterWrite(n)
       ELSE AfterWrite(0)

\* device_check_timeouts runs when poll() timed out with nothing to report; a
\* client that hung up is always reported (POLLHUP), whatever its mask.
PollTimesOut == Ready = {} /\ capp = "OPEN"

CheckTimeouts ==
  /\ state = "CONNECTED" /\ ack_pending /\ PollTimesOut
  /\ UNCHANGED <<tx_seq, tx_ack, rx_recvd, rx_ack, rx_win>>
  /\ UNCHANGED <<capp, got, out, wrote, toHost, devVars>>
  /\ \/ /\ toDev' = Append(toDev, HostSegment("ACK", tx_seq, tx_ack, 0))
        /\ tx_acked' = tx_ack
        /\ UNCHANGED <<state, cstate, ib_size, sock>>
        /\ UpdateConnection(events)
     \/ /\ UNCHANGED tx_acked
        /\ Teardown("CONNECTED", ib_size, sock, toDev)

(***************************************************************************)
(* The client program (external).                                          *)
(***************************************************************************)

ClientWrites ==
  /\ capp = "OPEN" /\ cstate = "CONNECTED" /\ wrote < MaxOut /\ out < SockCap
  /\ wrote' = wrote + 1 /\ out' = out + 1
  /\ UNCHANGED <<connVars, clientVars, capp, sock, got, toDev, toHost, devVars>>

ClientReads ==
  /\ capp = "OPEN" /\ sock > 0
  /\ sock' = sock - 1 /\ got' = got + 1
  /\ UNCHANGED <<connVars, clientVars, capp, out, wrote, toDev, toHost, devVars>>

ClientCloses ==
  /\ capp = "OPEN" /\ cstate = "CONNECTED"
  /\ capp' = "CLOSED"
  /\ UNCHANGED <<connVars, clientVars, sock, got, out, wrote, toDev, toHost, devVars>>

(***************************************************************************)
(* The device (external): a TCP stack that respects the host's window and  *)
(* an application that consumes what arrives.  Its first sequence number   *)
(* is 0: the host takes that for granted when it increments tx_ack.        *)
(***************************************************************************)

DevAdvert(rcv, app) == <<rcv, (DevBuf - (rcv - 1 - app)) \div WinUnit>>

DevEmits(flags, seq, rcv, len) ==
  LET adv == DevAdvert(rcv, d_app)
  IN  /\ toHost' = Append(toHost, [flags |-> flags, seq |-> seq, ack |-> adv[1],
                                   win |-> adv[2], len |-> len])
      /\ d_told' = adv

DevUnchanged == UNCHANGED <<connVars, clientVars, appVars>>

DevAccepts ==
  /\ dstate = "LISTENING" /\ toDev # <<>> /\ Head(toDev).flags = "SYN"
  /\ toDev' = Tail(toDev)
  /\ DevUnchanged /\ UNCHANGED d_app
  /\ d_rcv' = Head(toDev).seq + 1
  /\ d_ack' = Head(toDev).ack /\ d_win' = Head(toDev).win * WinUnit
  /\ \/ dstate' = "SYN_RCVD" /\ d_seq' = 1 /\ DevEmits("SYNACK", 0, d_rcv', 0)
     \/ dstate' = "CLOSED" /\ d_seq' = 0 /\ \E f \in {"RST", "FIN"} : DevEmits(f, 0, d_rcv', 0)

DevReceives ==
  /\ dstate \in {"SYN_RCVD", "OPEN"} /\ toDev # <<>>
  /\ toDev' = Tail(toDev)
  /\ DevUnchanged /\ UNCHANGED <<toHost, d_seq, d_app, d_told>>
  /\ IF Head(toDev).flags = "RST"
       THEN dstate' = "CLOSED" /\ UNCHANGED <<d_rcv, d_ack, d_win>>
       ELSE /\ dstate' = "OPEN"
            /\ d_rcv' = d_rcv + Head(toDev).len
            /\ d_ack' = Head(toDev).ack /\ d_win' = Head(toDev).win * WinUnit

DevDrops ==
  /\ dstate = "CLOSED" /\ toDev # <<>> /\ toDev' = Tail(toDev)
  /\ DevUnchanged /\ UNCHANGED <<toHost, devVars>>

DevConsumes ==
  /\ d_app < d_rcv - 1 /\ d_app' = d_app + 1
  /\ DevUnchanged /\ UNCHANGED <<toDev, toHost, dstate, d_seq, d_rcv, d_ack, d_win, d_told>>

DevAcks ==
  /\ dstate = "OPEN" /\ d_told # DevAdvert(d_rcv, d_app)
  /\ DevEmits("ACK", d_seq, d_rcv, 0)
  /\ DevUnchanged /\ UNCHANGED <<toDev, dstate, d_seq, d_rcv, d_app, d_ack, d_win>>

DevSends ==
  /\ dstate = "OPEN"
  /\ \E n \in 1..(MaxIn + 1 - d_seq) :
       /\ n <= MaxPayload /\ d_seq + n <= d_ack + d_win
       /\ DevEmits("ACK", d_seq, d_rcv, n)
       /\ d_seq' = d_seq + n
  /\ DevUnchanged /\ UNCHANGED <<toDev, dstate, d_rcv, d_app, d_ack, d_win>>

DevCloses ==
  /\ dstate = "OPEN" /\ dstate' = "CLOSED"
  /\ \E f \in {"RST", "FIN"} : DevEmits(f, d_seq, d_rcv, 0)
  /\ DevUnchanged /\ UNCHANGED <<toDev, d_seq, d_rcv, d_app, d_ack, d_win>>

-----------------------------------------------------------------------------

\* device_start_connect has put the SYN on the wire for the waiting client.
Init ==
  /\ state = "CONNECTING"
  /\ tx_seq = 0 /\ tx_ack = 0 /\ tx_acked = 0
  /\ rx_recvd = 0 /\ rx_ack = 0 /\ rx_win = 0
  /\ sendable = 0 /\ ib_size = 0 /\ ack_pending = FALSE
  /\ cstate = "CONNECTING1" /\ events = {"IN"} /\ devents = {}
  /\ capp = "OPEN" /\ sock = 0 /\ got = 0 /\ out = 0 /\ wrote = 0
  /\ toDev = <<HostSegment("SYN", 0, 0, 0)>> /\ toHost = <<>>
  /\ dstate = "LISTENING" /\ d_seq = 0 /\ d_rcv = 0 /\ d_app = 0
  /\ d_ack = 0 /\ d_win = 0 /\ d_told = <<0, 0>>

UsbInput   == \/ RecvSynAck \/ RecvRefusal \/ RecvData \/ RecvReset
              \/ RecvNoConnection \/ AnonRstFails
HostStep   == UsbInput \/ ProcessSend \/ DeviceClientProcess \/ CheckTimeouts
ClientStep == ClientWrites \/ ClientReads \/ ClientCloses
DevStep    == \/ DevAccepts \/ DevReceives \/ DevDrops \/ DevConsumes
              \/ DevAcks \/ DevSends \/ DevCloses

Next == HostStep \/ ClientStep \/ DevStep

Spec == Init /\ [][Next]_vars

\* The daemon's loop keeps running, the pipe delivers, the client program reads,
\* the device's stack and application do their work.
Fairness ==
  /\ WF_vars(UsbInput) /\ WF_vars(ProcessSend) /\ WF_vars(DeviceClientProcess)
  /\ WF_vars(CheckTimeouts) /\ WF_vars(ClientReads)
  /\ WF_vars(DevAccepts) /\ WF_vars(DevReceives) /\ WF_vars(DevConsumes)
  /\ WF_vars(DevAcks) /\ WF_vars(DevSends)

FairSpec == Spec /\ Fairness

-----------------------------------------------------------------------------

TypeOK ==
  /\ state \in ConnStates
  /\ tx_seq \in Nat /\ tx_ack \in Nat /\ tx_acked \in Nat
  /\ rx_recvd \in Nat /\ rx_ack \in Nat /\ rx_win \in Nat
  /\ sendable \in Nat /\ ib_size \in Nat /\ ack_pending \in BOOLEAN
  /\ cstate \in ClientStates /\ events \in SUBSET Poll /\ devents \in SUBSET Poll
  /\ capp \in {"OPEN", "CLOSED"} /\ sock \in 0..SockCap /\ got \in Nat
  /\ out \in 0..SockCap /\ wrote \in 0..MaxOut
  /\ toDev \in Seq(Segment) /\ toHost \in Seq(Segment)
  /\ dstate \in DevStates /\ d_seq \in Nat /\ d_rcv \in Nat /\ d_app \in Nat
  /\ d_ack \in Nat /\ d_win \in Nat /\ d_told \in Nat \X Nat

\* connection_device_input never overflows ib_buf: as long as the device stays
\* within the window it was told, the segment about to be handled fits.  The
\* overflow branch tears the connection down and its caller then uses it.
InputFits ==
  state = "CONNECTED" /\ toHost # <<>> /\ Arrives.flags = "ACK"
    => ib_size + Arrives.len <= InCap

\* The host never sends the device's stack more than the free space it told:
\* the bytes in the pipe and in its buffer fit in the buffer.
DeviceFits ==
  dstate = "OPEN" => tx_seq - 1 - d_app <= DevBuf

\* What the device takes for acknowledged has been handed to the client's socket:
\* data still in ib_buf, which teardown may drop, is never acknowledged.
AckMeansDelivered == d_ack <= 1 + got + sock

\* Neither end ever sees a gap or a repetition in the stream of the other.
InSequence ==
  /\ state = "CONNECTED" /\ toHost # <<>> /\ Arrives.flags # "RST"
       => Arrives.seq = rx_recvd + 1
  /\ dstate \in {"SYN_RCVD", "OPEN"} /\ toDev # <<>> /\ Head(toDev).flags = "ACK"
       => Head(toDev).seq = d_rcv

\* update_connection ran after the last change of every counter: the mask the
\* client is polled with asks for exactly what the connection can use, so
\* neither direction is forgotten and poll() does not spin.
EventsMatch ==
  state = "CONNECTED" /\ cstate = "CONNECTED" =>
    /\ sendable = Sendable(tx_seq, rx_ack, rx_win)
    /\ events = (IF sendable > 0 THEN {"IN"} ELSE {}) \cup
                (IF ib_size > 0 THEN {"OUT"} ELSE {})
    /\ ack_pending <=> tx_acked # tx_ack

\* A segment that will be handled: the daemon reads, and so does a device that has
\* not closed the connection.
UnderWay == toHost # <<>> \/ (toDev # <<>> /\ dstate # "CLOSED")

\* The device's window does not stay closed to the host (which sends no probe): while
\* it is, a segment is under way, the device owes the host an ACK, or its application
\* has still to take what it was sent.
HostNeverStalls ==
  WinUnit <= DevBuf /\ state = "CONNECTED" /\ sendable = 0 =>
    \/ UnderWay
    \/ dstate = "OPEN" /\ (d_told # DevAdvert(d_rcv, d_app) \/ d_app < d_rcv - 1)

\* Nor does the host's to the device: while it is, a segment is under way, ib_buf has
\* something for the client, or device_check_timeouts has an ACK to send.
DeviceNeverStalls ==
  WinUnit <= TxWin /\ state = "CONNECTED" /\ dstate = "OPEN" /\ d_seq >= d_ack + d_win =>
    UnderWay \/ ib_size > 0 \/ ack_pending

\* A window that the host let close is opened again once the client has drained
\* ib_buf, by the delayed ACK of device_check_timeouts: all that the device's
\* application has to send reaches the client program, unless the connection ends.
DownstreamFlows == <>(got = MaxIn \/ state = "FREED" \/ capp = "CLOSED")

\* A client program that hangs up does not leave its connection behind, even if
\* the device's window was closed at that moment (main_loop is then woken by
\* POLLHUP with nothing in the mask to handle).
HangupEndsConnection == capp = "CLOSED" ~> state \in {"FREED", "CRASHED"}

\* The connection implements the pair of byte streams of TetherStream.
Stream == INSTANCE TetherStream WITH
  DownCap <- TxWin + SockCap,
  UpCap   <- DevBuf + SockCap,
  downIn  <- IF d_seq = 0 THEN 0 ELSE d_seq - 1,
  downOut <- got,
  upIn    <- wrote,
  upOut   <- d_app,
  open    <- state \notin {"FREED", "CRASHED"} /\ capp = "OPEN"

StreamSpec == Stream!StreamSpec
============================================================================
