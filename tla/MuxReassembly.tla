---------------------------- MODULE MuxReassembly ----------------------------
(***************************************************************************)
(* How device_data_input (usbmuxd/src/device.c) gathers the packets of a   *)
(* device from USB transfers.  A packet begins with a header that says how *)
(* long it is; the device sends one that is longer than a transfer in      *)
(* several, and nothing marks where the next begins but that a transfer is *)
(* short or that the length has been reached.                              *)
(*                                                                         *)
(* The state is the packet buffer of the mux_device.  A piece stands for a *)
(* run of bytes: their number, the length that the first of them give when *)
(* they are read as a header, and where they come from.                    *)
(***************************************************************************)
EXTENDS Integers, Sequences

CONSTANTS
  USB_MRU,   \* the most a receive transfer can hold
  DEV_MRU,   \* the size of the packet buffer
  MaxPacket  \* bound: the longest packet a device sends

ASSUME ReassemblyAssumption ==
  /\ USB_MRU \in Nat \ {0} /\ DEV_MRU \in Nat /\ DEV_MRU >= USB_MRU
  /\ MaxPacket \in Nat

Piece(len, hdr, from) == [len |-> len, hdr |-> hdr, from |-> from]
Empty == Piece(0, 0, <<>>)

\* memcpy to the end of pktbuf: the header is still that of the first bytes.
Append2(b, c) == Piece(b.len + c.len, b.hdr, b.from \o c.from)

Keep(b)   == [buf |-> b, out |-> <<>>]
Drop      == Keep(Empty)
\* What is no whole packet by its own header is not looked at.
Dispatch(p) == [buf |-> Empty, out |-> IF p.hdr = p.len THEN <<p>> ELSE <<>>]

\* Mutant of IsLast: a packet ends with a short transfer only.
IsLastShort(b, c) ==
  c.len < USB_MRU

\* The transfer that ends what is in the buffer.
IsLast(b, c) == c.len < USB_MRU \/ b.hdr = b.len + c.len

\* device_data_input with the transfer c and the buffer b: what is in the buffer
\* afterwards, and the packet that is handed on, if there is one.
Gather(b, c) ==
  IF c.len = 0 \/ c.len > USB_MRU THEN Keep(b)
  ELSE IF b.len > 0 THEN
    IF b.len + c.len > DEV_MRU THEN Drop
    ELSE IF IsLast(b, c) THEN Dispatch(Append2(b, c)) ELSE Keep(Append2(b, c))
  ELSE IF c.len = USB_MRU /\ c.len < c.hdr THEN Keep(c) ELSE Dispatch(c)

(***************************************************************************)
(* What a device sends, and what becomes of it.                            *)
(***************************************************************************)

\* The transfers of a packet of n bytes: full ones, then the rest.
Transfers(n) == (n + USB_MRU - 1) \div USB_MRU

\* Packet p of n bytes, cut up.  In the middle it looks like g when it is read as a
\* header.
Pieces(p, n, g) ==
  [i \in 1..Transfers(n) |->
     Piece(IF i < Transfers(n) THEN USB_MRU ELSE n - (Transfers(n) - 1) * USB_MRU,
           IF i = 1 THEN n ELSE g, <<<<p, i>>>>)]

\* The middle of a packet may look like nothing, a short packet or a long one.
Garbage == {0, 1, USB_MRU, MaxPacket}

\* The packet buffer after each of the transfers cs.
Buffers(cs) ==
  LET buf[i \in 0..Len(cs)] == IF i = 0 THEN Empty ELSE Gather(buf[i - 1], cs[i]).buf
  IN  buf

\* What is handed on at transfer i of them.
HandedOn(cs, i) == Gather(Buffers(cs)[i - 1], cs[i]).out

\* The packet as it was before it was cut.
Whole(p, n) == Piece(n, n, [i \in 1..Transfers(n) |-> <<p, i>>])

\* Packet p of n bytes, the transfers of which come after the first s of cs, is handed
\* on whole with the last of them and not before.
Arrives(cs, s, p, n) ==
  \A i \in 1..Transfers(n) :
    HandedOn(cs, s + i) = IF i = Transfers(n) THEN <<Whole(p, n)>> ELSE <<>>

\* Packets that fit the buffer: each is handed on, and nothing is kept back.
GathersWhole ==
  \A m, n, o \in 1..DEV_MRU : \A g \in Garbage :
    LET cs == Pieces(1, m, g) \o Pieces(2, n, g) \o Pieces(3, o, g)
    IN  /\ Arrives(cs, 0, 1, m) /\ Arrives(cs, Transfers(m), 2, n)
        /\ Arrives(cs, Transfers(m) + Transfers(n), 3, o)
        /\ Buffers(cs)[Len(cs)] = Empty

\* One that does not fit, a short transfer, and one that does.
GathersAgain ==
  \A n \in (DEV_MRU + 1)..MaxPacket, k, m \in 1..DEV_MRU, s \in 1..(USB_MRU - 1) :
    \A g \in Garbage :
      LET cs == Pieces(1, k, g) \o Pieces(2, n, g) \o Pieces(3, s, g) \o Pieces(4, m, g)
      IN  /\ Arrives(cs, 0, 1, k)
          /\ Arrives(cs, Transfers(k) + Transfers(n) + 1, 4, m)
          /\ Buffers(cs)[Len(cs)] = Empty
=============================================================================
