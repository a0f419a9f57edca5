---------------------------- MODULE TetherStream ----------------------------
(***************************************************************************)
(* What usbmuxd promises about one established CONNECT: two independent    *)
(* byte streams between the client program and the application on the      *)
(* device.  Nothing is lost, repeated or reordered, so that a stream is    *)
(* described by how much went in and how much came out; only a bounded     *)
(* amount is ever in between; and while the connection is open everything  *)
(* that went in comes out.                                                 *)
(***************************************************************************)
EXTENDS Integers

CONSTANTS
  DownCap,   \* most bytes in between, device to client
  UpCap      \* most bytes in between, client to device

VARIABLES downIn, downOut, upIn, upOut, open

stream == <<downIn, downOut, upIn, upOut, open>>

StreamInit ==
  /\ downIn = 0 /\ downOut = 0 /\ upIn = 0 /\ upOut = 0
  /\ open \in BOOLEAN

DeviceSends ==
  /\ downIn' > downIn /\ downIn' <= downOut + DownCap
  /\ UNCHANGED <<downOut, upIn, upOut, open>>

ClientReceives ==
  /\ downOut < downIn /\ downOut' \in (downOut + 1)..downIn
  /\ UNCHANGED <<downIn, upIn, upOut, open>>

ClientSends ==
  /\ open
  /\ upIn' > upIn /\ upIn' <= upOut + UpCap
  /\ UNCHANGED <<downIn, downOut, upOut, open>>

DeviceReceives ==
  /\ upOut < upIn /\ upOut' \in (upOut + 1)..upIn
  /\ UNCHANGED <<downIn, downOut, upIn, open>>

Break ==
  /\ open /\ open' = FALSE
  /\ UNCHANGED <<downIn, downOut, upIn, upOut>>

StreamNext ==
  DeviceSends \/ ClientReceives \/ ClientSends \/ DeviceReceives \/ Break

StreamSafe == StreamInit /\ [][StreamNext]_stream

StreamSpec ==
  /\ StreamSafe
  /\ WF_stream(open /\ ClientReceives)
  /\ WF_stream(open /\ DeviceReceives)
=============================================================================
