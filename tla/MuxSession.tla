------------------------------ MODULE MuxSession ------------------------------
(***************************************************************************)
(* What usbmuxd promises to one client program until the program has its   *)
(* tunnel or its socket has been closed: each request is answered at most  *)
(* once and none before it was made, and the tunnel is there as soon as,   *)
(* and only when, the program has read the answer that says so, after      *)
(* which it is told nothing more.                                          *)
(***************************************************************************)
EXTENDS Naturals

CONSTANT Opened   \* the answer that opens the tunnel

VARIABLES
  asked,          \* requests made
  answered,       \* answers read
  last,           \* the last of them
  phase           \* "commands", "tunnel" or "closed"

session == <<asked, answered, last, phase>>

SessionInit == asked = 0 /\ answered = 0 /\ last # Opened /\ phase = "commands"

Ask ==
  /\ phase = "commands"
  /\ asked' = asked + 1
  /\ UNCHANGED <<answered, last, phase>>

\* The program reads answers that leave it where it is ...
Read ==
  /\ phase = "commands"
  /\ answered' \in (answered + 1)..asked /\ last' # Opened
  /\ UNCHANGED <<asked, phase>>

\* ... or ending with the one that opens the tunnel.
Enter ==
  /\ phase = "commands" /\ phase' = "tunnel"
  /\ answered' \in (answered + 1)..asked /\ last' = Opened
  /\ UNCHANGED asked

Close ==
  /\ phase # "closed" /\ phase' = "closed"
  /\ UNCHANGED <<asked, answered, last>>

SessionNext == Ask \/ Read \/ Enter \/ Close

SessionSpec == SessionInit /\ [][SessionNext]_session
=============================================================================
