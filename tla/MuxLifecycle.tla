---------------------------- MODULE MuxLifecycle ----------------------------
(***************************************************************************)
(* The objects of the daemon and how they come and go: the mux_client of   *)
(* each accepted socket (usbmuxd/src/client.c), the mux_device of each     *)
(* attached device and the mux_connection that ties one to the other       *)
(* (usbmuxd/src/device.c), under the loop of usbmuxd/src/main.c.           *)
(*                                                                         *)
(* One turn of main_loop takes a snapshot of what poll() reports, lets     *)
(* libusb run its callbacks, and then handles the clients of the snapshot: *)
(* what a client's handler finds may have changed since it was reported.   *)
(* Every action is one handler run to completion on the main thread; only  *)
(* the preflight worker of a device runs beside it.  Each element of       *)
(* Clients and Devices is one allocation: accepted or attached once, freed *)
(* once.  A handler that would do something undefined sets fault and the   *)
(* system stops there; the rest of the state is then what the handler saw. *)
(*                                                                         *)
(* The data of the tunnels is in MuxFlow.  A message leaves a buffer whole *)
(* here: reading or sending part of one changes nothing but the buffer.    *)
(***************************************************************************)
EXTENDS Integers, Sequences, FiniteSetsExt

CONSTANTS
  Clients,     \* client structures
  Devices,     \* device structures, which are also the device ids
  NoClient,    \* conn->client of no connection
  NoDevice,    \* client->connect_device before any connect
  PortMod,     \* number of source ports (2^16)
  Commands,    \* what client programs may ask for
  MaxAhead,    \* bound: requests a client program sends ahead of the answers,
               \* 0 for one that waits for each answer
  MaxAsked,    \* bound: requests per client program
  MaxPipe      \* bound: segments on their way from one device

Ops     == {"CONNECT", "LISTEN", "QUERY", "MALFORMED", "OVERSIZE"}
Command == [op : {"CONNECT"}, dev : Devices] \cup
           [op : Ops \ {"CONNECT"}, dev : {NoDevice}]

ASSUME LifeAssumption ==
  /\ NoClient \notin Clients /\ NoDevice \notin Devices
  /\ PortMod \in Nat /\ PortMod > 1
  /\ Commands \subseteq Command
  /\ MaxAhead \in Nat /\ MaxAsked \in Nat /\ MaxPipe \in Nat

VARIABLES
  \* main_loop: where it is in its turn, what poll() reported for each client
  pc, ready, fault,
  \* struct mux_client
  cstate, connect_device, connect_tag, ob,
  \* struct mux_device, and its preflight worker
  dstate, next_sport, visible, worker,
  \* struct mux_connection, by device and source port
  state, client,
  \* the device's end of each port, the pipe from it, the RSTs that failed
  remote, toHost, lost,
  \* the client program: its socket, its requests, the answers it has read
  capp, inq, asked, got, told

loopVars   == <<pc, ready>>
clientVars == <<cstate, connect_device, connect_tag, ob>>
devVars    == <<dstate, next_sport, visible, worker>>
connVars   == <<state, client>>
wireVars   == <<remote, toHost, lost>>
appVars    == <<capp, inq, asked, got, told>>
vars == <<loopVars, fault, clientVars, devVars, connVars, wireVars, appVars>>

Ports == 0..(PortMod - 1)
Conns == Devices \X Ports
Flags == {"SYNACK", "ACK", "FIN", "RST"}
Codes == {"OK", "BADDEV", "CONNREFUSED"}
Notices == {"Attached", "Removed"}
Faults  == {"double_free", "use_after_free", "self_deadlock", "uninitialised",
            "null_dereference"}

ClientStates == {"NEW", "COMMAND", "LISTEN", "CONNECTING1", "CONNECTING2",
                 "CONNECTED", "FREED"}
DevStates    == {"NEW", "INIT", "ACTIVE", "FREED"}
ConnStates   == {"NONE", "CONNECTING", "CONNECTED"}

Message == [msg : Ops \cup Notices, tag : Nat, code : Codes, devs : SUBSET Devices]
Result(op, tag, code) == [msg |-> op, tag |-> tag, code |-> code, devs |-> {}]
Notice(what, D)       == [msg |-> what, tag |-> 0, code |-> "OK", devs |-> D]

\* Where the answers are among the messages s, and what asks for one among the
\* requests q.
AnswersIn(s)  == {i \in 1..Len(s) : s[i].msg \in Ops}
RequestsIn(q) == {i \in 1..Len(q) : q[i].op \notin {"MALFORMED", "OVERSIZE"}}

Live(c)  == cstate[c] \notin {"NEW", "FREED"}
Open     == {k \in Conns : state[k] # "NONE"}
OfDev(d) == {k \in Open : k[1] = d}

\* get_mux_connection
ConnsOf(c) == {k \in Open : client[k] = c /\ k[1] = connect_device[c]}

Undefined(f) ==
  /\ fault' = f
  /\ UNCHANGED <<loopVars, clientVars, devVars, connVars, wireVars, appVars>>

-----------------------------------------------------------------------------
(***************************************************************************)
(* Tearing down.                                                           *)
(***************************************************************************)

\* send_tcp of a RST for each of the connections K; some may fail to be sent.
SendRst(K) ==
  \E L \in SUBSET K :
    /\ lost' = lost \cup L
    /\ remote' = [k \in Conns |-> IF k \in K \ L THEN "CLOSED" ELSE remote[k]]

\* The connections K leave their devices' lists.
DropConns(K) ==
  /\ state'  = [k \in Conns |-> IF k \in K THEN "NONE" ELSE state[k]]
  /\ client' = [k \in Conns |-> IF k \in K THEN NoClient ELSE client[k]]

\* The client of a connection that was not up yet is told so; the client of any
\* other is closed.
Refused(K) == {c \in Clients : /\ cstate[c] = "CONNECTING1"
                               /\ \E k \in K : state[k] = "CONNECTING" /\ client[k] = c}
Closed(K)  == {c \in Clients : \E k \in K : state[k] = "CONNECTED" /\ client[k] = c}

\* client_close of the clients C, once nothing ties them to a connection.
FreeClients(C) ==
  /\ connect_device' = [c \in Clients |-> IF c \in C THEN NoDevice ELSE connect_device[c]]
  /\ connect_tag' = [c \in Clients |-> IF c \in C THEN 0 ELSE connect_tag[c]]

\* Mutant of ObAfter: a connection that fails says nothing to its client.
ObAfterSilent(K) ==
  [c \in Clients |-> IF c \in Closed(K) THEN <<>> ELSE ob[c]]

\* The replies of the clients when the connections K have been torn down.
ObAfter(K) ==
  [c \in Clients |->
     IF c \in Closed(K) THEN <<>>
     ELSE IF c \in Refused(K)
       THEN Append(ob[c], Result("CONNECT", connect_tag[c], "CONNREFUSED"))
     ELSE ob[c]]

\* The states of the clients when the connections K have been torn down.
CstateAfter(K) ==
  [c \in Clients |-> IF c \in Closed(K) THEN "FREED"
                     ELSE IF c \in Refused(K) THEN "COMMAND" ELSE cstate[c]]

\* connection_teardown of the connections K, without the RST.
Teardown(K) ==
  /\ DropConns(K)
  /\ FreeClients(Closed(K))
  /\ cstate' = CstateAfter(K)
  /\ ob' = ObAfter(K)

\* Mutant of Abandon: the device is not told.
AbandonSilently(k) == Teardown({k}) /\ UNCHANGED <<remote, lost>>

\* The reply could not be sent, or the device ended the connection without a RST.
Abandon(k) == Teardown({k}) /\ SendRst({k})

\* Mutant of ClientClose: the connection being set up is left to itself.
ClientCloseNoAbort(c) ==
  /\ FreeClients({c})
  /\ cstate' = [cstate EXCEPT ![c] = "FREED"]
  /\ ob' = [ob EXCEPT ![c] = <<>>]
  /\ ready' = [ready EXCEPT ![c] = {}]
  /\ UNCHANGED <<pc, fault, devVars, connVars, wireVars, appVars>>

\* client_close, called by a handler of the client's socket.  In CONNECTING1 the
\* connection is aborted first and its teardown leaves the dying client alone;
\* in CONNECTING2 that teardown closes the client once more.
ClientClose(c) ==
  IF cstate[c] = "CONNECTING2" /\ ConnsOf(c) # {}
    THEN Undefined("double_free")
    ELSE /\ DropConns(ConnsOf(c))
         /\ SendRst(ConnsOf(c))
         /\ FreeClients({c})
         /\ cstate' = [cstate EXCEPT ![c] = "FREED"]
         /\ ob' = [ob EXCEPT ![c] = <<>>]
         /\ ready' = [ready EXCEPT ![c] = {}]
         /\ UNCHANGED <<pc, fault, devVars, toHost, appVars>>

-----------------------------------------------------------------------------
(***************************************************************************)
(* The client's socket: client_process and what it calls.                  *)
(***************************************************************************)

\* Commands answered on the spot: the pair records, the BUID, the device list,
\* and, for an id that no device has, a connect.
Answer(c, op, tag, code) ==
  ob' = [ob EXCEPT ![c] = Append(@, Result(op, tag, code))]

\* The first port from next_sport on that no connection of the device uses.
FreePorts(d) == {p \in Ports : <<d, p>> \notin Open}
NextFree(d)  == CHOOSE p \in FreePorts(d) : \A q \in FreePorts(d) :
                  (p - next_sport[d]) % PortMod <= (q - next_sport[d]) % PortMod

\* Mutant of FindSport: next_sport is wider than a port.
FindSportNoWrap(d) ==
  IF Cardinality(OfDev(d)) >= PortMod - 1
    THEN [sport |-> 0, next |-> next_sport[d]]
    ELSE [sport |-> NextFree(d), next |-> NextFree(d) + 1]

\* find_sport: no port at all when all but one are taken.
FindSport(d) ==
  IF Cardinality(OfDev(d)) >= PortMod - 1
    THEN [sport |-> 0, next |-> next_sport[d]]
    ELSE [sport |-> NextFree(d), next |-> (NextFree(d) + 1) % PortMod]

\* device_start_connect and the end of client_command: port 0 is taken for no
\* port at all, and a SYN that cannot be sent refuses the connection.
StartConnect(c, d, tag) ==
  LET found == FindSport(d)
      k     == <<d, found.sport>>
  IN  /\ next_sport' = [next_sport EXCEPT ![d] = found.next]
      /\ UNCHANGED <<dstate, visible, worker, toHost>>
      /\ \/ /\ Answer(c, "CONNECT", tag, IF found.sport = 0 THEN "BADDEV" ELSE "CONNREFUSED")
            /\ UNCHANGED <<cstate, connect_device, connect_tag, connVars, remote, lost>>
         \/ /\ found.sport # 0
            /\ state' = [state EXCEPT ![k] = "CONNECTING"]
            /\ client' = [client EXCEPT ![k] = c]
            /\ remote' = [remote EXCEPT ![k] = "SYN"] /\ lost' = lost \ {k}
            /\ connect_device' = [connect_device EXCEPT ![c] = d]
            /\ connect_tag' = [connect_tag EXCEPT ![c] = tag]
            /\ cstate' = [cstate EXCEPT ![c] = "CONNECTING1"]
            /\ UNCHANGED ob

\* client_command in the state it is meant for.
Execute(c, m) ==
  \/ /\ m.op = "MALFORMED"
     /\ UNCHANGED <<clientVars, devVars, connVars, wireVars>>
  \/ /\ m.op = "QUERY" /\ Answer(c, "QUERY", m.tag, "OK")
     /\ UNCHANGED <<cstate, connect_device, connect_tag, devVars, connVars, wireVars>>
  \/ /\ m.op = "LISTEN"
     /\ cstate' = [cstate EXCEPT ![c] = "LISTEN"]
     /\ ob' = [ob EXCEPT ![c] = Append(@, Result("LISTEN", m.tag, "OK")) \o
          (LET D == {d \in Devices : dstate[d] = "ACTIVE" /\ visible[d]}
           IN  IF D = {} THEN <<>> ELSE <<Notice("Attached", D)>>)]
     /\ UNCHANGED <<connect_device, connect_tag, devVars, connVars, wireVars>>
  \/ /\ m.op = "CONNECT" /\ dstate[m.dev] \in {"NEW", "FREED"}
     /\ Answer(c, "CONNECT", m.tag, "BADDEV")
     /\ UNCHANGED <<cstate, connect_device, connect_tag, devVars, connVars, wireVars>>
  \/ /\ m.op = "CONNECT" /\ dstate[m.dev] = "ACTIVE"
     /\ StartConnect(c, m.dev, m.tag)

\* process_recv: the socket has been closed, or the next command is complete.  In
\* CONNECTING2 ib_buf is gone and the read fails.
ProcessRecv(c) ==
  IF inq[c] = <<>> \/ cstate[c] = "CONNECTING2" \/ Head(inq[c]).op = "OVERSIZE"
    THEN ClientClose(c)
    ELSE LET m == Head(inq[c])
         IN  \/ /\ cstate[c] # "COMMAND"
                /\ Undefined("use_after_free")
             \/ /\ cstate[c] = "COMMAND" /\ m.op = "CONNECT" /\ dstate[m.dev] = "INIT"
                /\ Undefined("uninitialised")
             \/ /\ cstate[c] = "COMMAND"
                /\ Execute(c, m)
                /\ inq' = [inq EXCEPT ![c] = Tail(@)]
                /\ ready' = [ready EXCEPT ![c] = {}]
                /\ UNCHANGED <<pc, fault, capp, asked, got, told>>

\* The answer that a program with the last answer t has read last when it has read
\* n messages of s.
LastRead(t, s, n) ==
  LET read == AnswersIn(s) \cap 1..n
  IN  IF read = {} THEN t ELSE <<s[Max(read)].msg, s[Max(read)].code>>

\* Mutant of ProcessSend: the tunnel opens before the last byte has gone out.
ProcessSendOpensEarly(c) ==
  IF capp[c] = "CLOSED"
    THEN ClientClose(c)
    ELSE \E n \in 1..Len(ob[c]) :
           /\ ob' = [ob EXCEPT ![c] = SubSeq(@, n + 1, Len(@))]
           /\ cstate' = [cstate EXCEPT ![c] =
                IF @ = "CONNECTING2" THEN "CONNECTED" ELSE @]
           /\ got' = [got EXCEPT ![c] = @ + Cardinality(AnswersIn(ob[c]) \cap 1..n)]
           /\ told' = [told EXCEPT ![c] = LastRead(@, ob[c], n)]
           /\ ready' = [ready EXCEPT ![c] = {}]
           /\ UNCHANGED <<pc, fault, connect_device, connect_tag, devVars, connVars,
                          wireVars, capp, inq, asked>>

\* process_send: some of the messages in ob_buf go out; when the CONNECT result
\* was the last of them the tunnel opens.  Nobody reads: the write fails.
ProcessSend(c) ==
  IF capp[c] = "CLOSED"
    THEN ClientClose(c)
    ELSE \E n \in 1..Len(ob[c]) :
           /\ ob' = [ob EXCEPT ![c] = SubSeq(@, n + 1, Len(@))]
           /\ cstate' = [cstate EXCEPT ![c] =
                IF @ = "CONNECTING2" /\ n = Len(ob[c]) THEN "CONNECTED" ELSE @]
           /\ got' = [got EXCEPT ![c] = @ + Cardinality(AnswersIn(ob[c]) \cap 1..n)]
           /\ told' = [told EXCEPT ![c] = LastRead(@, ob[c], n)]
           /\ ready' = [ready EXCEPT ![c] = {}]
           /\ UNCHANGED <<pc, fault, connect_device, connect_tag, devVars, connVars,
                          wireVars, capp, inq, asked>>

\* device_client_process: data moves (see MuxFlow), or the connection ends, because
\* the client has gone or because the device no longer takes what is sent to it.
DeviceClientProcess(c) ==
  /\ ready' = [ready EXCEPT ![c] = {}]
  /\ UNCHANGED <<pc, fault, devVars, toHost, appVars>>
  /\ \/ /\ ConnsOf(c) = {} \/ capp[c] = "OPEN"
        /\ UNCHANGED <<clientVars, connVars, remote, lost>>
     \/ \E k \in ConnsOf(c) : Abandon(k)

\* client_process, for an entry of the snapshot.  The socket of a client that has
\* been closed since is no longer in client_list; POLLIN goes before POLLOUT.
ClientProcess(c) ==
  /\ pc = "clients" /\ ready[c] # {}
  /\ \/ /\ ~Live(c)
        /\ ready' = [ready EXCEPT ![c] = {}]
        /\ UNCHANGED <<pc, fault, clientVars, devVars, connVars, wireVars, appVars>>
     \/ cstate[c] = "CONNECTED" /\ DeviceClientProcess(c)
     \/ Live(c) /\ cstate[c] # "CONNECTED" /\ "IN" \in ready[c] /\ ProcessRecv(c)
     \/ Live(c) /\ cstate[c] # "CONNECTED" /\ "IN" \notin ready[c] /\ ProcessSend(c)

-----------------------------------------------------------------------------
(***************************************************************************)
(* The USB side: usb_process and the callbacks libusb makes from it.       *)
(***************************************************************************)

Usb == pc \in {"usb", "drain"}

\* device_add: the version request is on its way.
DeviceAdd(d) ==
  /\ Usb /\ dstate[d] = "NEW"
  /\ dstate' = [dstate EXCEPT ![d] = "INIT"]
  /\ UNCHANGED <<loopVars, fault, clientVars, next_sport, visible, worker, connVars,
                 wireVars, appVars>>

\* device_version_input: the device is usable and its preflight worker started, or
\* its version is not known and it is dropped.
DeviceVersionInput(d) ==
  /\ Usb /\ dstate[d] = "INIT"
  /\ \/ /\ dstate' = [dstate EXCEPT ![d] = "ACTIVE"]
        /\ worker' = [worker EXCEPT ![d] = TRUE]
     \/ /\ dstate' = [dstate EXCEPT ![d] = "FREED"]
        /\ UNCHANGED worker
  /\ UNCHANGED <<loopVars, fault, clientVars, next_sport, visible, connVars, wireVars, appVars>>

\* device_tcp_input.
Arrives(d) == Head(toHost[d])

\* Mutant of ConnectionUp: the client is in its tunnel before it has been told.
ConnectionUpAtOnce(k) ==
  LET c == client[k]
  IN  /\ state' = [state EXCEPT ![k] = "CONNECTED"]
      /\ cstate' = [cstate EXCEPT ![c] = "CONNECTED"]
      /\ Answer(c, "CONNECT", connect_tag[c], "OK")
      /\ UNCHANGED <<client, connect_device, connect_tag, remote, lost>>

\* SYN|ACK in CONN_CONNECTING: the client is told, unless it is not waiting, in
\* which case its connection is freed and then updated.
ConnectionUp(k) ==
  LET c == client[k]
  IN  /\ state' = [state EXCEPT ![k] = "CONNECTED"]
      /\ cstate' = [cstate EXCEPT ![c] = "CONNECTING2"]
      /\ Answer(c, "CONNECT", connect_tag[c], "OK")
      /\ UNCHANGED <<client, connect_device, connect_tag, remote, lost>>

\* Mutant of EndsConnection: only a RST ends a connection.
EndsConnectionOnReset(s, f) == f = "RST"

\* A segment other than the one its state calls for ends a connection.
EndsConnection(s, f) ==
  \/ s = "CONNECTING" /\ f # "SYNACK"
  \/ s = "CONNECTED" /\ f # "ACK"

\* A segment for no connection is answered with a RST; when that cannot be sent, the
\* log line asks the connection there is not for its device.
TcpInput(d) ==
  /\ Usb /\ toHost[d] # <<>>
  /\ LET k == <<d, Arrives(d).sport>>
         s == state[k]
         f == Arrives(d).flags
     IN  \/ s = "NONE" /\ f # "RST" /\ Undefined("null_dereference")
         \/ IF s = "CONNECTING" /\ f = "SYNACK" /\ cstate[client[k]] # "CONNECTING1"
              THEN Undefined("use_after_free")
              ELSE /\ toHost' = [toHost EXCEPT ![d] = Tail(@)]
                   /\ UNCHANGED <<loopVars, fault, devVars, appVars>>
                   /\ \/ /\ s = "NONE" /\ f # "RST"                \* send_anon_rst
                         /\ remote' = [remote EXCEPT ![k] = "CLOSED"]
                         /\ UNCHANGED <<clientVars, connVars, lost>>
                      \/ /\ \/ s = "NONE" /\ f = "RST"
                            \/ s = "CONNECTED" /\ ~EndsConnection(s, f)
                            \/ s = "CONNECTING" /\ f # "SYNACK" /\ ~EndsConnection(s, f)
                         /\ UNCHANGED <<clientVars, connVars, remote, lost>>
                      \/ /\ s = "CONNECTING" /\ f = "SYNACK"
                         /\ ConnectionUp(k) \/ Abandon(k)
                      \/ /\ s = "CONNECTED" /\ f = "ACK"
                         /\ Abandon(k)
                      \/ /\ s # "NONE" /\ EndsConnection(s, f)
                         /\ IF f = "RST"
                              THEN Teardown({k}) /\ UNCHANGED <<remote, lost>>
                              ELSE Abandon(k)

\* device_remove.  It holds device_list_mutex throughout: the teardown of a
\* connection whose client is in CONNECTING2 comes back to get_mux_connection,
\* which takes that mutex again.
DeviceRemove(d) ==
  /\ Usb /\ dstate[d] \in {"INIT", "ACTIVE"}
  /\ IF \E k \in OfDev(d) : cstate[client[k]] = "CONNECTING2"
       THEN Undefined("self_deadlock")
       ELSE /\ DropConns(OfDev(d))
            /\ FreeClients(Closed(OfDev(d)))
            /\ cstate' = CstateAfter(OfDev(d))
            /\ ob' = [c \in Clients |->
                 IF dstate[d] = "ACTIVE" /\ cstate[c] = "LISTEN"
                   THEN Append(ob[c], Notice("Removed", {d})) ELSE ObAfter(OfDev(d))[c]]
            /\ dstate' = [dstate EXCEPT ![d] = "FREED"]
            /\ remote' = [k \in Conns |-> IF k[1] = d THEN "CLOSED" ELSE remote[k]]
            /\ toHost' = [toHost EXCEPT ![d] = <<>>]
            /\ UNCHANGED <<loopVars, fault, next_sport, visible, worker, lost, appVars>>

\* The preflight worker is done with a device: client_device_add, on its thread.
\* The id it announces may have gone; device_set_visible then finds nothing.
WorkerDone(d) ==
  /\ pc # "exited" /\ worker[d]
  /\ worker' = [worker EXCEPT ![d] = FALSE]
  /\ visible' = [visible EXCEPT ![d] = @ \/ dstate[d] # "FREED"]
  /\ ob' = [c \in Clients |-> IF cstate[c] = "LISTEN"
              THEN Append(ob[c], Notice("Attached", {d})) ELSE ob[c]]
  /\ UNCHANGED <<loopVars, fault, cstate, connect_device, connect_tag, dstate,
                 next_sport, connVars, wireVars, appVars>>

\* device_check_timeouts: a delayed ACK is due only after data was handed to the
\* client (see MuxFlow).  A connection whose ACK cannot be sent is torn down.
CheckTimeouts(k) ==
  /\ pc = "usb" /\ (\A c \in Clients : ready[c] = {})
  /\ state[k] = "CONNECTED" /\ cstate[client[k]] = "CONNECTED"
  /\ Abandon(k)
  /\ UNCHANGED <<loopVars, fault, devVars, toHost, appVars>>

-----------------------------------------------------------------------------
(***************************************************************************)
(* The loop.                                                               *)
(***************************************************************************)

\* client_accept.  It comes first in a turn, when the snapshot has been taken; the
\* new client is not in it, so the turn might as well start afterwards.
ClientAccept(c) ==
  /\ pc = "poll" /\ cstate[c] = "NEW"
  /\ cstate' = [cstate EXCEPT ![c] = "COMMAND"]
  /\ UNCHANGED <<loopVars, fault, connect_device, connect_tag, ob, devVars, connVars,
                 wireVars, appVars>>

\* Mutant of Mask: all is cleared when all is sent.
MaskAllOrNothing(c) ==
  CASE ~Live(c)                  -> {}
    [] cstate[c] = "CONNECTING2" -> {"OUT"}
    [] cstate[c] = "CONNECTED"   -> {"IN"}
    [] OTHER -> IF ob[c] = <<>> /\ got[c] > 0 THEN {} ELSE {"IN", "OUT"}

\* client->events: client_accept asks for POLLIN, send_pkt adds POLLOUT until all
\* is sent, client_notify_connect leaves POLLOUT alone while the result goes out;
\* the mask of a tunnel is in MuxFlow.
Mask(c) ==
  CASE ~Live(c)                  -> {}
    [] cstate[c] = "CONNECTING2" -> {"OUT"}
    [] cstate[c] = "CONNECTED"   -> {"IN"}
    [] OTHER -> {"IN"} \cup (IF ob[c] = <<>> THEN {} ELSE {"OUT"})

\* A tunnel may have nothing to report, because its program has sent nothing or
\* because neither direction can move; that its program hung up is always reported.
Poll ==
  /\ pc = "poll" /\ pc' = "usb"
  /\ \E Q \in SUBSET {c \in Clients : cstate[c] = "CONNECTED" /\ capp[c] = "OPEN"} :
       ready' = [c \in Clients |-> {e \in Mask(c) : e = "IN" =>
         c \notin Q /\ (inq[c] # <<>> \/ capp[c] = "CLOSED" \/ cstate[c] = "CONNECTED")}]
  /\ UNCHANGED <<fault, clientVars, devVars, connVars, wireVars, appVars>>

UsbDone ==
  /\ pc = "usb" /\ pc' = "clients"
  /\ UNCHANGED <<ready, fault, clientVars, devVars, connVars, wireVars, appVars>>

TurnDone ==
  /\ pc = "clients" /\ (\A c \in Clients : ready[c] = {})
  /\ pc' = "poll"
  /\ UNCHANGED <<ready, fault, clientVars, devVars, connVars, wireVars, appVars>>

\* Mutant of Shutdown: connections that are not up yet are forgotten.
ShutdownOpenOnly ==
  /\ pc = "poll" /\ pc' = "drain"
  /\ LET K == {k \in Open : state[k] = "CONNECTED"} IN Teardown(K) /\ SendRst(K)
  /\ UNCHANGED <<ready, fault, devVars, toHost, appVars>>

\* A signal has set should_exit: device_kill_connections, which holds no mutex,
\* and then usb_process_timeout for the RSTs to go out.
Shutdown ==
  /\ pc = "poll" /\ pc' = "drain"
  /\ Teardown(Open) /\ SendRst(Open)
  /\ UNCHANGED <<ready, fault, devVars, toHost, appVars>>

\* usb_shutdown, device_shutdown and client_shutdown.
Exit ==
  /\ pc = "drain"
  /\ IF \E c \in Clients : cstate[c] = "CONNECTING2"
       THEN Undefined("self_deadlock")
       ELSE /\ pc' = "exited"
            /\ cstate' = [c \in Clients |-> IF Live(c) THEN "FREED" ELSE cstate[c]]
            /\ dstate' = [d \in Devices |-> IF dstate[d] = "NEW" THEN "NEW" ELSE "FREED"]
            /\ ob' = [c \in Clients |-> <<>>]
            /\ FreeClients(Clients)
            /\ DropConns(Conns)
            /\ UNCHANGED <<ready, fault, next_sport, visible, worker, wireVars, appVars>>

-----------------------------------------------------------------------------
(***************************************************************************)
(* The device (external): its TCP stack answers each SYN, sends on what is *)
(* open and ends it when it likes.                                         *)
(***************************************************************************)

DevEmits(k, f) ==
  /\ Len(toHost[k[1]]) < MaxPipe
  /\ toHost' = [toHost EXCEPT ![k[1]] = Append(@, [sport |-> k[2], flags |-> f])]
  /\ UNCHANGED <<loopVars, fault, clientVars, devVars, connVars, lost, appVars>>

DevAnswers(k) ==
  /\ remote[k] = "SYN"
  /\ \/ DevEmits(k, "SYNACK") /\ remote' = [remote EXCEPT ![k] = "OPEN"]
     \/ \E f \in {"RST", "FIN"} : DevEmits(k, f) /\ remote' = [remote EXCEPT ![k] = "CLOSED"]

DevSends(k) ==
  /\ remote[k] = "OPEN"
  /\ \/ DevEmits(k, "ACK") /\ UNCHANGED remote
     \/ \E f \in {"RST", "FIN"} : DevEmits(k, f) /\ remote' = [remote EXCEPT ![k] = "CLOSED"]

(***************************************************************************)
(* The client program (external).  It waits for each answer, or asks ahead *)
(* if MaxAhead lets it; once it has a tunnel it only has data to send.     *)
(***************************************************************************)

MayAsk(c) ==
  /\ capp[c] = "OPEN" /\ asked[c] < MaxAsked
  /\ IF MaxAhead > 0
       THEN cstate[c] \in {"COMMAND", "LISTEN", "CONNECTING1"} /\ Len(inq[c]) < MaxAhead
       ELSE cstate[c] = "COMMAND" /\ inq[c] = <<>> /\ got[c] = asked[c]

ClientAsks(c, m) ==
  /\ pc # "exited" /\ MayAsk(c)
  /\ LET counts == m.op \notin {"MALFORMED", "OVERSIZE"}
         tag    == IF counts THEN asked[c] + 1 ELSE 0
     IN  /\ inq' = [inq EXCEPT ![c] = Append(@, [op |-> m.op, dev |-> m.dev, tag |-> tag])]
         /\ asked' = [asked EXCEPT ![c] = IF counts THEN @ + 1 ELSE @]
  /\ UNCHANGED <<loopVars, fault, clientVars, devVars, connVars, wireVars, capp, got, told>>

ClientHangsUp(c) ==
  /\ Live(c) /\ capp[c] = "OPEN"
  /\ capp' = [capp EXCEPT ![c] = "CLOSED"]
  /\ UNCHANGED <<loopVars, fault, clientVars, devVars, connVars, wireVars, inq, asked, got, told>>

-----------------------------------------------------------------------------

Init ==
  /\ pc = "poll" /\ ready = [c \in Clients |-> {}] /\ fault = "none"
  /\ cstate = [c \in Clients |-> "NEW"]
  /\ connect_device = [c \in Clients |-> NoDevice]
  /\ connect_tag = [c \in Clients |-> 0]
  /\ ob = [c \in Clients |-> <<>>]
  /\ dstate = [d \in Devices |-> "NEW"]
  /\ next_sport = [d \in Devices |-> 1]
  /\ visible = [d \in Devices |-> FALSE] /\ worker = [d \in Devices |-> FALSE]
  /\ state = [k \in Conns |-> "NONE"] /\ client = [k \in Conns |-> NoClient]
  /\ remote = [k \in Conns |-> "CLOSED"] /\ lost = {}
  /\ toHost = [d \in Devices |-> <<>>]
  /\ capp = [c \in Clients |-> "OPEN"] /\ inq = [c \in Clients |-> <<>>]
  /\ asked = [c \in Clients |-> 0] /\ got = [c \in Clients |-> 0]
  /\ told = [c \in Clients |-> <<>>]

ClientSide(c) ==
  \/ ClientAccept(c) \/ ClientProcess(c) \/ ClientHangsUp(c)
  \/ \E m \in Commands : ClientAsks(c, m)
DeviceSide(d) ==
  DeviceAdd(d) \/ DeviceVersionInput(d) \/ TcpInput(d) \/ DeviceRemove(d) \/ WorkerDone(d)
ConnSide(k) == CheckTimeouts(k) \/ DevAnswers(k) \/ DevSends(k)
Loop        == Poll \/ UsbDone \/ TurnDone \/ Shutdown \/ Exit

Running == fault = "none"

Next ==
  /\ Running
  /\ \/ \E c \in Clients : ClientSide(c)
     \/ \E d \in Devices : DeviceSide(d)
     \/ \E k \in Conns : ConnSide(k)
     \/ Loop

Spec == Init /\ [][Next]_vars

\* The loop turns and handles each client it was told of; libusb's callbacks run
\* sooner or later while it does; the device answers each SYN.
Fairness ==
  /\ WF_vars(Running /\ (Poll \/ UsbDone \/ TurnDone \/ Exit))
  /\ \A c \in Clients : WF_vars(Running /\ ClientProcess(c))
  /\ \A d \in Devices : SF_vars(Running /\ TcpInput(d))
  /\ \A k \in Conns : SF_vars(Running /\ DevAnswers(k))

FairSpec == Spec /\ Fairness

-----------------------------------------------------------------------------

Asked == [op : {"CONNECT"}, dev : Devices, tag : Nat] \cup
         [op : Ops \ {"CONNECT"}, dev : {NoDevice}, tag : Nat]

TypeOK ==
  /\ pc \in {"poll", "usb", "clients", "drain", "exited"}
  /\ ready \in [Clients -> SUBSET {"IN", "OUT"}] /\ fault \in Faults \cup {"none"}
  /\ cstate \in [Clients -> ClientStates]
  /\ connect_device \in [Clients -> Devices \cup {NoDevice}]
  /\ connect_tag \in [Clients -> Nat] /\ ob \in [Clients -> Seq(Message)]
  /\ dstate \in [Devices -> DevStates] /\ next_sport \in [Devices -> Ports]
  /\ visible \in [Devices -> BOOLEAN] /\ worker \in [Devices -> BOOLEAN]
  /\ state \in [Conns -> ConnStates] /\ client \in [Conns -> Clients \cup {NoClient}]
  /\ remote \in [Conns -> {"CLOSED", "SYN", "OPEN"}] /\ lost \subseteq Conns
  /\ toHost \in [Devices -> Seq([sport : Ports, flags : Flags])]
  /\ capp \in [Clients -> {"OPEN", "CLOSED"}] /\ inq \in [Clients -> Seq(Asked)]
  /\ asked \in [Clients -> Nat] /\ got \in [Clients -> Nat]
  /\ told \in [Clients -> {<<>>} \cup (Ops \X Codes)]

\* The two halves of every connection agree.  A connection hangs off a device that
\* is active and a client that is waiting for it or using it, and a client that
\* waits for or uses a connection has exactly one: no handler ever follows a
\* pointer to a freed client, device or connection.
ClientsMatchConnections ==
  /\ \A k \in Open :
       /\ dstate[k[1]] = "ACTIVE"
       /\ client[k] \in Clients
       /\ connect_device[client[k]] = k[1]
       /\ state[k] = "CONNECTING" => cstate[client[k]] = "CONNECTING1"
       /\ state[k] = "CONNECTED"  => cstate[client[k]] \in {"CONNECTING2", "CONNECTED"}
  /\ \A k, l \in Open : client[k] = client[l] => k = l
  /\ \A c \in Clients : cstate[c] \in {"CONNECTING1", "CONNECTING2", "CONNECTED"}
       => \E k \in Open : client[k] = c

\* Every request of a live client is answered once, in the order of the requests
\* and under its own tag; only a connect that is still being set up is owed an
\* answer.
AnswersInOrder ==
  \A c \in Clients : Live(c) /\ cstate[c] # "CONNECTED" =>
    /\ \A i \in AnswersIn(ob[c]) :
         ob[c][i].tag = got[c] + Cardinality(AnswersIn(ob[c]) \cap 1..i)
    /\ asked[c] = got[c] + Cardinality(AnswersIn(ob[c])) + Cardinality(RequestsIn(inq[c])) +
                  (IF cstate[c] = "CONNECTING1" THEN 1 ELSE 0)

\* The bytes of a tunnel start right after the CONNECT result that opened it: the
\* result is the last message the client is sent, and a client that has read it
\* is in the tunnel or on its way out.
TunnelIsClean ==
  \A c \in Clients :
    /\ cstate[c] = "CONNECTING2" => ob[c] # <<>> /\
         ob[c][Len(ob[c])].msg = "CONNECT" /\ ob[c][Len(ob[c])].code = "OK"
    /\ cstate[c] = "CONNECTED" => ob[c] = <<>>
    /\ (told[c] = <<"CONNECT", "OK">>) => cstate[c] \in {"CONNECTED", "FREED"}
    /\ cstate[c] = "CONNECTED" => told[c] = <<"CONNECT", "OK">>

\* A segment from k that the host answers with a RST if it knows of no connection.
Pending(k) ==
  \E i \in 1..Len(toHost[k[1]]) :
    toHost[k[1]][i].sport = k[2] /\ toHost[k[1]][i].flags # "RST"

\* No half of a connection stays open on the device when the host has lost its own:
\* whichever way it ends there, the device is sent a RST, unless that fails, or is
\* still to be sent one.  The last is so when its source port has been used again
\* and a RST for the connection before ends the new one.
DeviceToldOfTeardown ==
  \A k \in Conns : remote[k] = "OPEN" => state[k] # "NONE" \/ k \in lost \/ Pending(k)

\* Once device_kill_connections has run nothing can bring a connection back: the
\* shutdown functions that follow, which hold device_list_mutex, find none.
ShutdownLeavesNothing ==
  pc \in {"drain", "exited"} => Open = {} /\
    \A c \in Clients : cstate[c] \notin {"CONNECTING1", "CONNECTING2", "CONNECTED"}

\* To its program each client is a session as MuxSession has it, whatever the other
\* clients, the devices and the loop do.
Session(c) == INSTANCE MuxSession WITH
  Opened <- <<"CONNECT", "OK">>, asked <- asked[c], answered <- got[c], last <- told[c],
  phase <- IF cstate[c] = "FREED" THEN "closed"
           ELSE IF cstate[c] = "CONNECTED" THEN "tunnel" ELSE "commands"

Sessions ==
  /\ \A c \in Clients : Session(c)!SessionInit
  /\ [][\A c \in Clients : [Session(c)!SessionNext]_(Session(c)!session)]_vars

\* Nothing but a segment ends the wait of a client in CONNECTING1, for no timer is
\* kept for it: as long as it waits, either the device has its SYN still to answer or a
\* segment for its port is under way, and the next one taken ends the wait.
AnswerToCome ==
  \A k \in Conns : state[k] = "CONNECTING" =>
    \/ remote[k] = "SYN"
    \/ \E i \in 1..Len(toHost[k[1]]) : toHost[k[1]][i].sport = k[2]

\* A client that waits for a connection is not left waiting.
ConnectAnswered ==
  \A c \in Clients :
    cstate[c] = "CONNECTING1" ~> cstate[c] # "CONNECTING1" \/ ~Running

\* The daemon lets go of a client whose program has closed its socket, whatever it
\* was doing for it.
HangupReleases ==
  \A c \in Clients : capp[c] = "CLOSED" ~> cstate[c] = "FREED" \/ ~Running

\* CONN_DEAD is there "to prevent infinite recursion between client<->device
\* freeing": a client is freed once.
FreedOnce == fault # "double_free"

\* client_process looks at a client after process_recv in no case in which it may
\* have died there ("not both in case client died as part of process_recv").
DeadClientUntouched == fault # "use_after_free"
=============================================================================
