----------------------------- MODULE UsbmuxdLib ------------------------------
(***************************************************************************)
(* The device monitor of libusbmuxd (libusbmuxd/src/libusbmuxd.c): the     *)
(* thread that usbmuxd_subscribe starts.  It connects to the daemon, asks  *)
(* it for notices, turns them into events for the program's callback, and  *)
(* starts again when the daemon has gone; usbmuxd_unsubscribe stops it.    *)
(*                                                                         *)
(* The program's thread and the monitor share event_cb and listenfd, two   *)
(* plain variables.  Nothing orders a store to one with a load of the      *)
(* other: a store of listenfd is seen by the program by the time the       *)
(* monitor is in its next system call, and until then may not be.          *)
(*                                                                         *)
(* The daemon is what MuxNotify makes of it: the list when a client begins *)
(* to listen, a notice from the worker of each device that comes so far,   *)
(* and one for each removal.  A device may be announced twice, after it    *)
(* has gone, or not at all; the notices of a worker that meets the main    *)
(* thread in the client's buffer may be lost or come with others that      *)
(* nobody wrote; and a daemon that is stuck answers nobody.  Its handles   *)
(* start at 1 again with each daemon.                                      *)
(***************************************************************************)
EXTENDS Integers, Sequences, FiniteSets, Functions

CONSTANTS
  MaxHandles,  \* bound: devices that come to one daemon
  MaxDevices,  \* bound: devices that come to all of them
  MaxDaemons,  \* bound: daemons started
  MaxSubs,     \* bound: subscriptions of the program
  MaxEntries,  \* bound: entries of a device when it is garbled notices that make them
  MaxBroken    \* bound: connections that are given up for what cannot be read

ASSUME LibAssumption ==
  {MaxHandles, MaxDevices, MaxDaemons, MaxSubs, MaxEntries, MaxBroken} \subseteq Nat

VARIABLES
  \* the daemon: devices visible to listeners, those a worker is about to
  \* announce, those announced after their removal
  up, daemons, came, next_id, attached, telling, late,
  \* the monitor's last connection: its number is its descriptor; the state of
  \* the daemon's client; what has not been read; whether two threads of the daemon
  \* have been in the client's buffer at once; whether the daemon's end has been
  \* closed, or the connection shut down by usbmuxd_unsubscribe
  sfd, client, inbox, raced, eof, shut,
  \* the library; listenfd as the program sees it; the argument of get_next_event
  event_cb, listenfd, listenfdSeen, callback, devices, monitor,
  \* the program, and the devices it knows of
  prog, subs, view,
  \* usbmuxd_unsubscribe has shut down another descriptor than the one that is read
  missed

daemonVars  == <<up, daemons, came, next_id, attached, telling, late>>
connVars    == <<sfd, client, inbox, raced, eof, shut>>
fdVars      == <<listenfd, listenfdSeen>>
monitorVars == <<callback, devices, monitor>>
progVars    == <<prog, subs, event_cb, missed>>
vars == <<daemonVars, connVars, fdVars, monitorVars, progVars, view>>

Handles == 1..MaxHandles
NoFd    == -1
NoList  == [h \in Handles |-> 0]

Notice(kind, h) == [kind |-> kind, handle |-> h]
Result    == Notice("RESULT", 0)
DeviceAdd(h)    == Notice("ADD", h)
DeviceRemove(h) == Notice("REMOVE", h)
Notices == {Result} \cup {DeviceAdd(h) : h \in Handles} \cup {DeviceRemove(h) : h \in Handles}

-----------------------------------------------------------------------------
(***************************************************************************)
(* The daemon.                                                             *)
(***************************************************************************)

StartDaemon ==
  /\ ~up /\ daemons < MaxDaemons
  /\ up' = TRUE /\ daemons' = daemons + 1 /\ next_id' = 1
  /\ UNCHANGED <<came, attached, telling, late, connVars, fdVars, monitorVars, progVars, view>>

\* It exits or dies.  What it has written can still be read.
StopDaemon ==
  /\ up
  /\ up' = FALSE /\ attached' = {} /\ telling' = {} /\ late' = {}
  /\ client' = "NONE" /\ eof' = TRUE
  /\ UNCHANGED <<daemons, came, next_id, sfd, inbox, raced, shut, fdVars, monitorVars, progVars, view>>

\* send_pkt to the listener, if there is one that can still read it.
SendPkt(notices) ==
  /\ inbox' = IF client = "LISTEN" /\ ~raced /\ ~shut THEN inbox \o notices ELSE inbox
  /\ UNCHANGED raced

\* A worker and the main thread are in ob_buf at once.  From here on bytes can be lost,
\* and others sent that nobody has written: what is read can be anything.
Race == raced' = TRUE /\ inbox' = <<>>

\* A device becomes active and its preflight worker starts.
Attach ==
  /\ up /\ next_id <= MaxHandles /\ came < MaxDevices
  /\ attached' = attached \cup {next_id} /\ telling' = telling \cup {next_id}
  /\ next_id' = next_id + 1 /\ came' = came + 1
  /\ UNCHANGED <<up, daemons, late, connVars, fdVars, monitorVars, progVars, view>>

\* client_device_add, on the worker's thread, if the worker comes so far.
Tell(h) ==
  /\ h \in telling
  /\ telling' = telling \ {h}
  /\ late' = IF h \in attached THEN late ELSE late \cup {h}
  /\ SendPkt(<<DeviceAdd(h)>>) \/ (client = "LISTEN" /\ Race)
  /\ UNCHANGED <<up, daemons, came, next_id, attached, sfd, client, eof, shut, fdVars, monitorVars, progVars, view>>

\* client_device_remove.
Detach(h) ==
  /\ h \in attached
  /\ attached' = attached \ {h}
  /\ SendPkt(<<DeviceRemove(h)>>)
  /\ UNCHANGED <<up, daemons, came, next_id, telling, late, sfd, client, eof, shut, fdVars, monitorVars, progVars, view>>

\* The answer to LISTEN and start_listen.  A device whose worker has set it visible
\* and has not told the listeners is in the list, which is in any order.  A worker may
\* append meanwhile.
HandleListen ==
  /\ client = "ASKED" /\ ~shut
  /\ client' = "LISTEN"
  /\ \/ telling # {} /\ Race
     \/ /\ UNCHANGED raced
        /\ \E visible \in SUBSET (attached \cap telling) :
             LET S == (attached \ telling) \cup visible
             IN  \E list \in Bijection(1..Cardinality(S), S) :
                   inbox' = <<Result>> \o [i \in 1..Cardinality(S) |-> DeviceAdd(list[i])]
  /\ UNCHANGED <<daemonVars, sfd, eof, shut, fdVars, monitorVars, progVars, view>>

-----------------------------------------------------------------------------
(***************************************************************************)
(* The monitor.                                                            *)
(***************************************************************************)

\* A system call of the monitor: its stores have been seen by then.
Goto(step) == monitor' = step
InCall == listenfdSeen = listenfd

\* while (event_cb)
WhileOuter ==
  /\ monitor = "outer"
  /\ Goto(IF event_cb THEN "connect" ELSE "cleanup")
  /\ UNCHANGED <<daemonVars, connVars, fdVars, callback, devices, progVars, view>>

\* usbmuxd_listen_poll: there is a daemon ...
Connect ==
  /\ monitor = "connect" /\ up /\ InCall
  /\ sfd' = sfd + 1 /\ client' = "COMMAND" /\ inbox' = <<>> /\ raced' = FALSE
  /\ eof' = FALSE /\ shut' = FALSE
  /\ Goto("listen")
  /\ UNCHANGED <<daemonVars, fdVars, callback, devices, progVars, view>>

\* ... or there is none, and no callback any more.  With one it tries again in 1 s.
ConnectFails ==
  /\ monitor = "connect" /\ ~up /\ ~event_cb /\ InCall
  /\ listenfd' = NoFd
  /\ Goto("outer")
  /\ UNCHANGED <<daemonVars, connVars, listenfdSeen, callback, devices, progVars, view>>

\* send_listen_packet.  What fails is closed (twice, if a part of it was sent).
SendListen ==
  /\ monitor = "listen"
  /\ IF eof THEN listenfd' = NoFd /\ Goto("outer") /\ UNCHANGED client
            ELSE client' = "ASKED" /\ Goto("result") /\ UNCHANGED listenfd
  /\ UNCHANGED <<daemonVars, sfd, inbox, raced, eof, shut, listenfdSeen, callback, devices, progVars, view>>

\* usbmuxd_get_result: any end of it but a refusal is taken for success, and one
\* is that the daemon has gone or has not answered in 5 s.
GetResult ==
  /\ monitor = "result"
  /\ inbox' = IF inbox = <<>> THEN inbox ELSE Tail(inbox)
  /\ listenfd' = sfd
  /\ Goto("inner")
  /\ UNCHANGED <<daemonVars, sfd, client, raced, eof, shut, listenfdSeen, callback, devices, progVars, view>>

\* The inner while (event_cb).
WhileInner ==
  /\ monitor = "inner"
  /\ Goto(IF event_cb THEN "argument" ELSE "outer")
  /\ UNCHANGED <<daemonVars, connVars, fdVars, callback, devices, progVars, view>>

\* The call of get_next_event reads event_cb again.
CallNext ==
  /\ monitor = "argument"
  /\ callback' = event_cb
  /\ Goto("receive")
  /\ UNCHANGED <<daemonVars, connVars, fdVars, devices, progVars, view>>

\* generate_event: the program learns of it if there is a callback.
GenerateEvents(kind, S) ==
  view' = IF ~callback THEN view ELSE IF kind = "ADD" THEN view \cup S ELSE view \ S

Known == {h \in Handles : devices[h] > 0}

\* Mutant of ReadNotice: a removal is for an entry, be there one or not.
ReadNoticeBlindly(n) ==
  CASE n.kind = "ADD" ->
         /\ devices' = [devices EXCEPT ![n.handle] = @ + 1]
         /\ GenerateEvents("ADD", {n.handle})
    [] n.kind = "REMOVE" ->
         /\ devices' = [devices EXCEPT ![n.handle] = @ - 1]
         /\ GenerateEvents("REMOVE", {n.handle})
    [] OTHER -> UNCHANGED <<devices, view>>

\* What get_next_event does with a packet: a removal is for the first entry that
\* devices_find comes to, if there is one.
ReadNotice(n) ==
  CASE n.kind = "ADD" ->
         /\ devices' = [devices EXCEPT ![n.handle] = @ + 1]
         /\ GenerateEvents("ADD", {n.handle})
    [] n.kind = "REMOVE" /\ n.handle \in Known ->
         /\ devices' = [devices EXCEPT ![n.handle] = @ - 1]
         /\ GenerateEvents("REMOVE", {n.handle})
    [] OTHER -> UNCHANGED <<devices, view>>

GetNextEvent ==
  /\ monitor = "receive" /\ inbox # <<>> /\ InCall
  /\ ReadNotice(Head(inbox))
  /\ inbox' = Tail(inbox)
  /\ Goto("inner")
  /\ UNCHANGED <<daemonVars, sfd, client, raced, eof, shut, fdVars, callback, progVars>>

\* receive_packet on what two threads have garbled: a packet of some kind, or none.
GetGarbled ==
  /\ monitor = "receive" /\ raced /\ InCall
  /\ \/ /\ \E n \in Notices : /\ n.kind = "ADD" => devices[n.handle] < MaxEntries
                              /\ ReadNotice(n)
        /\ Goto("inner")
     \/ /\ sfd <= MaxBroken
        /\ GenerateEvents("REMOVE", Known) /\ devices' = NoList
        /\ Goto("outer")
  /\ UNCHANGED <<daemonVars, connVars, fdVars, callback, progVars>>

\* Mutant of ConnectionLost: the entries are freed and the program is not told.
ConnectionLostQuietly ==
  /\ monitor = "receive" /\ inbox = <<>> /\ (eof \/ shut) /\ InCall
  /\ devices' = NoList
  /\ Goto("outer")
  /\ UNCHANGED <<daemonVars, connVars, fdVars, callback, progVars, view>>

\* Mutant of ConnectionLost: get_next_event does not return an error.
ConnectionLostAgain ==
  /\ monitor = "receive" /\ inbox = <<>> /\ (eof \/ shut) /\ InCall
  /\ GenerateEvents("REMOVE", Known)
  /\ devices' = NoList
  /\ Goto("inner")
  /\ UNCHANGED <<daemonVars, connVars, fdVars, callback, progVars>>

\* get_next_event at the end of the connection: every device is taken to be gone.
ConnectionLost ==
  /\ monitor = "receive" /\ inbox = <<>> /\ (eof \/ shut) /\ InCall
  /\ GenerateEvents("REMOVE", Known)
  /\ devices' = NoList
  /\ Goto("outer")
  /\ UNCHANGED <<daemonVars, connVars, fdVars, callback, progVars>>

\* device_monitor_cleanup; the daemon closes its client.
Cleanup ==
  /\ monitor = "cleanup"
  /\ devices' = NoList
  /\ listenfd' = NoFd
  /\ client' = "NONE" /\ inbox' = <<>>
  /\ Goto("ended")
  /\ UNCHANGED <<daemonVars, sfd, raced, eof, shut, listenfdSeen, callback, progVars, view>>

\* A store of listenfd reaches the program.
ListenfdSeen ==
  /\ ~InCall
  /\ listenfdSeen' = listenfd
  /\ UNCHANGED <<daemonVars, connVars, listenfd, monitorVars, progVars, view>>

-----------------------------------------------------------------------------
(***************************************************************************)
(* The program.                                                            *)
(***************************************************************************)

\* usbmuxd_subscribe and the beginning of device_monitor.
Subscribe ==
  /\ prog = "idle" /\ subs < MaxSubs
  /\ prog' = "subscribed" /\ subs' = subs + 1
  /\ event_cb' = TRUE /\ missed' = FALSE
  /\ devices' = NoList /\ Goto("outer")
  /\ UNCHANGED <<daemonVars, connVars, fdVars, callback, view>>

\* usbmuxd_unsubscribe: event_cb = NULL ...
Unsubscribe ==
  /\ prog = "subscribed"
  /\ prog' = "shutdown" /\ event_cb' = FALSE
  /\ UNCHANGED <<daemonVars, connVars, fdVars, monitorVars, subs, missed, view>>

\* Mutant of ShutdownFd: the monitor is left to find out by itself.
ShutdownFdNot ==
  /\ prog = "shutdown"
  /\ prog' = "join"
  /\ missed' = (listenfdSeen # listenfd /\ monitor \in {"argument", "receive"})
  /\ UNCHANGED <<daemonVars, connVars, fdVars, monitorVars, subs, event_cb, view>>

\* ... socket_shutdown(listenfd) ...
ShutdownFd ==
  /\ prog = "shutdown"
  /\ prog' = "join"
  /\ shut' = (shut \/ listenfdSeen = sfd)
  /\ missed' = (listenfdSeen # listenfd /\ monitor \in {"argument", "receive"})
  /\ UNCHANGED <<daemonVars, sfd, client, inbox, raced, eof, fdVars, monitorVars, subs, event_cb, view>>

\* ... and pthread_join.  The program then has no view of the devices.
Join ==
  /\ prog = "join" /\ monitor = "ended" /\ InCall
  /\ prog' = "idle" /\ Goto("off") /\ view' = {}
  /\ UNCHANGED <<daemonVars, connVars, fdVars, callback, devices, subs, event_cb, missed>>

-----------------------------------------------------------------------------
Init ==
  /\ up = FALSE /\ daemons = 0 /\ came = 0 /\ next_id = 1
  /\ attached = {} /\ telling = {} /\ late = {}
  /\ sfd = 0 /\ client = "NONE" /\ inbox = <<>> /\ raced = FALSE /\ eof = TRUE /\ shut = FALSE
  /\ listenfd = NoFd /\ listenfdSeen = NoFd
  /\ callback = FALSE /\ devices = NoList /\ monitor = "off"
  /\ prog = "idle" /\ subs = 0 /\ event_cb = FALSE /\ missed = FALSE
  /\ view = {}

Daemon == StartDaemon \/ StopDaemon \/ Attach \/ (\E h \in Handles : Detach(h))
Telling == HandleListen \/ \E h \in Handles : Tell(h)
Monitor == \/ WhileOuter \/ Connect \/ ConnectFails \/ SendListen \/ GetResult
           \/ WhileInner \/ CallNext \/ GetNextEvent \/ ConnectionLost \/ Cleanup
Stopping == ShutdownFd \/ Join

Next == Daemon \/ Telling \/ Monitor \/ GetGarbled \/ ListenfdSeen \/ Subscribe \/ Unsubscribe \/ Stopping

\* The threads of the library run, and stores are seen.  Of the daemon nothing is
\* asked: none has to be started or to stop, to answer or to announce a device.
Fairness ==
  /\ WF_vars(Monitor) /\ WF_vars(ListenfdSeen) /\ WF_vars(Stopping)

Spec == Init /\ [][Next]_vars
FairSpec == Spec /\ Fairness

-----------------------------------------------------------------------------
(***************************************************************************)
(* What holds.                                                             *)
(***************************************************************************)

\* The state of every variable is one the program can be in.
TypeOK ==
  /\ up \in BOOLEAN /\ daemons \in 0..MaxDaemons /\ came \in 0..MaxDevices /\ next_id \in 1..(MaxHandles + 1)
  /\ attached \subseteq Handles /\ telling \subseteq Handles /\ late \subseteq Handles
  /\ sfd \in Nat /\ client \in {"NONE", "COMMAND", "ASKED", "LISTEN"}
  /\ inbox \in Seq(Notices) /\ raced \in BOOLEAN /\ eof \in BOOLEAN /\ shut \in BOOLEAN
  /\ {listenfd, listenfdSeen} \subseteq {NoFd} \cup 1..sfd
  /\ event_cb \in BOOLEAN /\ callback \in BOOLEAN /\ devices \in [Handles -> Nat]
  /\ monitor \in {"off", "outer", "connect", "listen", "result", "inner",
                  "argument", "receive", "cleanup", "ended"}
  /\ prog \in {"idle", "subscribed", "shutdown", "join"} /\ subs \in 0..MaxSubs
  /\ view \subseteq Handles /\ missed \in BOOLEAN

\* What a program that knows of the devices V will know when it has read s: those it
\* has been told of, now or by s, and not of their removal since.
Heard(V, s) ==
  {h \in Handles : \E i \in 0..Len(s) :
     /\ IF i = 0 THEN h \in V ELSE s[i] = DeviceAdd(h)
     /\ \A j \in (i + 1)..Len(s) : s[j] # DeviceRemove(h)}

Told == Heard(view, inbox)

\* A program that stays subscribed is told what is there: while its connection
\* lasts, every device that has been announced and no other, but for those that
\* were announced late.  (If threads of the daemon have met in its client's buffer
\* nothing can be said.)  Before the next connection it is told that all are gone,
\* in any case, so that no handle of the next daemon meets one of the last.
ViewAgrees ==
  prog = "subscribed" =>
    /\ client = "LISTEN" /\ ~raced =>
         attached \ telling \subseteq Told /\ Told \subseteq attached \cup late
    /\ monitor \in {"outer", "connect", "listen", "result"} => view = {}

\* What a program knows of a daemon that listens to it is what that has announced; of
\* one that does not answer, or without one, it knows nothing.
Converged ==
  /\ up => client \in {"ASKED", "LISTEN"}
  /\ IF client = "LISTEN" THEN attached \ telling \subseteq view /\ view \subseteq attached \cup late
                           ELSE view = {}

\* A program that stays subscribed asks the daemon that stays, however often daemons
\* have gone and come while it connected, and comes to know what that announces, unless
\* threads have met in the buffer of its connection.
ViewConverges ==
  <>[](prog = "subscribed" /\ ~raced) => <>[]Converged

\* usbmuxd_unsubscribe returns, although the monitor may be waiting for a packet
\* for ever and is not cancelled on Android: the shutdown of its descriptor stays
\* in force.  Not so if it did not see the descriptor.
UnsubscribeEnds ==
  (prog = "join" /\ ~missed) ~> prog = "idle"
=============================================================================
