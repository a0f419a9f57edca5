------------------------------ MODULE MuxNotify ------------------------------
(***************************************************************************)
(* How listeners learn which devices there are: client_device_add on the   *)
(* preflight worker's thread of each device against start_listen,          *)
(* client_device_remove, device_check_timeouts, process_send and           *)
(* client_close on the main thread (usbmuxd/src/client.c, device.c).       *)
(*                                                                         *)
(* Here the threads interleave.  client_list_mutex and device_list_mutex   *)
(* are locks that a thread takes in one step and gives back in another;    *)
(* what the code reads or writes without them is a step of its own.  The   *)
(* main thread works on a client's ob_buf, ob_size and events without a    *)
(* mutex, in start_listen and in process_send; when a worker appends to    *)
(* the same client meanwhile, the client is in raced from then on.  Each   *)
(* element of Clients and Devices is one allocation, as in MuxLifecycle.   *)
(***************************************************************************)
EXTENDS Integers, Sequences, SequencesExt

CONSTANTS
  Clients,    \* client structures
  Devices     \* device structures

ASSUME NotifyAssumption == Devices \cap {"main", "nobody", "none"} = {} /\ "none" \notin Clients

VARIABLES
  \* the mutexes: which thread has each
  client_list_mutex, device_list_mutex,
  \* struct mux_client: state, output buffer, POLLOUT in events, device it has a
  \* connection on; buffers released; ob_buf used by two threads at once
  cstate, ob, pollout, tunnel, freed, raced,
  \* struct mux_device: state, visible
  dstate, visible,
  \* the main thread: what it is at and the part that is left of it
  main, client, device, todo, sent,
  \* the preflight worker of each device; the client that the one with
  \* client_list_mutex is appending to
  worker, left, late, dest,
  \* what the client program has read, oldest first
  seen, listening

lockVars   == <<client_list_mutex, device_list_mutex>>
clientVars == <<cstate, ob, pollout, tunnel, freed, raced>>
devVars    == <<dstate, visible>>
mainVars   == <<main, client, device, todo, sent>>
workVars   == <<worker, left, late, dest>>
seenVars   == <<seen, listening>>
vars == <<lockVars, clientVars, devVars, mainVars, workVars, seenVars>>

Main    == "main"
Nobody  == "nobody"
Threads == {Main} \cup Devices
None    == "none"

\* The result of the Listen command, the notices, and bytes that a miscounted
\* ob_size takes for some.
Notice == [what : {"Attached", "Removed"}, dev : Devices]
          \cup [what : {"Result", "Garbled"}, dev : {None}]
Attached(d) == [what |-> "Attached", dev |-> d]
Removed(d)  == [what |-> "Removed", dev |-> d]
Result      == [what |-> "Result", dev |-> None]
Garbled     == [what |-> "Garbled", dev |-> None]

ClientStates == {"NEW", "COMMAND", "CONNECTING2", "CONNECTED", "LISTEN", "FREED"}
DevStates    == {"NEW", "INIT", "ACTIVE", "DEAD", "FREED"}
MainSteps == {"idle", "copy", "read", "announce", "count", "tear", "again", "dead", "tell", "gone",
              "compare", "clear", "mask", "close"}
WorkSteps == {"none", "start", "clients", "notify", "append", "done"}

\* client_list, as a thread that has the mutex finds it.
Listed == {c \in Clients : cstate[c] \notin {"NEW", "FREED"}}

Idle == main = "idle"
ToMain(step, c, d, S) ==
  main' = step /\ client' = c /\ device' = d /\ todo' = S
BackToIdle == ToMain("idle", None, None, {})

\* send_pkt when no other thread can be in the buffer.
SendPkt(c, notices) ==
  /\ ob' = [ob EXCEPT ![c] = @ \o notices]
  /\ pollout' = IF notices = <<>> THEN pollout ELSE pollout \cup {c}

\* The thread is in the middle of a send_pkt or process_send to c.
MainIn(c)   == main \in {"count", "compare", "clear", "mask"} /\ client = c
WorkerIn(c) == dest = c

\* send_pkt otherwise.  The notice is copied to ob_buf + ob_size, and ob_size and
\* events are updated later: by then they can be another thread's.  The update is lost,
\* or it counts bytes that nobody has written or that have been sent before.
SendCount(c, notice) ==
  /\ \E notices \in IF c \in raced THEN {<<>>, <<notice>>, <<Garbled, notice>>}
                                     ELSE {<<notice>>} :
       ob' = [ob EXCEPT ![c] = @ \o notices]
  /\ pollout' = pollout \cup {c}

-----------------------------------------------------------------------------
(***************************************************************************)
(* The main thread.                                                        *)
(***************************************************************************)

\* client_accept: the new client enters client_list.
ClientAccept(c) ==
  /\ Idle /\ cstate[c] = "NEW" /\ client_list_mutex = Nobody
  /\ cstate' = [cstate EXCEPT ![c] = "COMMAND"]
  /\ UNCHANGED <<lockVars, ob, pollout, tunnel, freed, raced, devVars, mainVars,
                 workVars, seenVars>>

\* device_add: the device enters device_list.
DeviceAdd(d) ==
  /\ Idle /\ dstate[d] = "NEW" /\ device_list_mutex = Nobody
  /\ dstate' = [dstate EXCEPT ![d] = "INIT"]
  /\ UNCHANGED <<lockVars, clientVars, visible, mainVars, workVars, seenVars>>

\* device_version_input and preflight_worker_device_add.
DeviceVersionInput(d) ==
  /\ Idle /\ dstate[d] = "INIT"
  /\ dstate' = [dstate EXCEPT ![d] = "ACTIVE"]
  /\ worker' = [worker EXCEPT ![d] = "start"]
  /\ UNCHANGED <<lockVars, clientVars, visible, mainVars, left, late, dest, seenVars>>

\* A connect of c to d, from device_start_connect to client_notify_connect.
Connect(c, d) ==
  /\ Idle /\ cstate[c] = "COMMAND" /\ dstate[d] = "ACTIVE"
  /\ cstate' = [cstate EXCEPT ![c] = "CONNECTING2"]
  /\ tunnel' = [tunnel EXCEPT ![c] = d]
  /\ UNCHANGED <<lockVars, ob, pollout, freed, raced, devVars, mainVars, workVars, seenVars>>

\* process_send has sent the result of the connect.
Connected(c) ==
  /\ Idle /\ cstate[c] = "CONNECTING2"
  /\ cstate' = [cstate EXCEPT ![c] = "CONNECTED"]
  /\ UNCHANGED <<lockVars, ob, pollout, tunnel, freed, raced, devVars, mainVars,
                 workVars, seenVars>>

\* client_command for Listen: the result; start_listen: a listener first, then the list.
StartListen(c) ==
  /\ Idle /\ cstate[c] = "COMMAND"
  /\ cstate' = [cstate EXCEPT ![c] = "LISTEN"]
  /\ SendPkt(c, <<Result>>)
  /\ ToMain("copy", c, None, {})
  /\ UNCHANGED <<lockVars, tunnel, freed, raced, devVars, sent, workVars, seenVars>>

\* device_get_list copies device_list under the mutex, for its capacity only ...
GetListCopy ==
  /\ main = "copy" /\ device_list_mutex = Nobody
  /\ ToMain("read", client, None, Devices)
  /\ UNCHANGED <<lockVars, clientVars, devVars, sent, workVars, seenVars>>

\* ... and then walks the list itself, without the mutex.  sent holds what it found.
GetListRead(d) ==
  /\ main = "read" /\ d \in todo
  /\ todo' = todo \ {d}
  /\ sent' = IF dstate[d] = "ACTIVE" /\ visible[d] THEN Append(sent, Attached(d)) ELSE sent
  /\ UNCHANGED <<lockVars, clientVars, devVars, main, client, device, workVars, seenVars>>

GetListDone ==
  /\ main = "read" /\ todo = {}
  /\ ToMain("announce", client, None, {})
  /\ UNCHANGED <<lockVars, clientVars, devVars, sent, workVars, seenVars>>

\* notify_device_add for each that was found: send_pkt, without a mutex ...
AnnounceCopy ==
  /\ main = "announce" /\ sent # <<>>
  /\ ToMain("count", client, None, {})
  /\ raced' = IF WorkerIn(client) THEN raced \cup {client} ELSE raced
  /\ UNCHANGED <<lockVars, cstate, ob, pollout, tunnel, freed, devVars, sent, workVars,
                 seenVars>>

\* ... in two steps.
AnnounceCount ==
  /\ main = "count"
  /\ SendCount(client, Head(sent))
  /\ sent' = Tail(sent)
  /\ ToMain("announce", client, None, {})
  /\ UNCHANGED <<lockVars, cstate, tunnel, freed, raced, devVars, workVars, seenVars>>

AnnounceDone ==
  /\ main = "announce" /\ sent = <<>>
  /\ listening' = listening \cup {client}
  /\ BackToIdle
  /\ UNCHANGED <<lockVars, clientVars, devVars, sent, workVars, seen>>

\* device_remove takes device_list_mutex, and tears the connections of the device
\* down; a device that was never active is just dropped.
DeviceRemove(d) ==
  /\ Idle /\ dstate[d] \in {"INIT", "ACTIVE"} /\ device_list_mutex = Nobody
  /\ late' = IF worker[d] \in {"start", "clients", "notify", "append"} THEN late \cup {d} ELSE late
  /\ IF dstate[d] = "ACTIVE"
       THEN /\ dstate' = [dstate EXCEPT ![d] = "DEAD"]
            /\ device_list_mutex' = Main
            /\ ToMain("tear", None, d, {c \in Clients : tunnel[c] = d})
       ELSE /\ dstate' = [dstate EXCEPT ![d] = "FREED"]
            /\ UNCHANGED <<device_list_mutex, main, client, device, todo>>
  /\ UNCHANGED <<client_list_mutex, clientVars, visible, sent, worker, left, dest, seenVars>>

\* device_check_timeouts has device_list_mutex as well, and tears down the connections S
\* whose ACK cannot be sent.
CheckTimeouts(S) ==
  /\ Idle /\ device_list_mutex = Nobody
  /\ S # {} /\ \A c \in S : tunnel[c] # None /\ dstate[tunnel[c]] = "ACTIVE"
  /\ device_list_mutex' = Main
  /\ ToMain("tear", None, None, S)
  /\ UNCHANGED <<client_list_mutex, clientVars, devVars, sent, workVars, seenVars>>

\* connection_teardown: client_close, which for a client that is not through with its
\* connect asks for the connection, and that takes device_list_mutex again.
TearDown(c) ==
  /\ main = "tear" /\ c \in todo
  /\ IF cstate[c] = "CONNECTING2"
       THEN ToMain("again", c, device, todo) /\ UNCHANGED freed
       ELSE ToMain("close", c, device, todo \ {c}) /\ freed' = freed \cup {c}
  /\ UNCHANGED <<lockVars, cstate, ob, pollout, tunnel, raced, devVars, sent, workVars, seenVars>>

TearDone ==
  /\ main = "tear" /\ todo = {}
  /\ IF device = None
       THEN BackToIdle /\ device_list_mutex' = Nobody
       ELSE ToMain("dead", None, device, {}) /\ UNCHANGED device_list_mutex
  /\ UNCHANGED <<client_list_mutex, clientVars, devVars, sent, workVars, seenVars>>

\* Mutant of RemoveLockClients: the id is not kept for the notices.
RemoveLockClientsNoId ==
  /\ main = "dead" /\ client_list_mutex = Nobody
  /\ client_list_mutex' = Main
  /\ ToMain("tell", None, None, Listed)
  /\ UNCHANGED <<device_list_mutex, clientVars, devVars, sent, workVars, seenVars>>

\* client_device_remove takes client_list_mutex as well ...
RemoveLockClients ==
  /\ main = "dead" /\ client_list_mutex = Nobody
  /\ client_list_mutex' = Main
  /\ ToMain("tell", None, device, Listed)
  /\ UNCHANGED <<device_list_mutex, clientVars, devVars, sent, workVars, seenVars>>

\* Mutant of RemoveTell: a listener that has not been sent everything yet is passed over.
RemoveTellIdle(c) ==
  /\ main = "tell" /\ c \in todo
  /\ todo' = todo \ {c}
  /\ SendPkt(c, IF cstate[c] = "LISTEN" /\ ob[c] = <<>> THEN <<Removed(device)>> ELSE <<>>)
  /\ UNCHANGED <<lockVars, cstate, tunnel, freed, raced, devVars, main, client, device, sent,
                 workVars, seenVars>>

\* ... tells every listener ...
RemoveTell(c) ==
  /\ main = "tell" /\ c \in todo
  /\ todo' = todo \ {c}
  /\ SendPkt(c, IF cstate[c] = "LISTEN" THEN <<Removed(device)>> ELSE <<>>)
  /\ UNCHANGED <<lockVars, cstate, tunnel, freed, raced, devVars, main, client, device, sent,
                 workVars, seenVars>>

\* Mutant of RemoveUnlockClients: client_device_remove leaves without the unlock.
RemoveUnlockClientsNot ==
  /\ main = "tell" /\ todo = {}
  /\ ToMain("gone", None, device, {})
  /\ UNCHANGED <<lockVars, clientVars, devVars, sent, workVars, seenVars>>

RemoveUnlockClients ==
  /\ main = "tell" /\ todo = {}
  /\ client_list_mutex' = Nobody
  /\ ToMain("gone", None, device, {})
  /\ UNCHANGED <<device_list_mutex, clientVars, devVars, sent, workVars, seenVars>>

\* ... and device_remove drops the device.
RemoveDone ==
  /\ main = "gone"
  /\ dstate' = [dstate EXCEPT ![device] = "FREED"]
  /\ device_list_mutex' = Nobody
  /\ BackToIdle
  /\ UNCHANGED <<client_list_mutex, clientVars, visible, sent, workVars, seenVars>>

\* process_send: send() takes the first n of what is in ob_buf ...
ProcessSend(c) ==
  /\ Idle /\ cstate[c] = "LISTEN" /\ c \in pollout /\ ob[c] # <<>>
  /\ \E n \in 1..Len(ob[c]) :
       seen' = [seen EXCEPT ![c] = @ \o SubSeq(ob[c], 1, n)] /\ sent' = SubSeq(ob[c], 1, n)
  /\ ToMain("compare", c, None, {})
  /\ raced' = IF WorkerIn(c) THEN raced \cup {c} ELSE raced
  /\ UNCHANGED <<lockVars, cstate, ob, pollout, tunnel, freed, devVars, workVars, listening>>

\* Mutant of SendCompare: a send that takes a part masks POLLOUT as well.
SendCompareMasks ==
  /\ main = "compare"
  /\ ob' = [ob EXCEPT ![client] = SubSeq(@, Len(sent) + 1, Len(@))]
  /\ ToMain("mask", client, None, {})
  /\ sent' = <<>>
  /\ UNCHANGED <<lockVars, cstate, pollout, tunnel, freed, raced, devVars, workVars, seenVars>>

\* ... what it took is compared with ob_size, as it is by now; if there is more,
\* ob_size -= res and memmove ...
SendCompare ==
  /\ main = "compare"
  /\ IF Len(ob[client]) = Len(sent)
       THEN ToMain("clear", client, None, {}) /\ UNCHANGED ob
       ELSE /\ ob' = [ob EXCEPT ![client] = SubSeq(@, Len(sent) + 1, Len(@))]
            /\ BackToIdle
  /\ sent' = <<>>
  /\ UNCHANGED <<lockVars, cstate, pollout, tunnel, freed, raced, devVars, workVars, seenVars>>

\* ... or else ob_size = 0 ...
SendClear ==
  /\ main = "clear"
  /\ ob' = [ob EXCEPT ![client] = <<>>]
  /\ ToMain("mask", client, None, {})
  /\ UNCHANGED <<lockVars, cstate, pollout, tunnel, freed, raced, devVars, sent, workVars, seenVars>>

\* ... and POLLOUT is masked.
SendMask ==
  /\ main = "mask"
  /\ pollout' = pollout \ {client}
  /\ BackToIdle
  /\ UNCHANGED <<lockVars, cstate, ob, tunnel, freed, raced, devVars, sent, workVars, seenVars>>

\* client_close, of a client or of a tunnel's client (connection_teardown), releases
\* the buffers first ...
ClientClose(c) ==
  /\ Idle /\ cstate[c] \in {"COMMAND", "CONNECTED", "LISTEN"}
  /\ freed' = freed \cup {c}
  /\ ToMain("close", c, None, {})
  /\ UNCHANGED <<lockVars, cstate, ob, pollout, tunnel, raced, devVars, sent, workVars, seenVars>>

\* ... and then takes the client off client_list; with device_list_mutex held, there
\* may be more connections to tear down.
CloseRemove ==
  /\ main = "close" /\ client_list_mutex = Nobody
  /\ cstate' = [cstate EXCEPT ![client] = "FREED"]
  /\ ob' = [ob EXCEPT ![client] = <<>>] /\ pollout' = pollout \ {client}
  /\ tunnel' = [tunnel EXCEPT ![client] = None]
  /\ listening' = listening \ {client}
  /\ IF device_list_mutex = Main THEN ToMain("tear", None, device, todo) ELSE BackToIdle
  /\ UNCHANGED <<lockVars, freed, raced, devVars, sent, workVars, seen>>

-----------------------------------------------------------------------------
(***************************************************************************)
(* A preflight worker: client_device_add.  One that fails never gets here. *)
(***************************************************************************)

WorkerLockClients(d) ==
  /\ worker[d] = "start" /\ client_list_mutex = Nobody
  /\ client_list_mutex' = d
  /\ worker' = [worker EXCEPT ![d] = "clients"]
  /\ UNCHANGED <<device_list_mutex, clientVars, devVars, mainVars, left, late, dest, seenVars>>

\* device_set_visible, if the device is still in the list.
WorkerSetVisible(d) ==
  /\ worker[d] = "clients" /\ device_list_mutex = Nobody
  /\ visible' = [visible EXCEPT ![d] = dstate[d] \in {"INIT", "ACTIVE", "DEAD"}]
  /\ left' = [left EXCEPT ![d] = Listed]
  /\ worker' = [worker EXCEPT ![d] = "notify"]
  /\ UNCHANGED <<lockVars, clientVars, dstate, mainVars, late, dest, seenVars>>

\* notify_device_add to a client of the list, if it is a listener: the notice is
\* copied, whatever the main thread is doing to the client ...
WorkerNotify(d, c) ==
  /\ worker[d] = "notify" /\ c \in left[d]
  /\ left' = [left EXCEPT ![d] = @ \ {c}]
  /\ IF cstate[c] = "LISTEN"
       THEN /\ dest' = c /\ worker' = [worker EXCEPT ![d] = "append"]
            /\ raced' = IF MainIn(c) THEN raced \cup {c} ELSE raced
       ELSE UNCHANGED <<dest, worker, raced>>
  /\ UNCHANGED <<lockVars, cstate, ob, pollout, tunnel, freed, devVars, mainVars, late, seenVars>>

\* ... and counted.
WorkerCount(d) ==
  /\ worker[d] = "append"
  /\ SendCount(dest, Attached(d))
  /\ dest' = None /\ worker' = [worker EXCEPT ![d] = "notify"]
  /\ UNCHANGED <<lockVars, cstate, tunnel, freed, raced, devVars, mainVars, left, late, seenVars>>

WorkerDone(d) ==
  /\ worker[d] = "notify" /\ left[d] = {}
  /\ client_list_mutex' = Nobody
  /\ worker' = [worker EXCEPT ![d] = "done"]
  /\ UNCHANGED <<device_list_mutex, clientVars, devVars, mainVars, left, late, dest, seenVars>>

-----------------------------------------------------------------------------

Init ==
  /\ client_list_mutex = Nobody /\ device_list_mutex = Nobody
  /\ cstate = [c \in Clients |-> "NEW"] /\ ob = [c \in Clients |-> <<>>]
  /\ pollout = {} /\ tunnel = [c \in Clients |-> None] /\ freed = {} /\ raced = {}
  /\ dstate = [d \in Devices |-> "NEW"] /\ visible = [d \in Devices |-> FALSE]
  /\ main = "idle" /\ client = None /\ device = None /\ todo = {} /\ sent = <<>>
  /\ worker = [d \in Devices |-> "none"] /\ left = [d \in Devices |-> {}]
  /\ late = {} /\ dest = None
  /\ seen = [c \in Clients |-> <<>>] /\ listening = {}

Listening == (\E c \in Clients : StartListen(c)) \/ GetListCopy
             \/ (\E d \in Devices : GetListRead(d)) \/ GetListDone
             \/ AnnounceCopy \/ AnnounceCount \/ AnnounceDone
Tearing   == (\E S \in SUBSET Clients : CheckTimeouts(S)) \/ (\E c \in Clients : TearDown(c))
             \/ TearDone
Removing  == (\E d \in Devices : DeviceRemove(d)) \/ RemoveLockClients
             \/ (\E c \in Clients : RemoveTell(c)) \/ RemoveUnlockClients \/ RemoveDone
Sending   == (\E c \in Clients : ProcessSend(c)) \/ SendCompare \/ SendClear \/ SendMask
Closing   == (\E c \in Clients : ClientClose(c)) \/ CloseRemove
Arriving  == \/ \E c \in Clients : ClientAccept(c) \/ Connected(c) \/ \E d \in Devices : Connect(c, d)
             \/ \E d \in Devices : DeviceAdd(d) \/ DeviceVersionInput(d)
\* Mutant of Working: device_set_visible comes after the clients have been told.
WorkingVisibleLast(d) ==
  \/ WorkerLockClients(d)
  \/ /\ worker[d] = "clients"
     /\ left' = [left EXCEPT ![d] = Listed]
     /\ worker' = [worker EXCEPT ![d] = "notify"]
     /\ UNCHANGED <<lockVars, clientVars, devVars, mainVars, late, dest, seenVars>>
  \/ (\E c \in Clients : WorkerNotify(d, c)) \/ WorkerCount(d)
  \/ /\ worker[d] = "notify" /\ left[d] = {} /\ device_list_mutex = Nobody
     /\ visible' = [visible EXCEPT ![d] = dstate[d] \in {"INIT", "ACTIVE", "DEAD"}]
     /\ client_list_mutex' = Nobody
     /\ worker' = [worker EXCEPT ![d] = "done"]
     /\ UNCHANGED <<device_list_mutex, clientVars, dstate, mainVars, left, late, dest, seenVars>>

Working(d) == \/ WorkerLockClients(d) \/ WorkerSetVisible(d) \/ WorkerCount(d) \/ WorkerDone(d)
              \/ \E c \in Clients : WorkerNotify(d, c)

Next == \/ Listening \/ Tearing \/ Removing \/ Sending \/ Closing \/ Arriving
        \/ \E d \in Devices : Working(d)

Spec == Init /\ [][Next]_vars

\* The main thread finishes what it began and sends what it has; a worker that has
\* come to client_device_add goes on.
Fairness ==
  /\ WF_vars(~Idle /\ (Listening \/ Tearing \/ Removing \/ Sending \/ Closing))
  /\ \A c \in Clients : WF_vars(ProcessSend(c))
  /\ \A d \in Devices : WF_vars(Working(d))

FairSpec == Spec /\ Fairness

-----------------------------------------------------------------------------

TypeOK ==
  /\ client_list_mutex \in Threads \cup {Nobody}
  /\ device_list_mutex \in Threads \cup {Nobody}
  /\ cstate \in [Clients -> ClientStates] /\ ob \in [Clients -> Seq(Notice)]
  /\ pollout \subseteq Clients /\ freed \subseteq Clients /\ raced \subseteq Clients
  /\ tunnel \in [Clients -> Devices \cup {None}]
  /\ dstate \in [Devices -> DevStates] /\ visible \in [Devices -> BOOLEAN]
  /\ main \in MainSteps
  /\ client \in Clients \cup {None} /\ device \in Devices \cup {None}
  /\ todo \subseteq Clients \cup Devices /\ sent \in Seq(Notice)
  /\ worker \in [Devices -> WorkSteps] /\ left \in [Devices -> SUBSET Clients]
  /\ late \subseteq Devices /\ dest \in Clients \cup {None}
  /\ seen \in [Clients -> Seq(Notice)] /\ listening \subseteq Clients

\* What is in ob_buf and has still to be sent: what process_send has sent it takes out
\* afterwards.
Unsent(c) ==
  IF client = c /\ main = "clear" THEN <<>>
  ELSE IF client = c /\ main = "compare" THEN SubSeq(ob[c], Len(sent) + 1, Len(ob[c]))
  ELSE ob[c]

\* Everything a listener has been sent or will be, in order.
Told(c) == seen[c] \o Unsent(c)

\* Every notice that d is there is followed by one that it is not.
Ended(s, d) ==
  \A i \in 1..Len(s) : s[i] = Attached(d) => \E j \in i..Len(s) : s[j] = Removed(d)

\* The worker of d has still to tell c, or is about to.
WorkerWill(d, c) == c \in left[d] \/ (worker[d] = "append" /\ dest = c)

\* c has been told of every device that is visible, or the worker is about to tell it.
ToldAll(c) ==
  \A d \in Devices :
    dstate[d] = "ACTIVE" /\ visible[d] /\ ~WorkerWill(d, c)
      => Attached(d) \in ToSet(Told(c))

\* A listener with its list in hand has been told of every device that is visible, or
\* is on the list of the worker: start_listen sets CLIENT_LISTEN before it reads the
\* list and client_device_add sets visible before it reads the states, so that
\* whichever comes second finds what the other has done.  That much needs no common
\* lock; the buffer does, and what two threads do to it at once is another matter: see
\* NoNoticeLost.
NoDeviceMissed ==
  \A c \in listening \ raced : ToldAll(c)

\* A device that had been announced when it was removed is not believed to be
\* there by any listener whose buffer one thread at a time has worked on.
NoDeviceLeftBehind ==
  \A c \in listening \ raced, d \in Devices :
    dstate[d] = "FREED" /\ d \notin late => Ended(Told(c), d)

\* Main waits for good: with device_list_mutex it wants client_list_mutex while a worker
\* wants the reverse (device_remove, and every client_close of a teardown, against
\* client_device_add), or it wants device_list_mutex again.
Stuck ==
  /\ device_list_mutex = Main
  /\ \/ main = "again"
     \/ main \in {"dead", "close"} /\ \E d \in Devices : worker[d] = "clients"

\* A listener that stays, and that no worker meets in its buffer, reads of every device
\* that becomes visible and stays, unless the main thread waits for good.
EveryDeviceSeen ==
  \A c \in Clients, d \in Devices :
    c \in listening /\ visible[d] ~>
      \/ Attached(d) \in ToSet(seen[c])
      \/ c \in freed \cup raced \/ dstate[d] # "ACTIVE" \/ Stuck

\* The same of every listener: what the worker appends to a listener's buffer with
\* client_list_mutex held stays there until it has been sent.
NoNoticeLost == \A c \in listening : ToldAll(c)

\* The two mutexes, said to "improve thread safety", let the threads go on: never
\* does each of two wait for the one the other has.
NoDeadlock == ~Stuck

\* What a listener has not read of a device that is visible and stays is on its way:
\* the worker has still to tell it, or the notice is in ob_buf and the main loop polls
\* for a socket that takes it (client.c:674-692).
OnItsWay ==
  \A c \in listening \ raced, d \in Devices :
    dstate[d] = "ACTIVE" /\ visible[d] =>
      \/ Attached(d) \in ToSet(seen[c])
      \/ Attached(d) \in ToSet(ob[c]) /\ c \in pollout
      \/ WorkerWill(d, c)

\* At a pthread_mutex_lock of a mutex that another thread has.
MainWaits ==
  \/ main \in {"copy", "again"} /\ device_list_mutex # Nobody
  \/ main \in {"dead", "close"} /\ client_list_mutex # Nobody
WorkerWaits(d) ==
  \/ worker[d] = "start" /\ client_list_mutex # Nobody
  \/ worker[d] = "clients" /\ device_list_mutex # Nobody

\* Every deadlock is one of a main thread that calls out of the devices' list with its
\* mutex held: short of that, whoever waits for a mutex waits for a thread that has not
\* finished and does not wait.
NobodyElseStuck ==
  LET MainRuns  == ~Idle /\ ~MainWaits
      OwnerRuns == \E d \in Devices :
                     client_list_mutex = d /\ worker[d] # "done" /\ ~WorkerWaits(d)
  IN  ~Stuck => /\ MainWaits => OwnerRuns
                /\ (\E d \in Devices : WorkerWaits(d)) => MainRuns \/ OwnerRuns

\* From a deadlock the main thread never returns.
StuckForGood == [][Stuck => Stuck']_vars
=============================================================================
