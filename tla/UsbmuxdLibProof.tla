--------------------------- MODULE UsbmuxdLibProof ----------------------------
(***************************************************************************)
(* Proofs about UsbmuxdLib, for any number of devices, daemons and         *)
(* subscriptions.                                                          *)
(*                                                                         *)
(* The results are ViewAgrees and what UnsubscribeEnds rests on: a monitor *)
(* that is in, or about to be in, the wait for a packet when               *)
(* usbmuxd_unsubscribe joins it has its connection shut down.  The second  *)
(* needs that the monitor reads from the connection it has stored          *)
(* (Descriptor).  The first needs that the program knows of no device that *)
(* is not in the library's list (Listed), so that a loss of the connection *)
(* takes all of them away; that nothing is read before the answer to       *)
(* LISTEN, which usbmuxd_get_result takes and nothing else (Answered); and *)
(* that a program that stays subscribed is served by a daemon that has not *)
(* gone and a connection nobody has shut down (Connected).  Of what the    *)
(* daemon sends nothing is used once two of its threads have met in the    *)
(* client's buffer (raced).                                                *)
(***************************************************************************)
EXTENDS UsbmuxdLib, FiniteSetTheorems, SequenceTheorems, TLAPS

-----------------------------------------------------------------------------
\* What the threads agree on: who has set and who has read event_cb.
Agreed ==
  /\ event_cb = (prog = "subscribed")
  /\ (prog = "idle") = (monitor = "off")
  /\ prog = "idle" => view = {}
  /\ event_cb /\ monitor = "receive" => callback
  /\ monitor \in {"cleanup", "ended"} => ~event_cb

Descriptor ==
  /\ monitor \in {"listen", "result", "inner", "argument", "receive"} => sfd > 0
  /\ monitor \in {"inner", "argument", "receive"} => listenfd = sfd

\* The list that is gone through when the connection is lost has all the program knows.
Listed == event_cb => view \subseteq Known

\* Between two connections a program that stays subscribed knows of no device.
CleanStart ==
  prog = "subscribed" /\ monitor \in {"outer", "connect", "listen", "result"} => view = {}

\* A monitor that usbmuxd_unsubscribe joins does not wait on a connection that has
\* not been shut down.
StopReaches ==
  prog = "join" /\ ~missed /\ monitor \in {"argument", "receive"} => shut

Shared == Agreed /\ Descriptor /\ Listed /\ CleanStart /\ StopReaches
LInv   == TypeOK /\ Shared

LEMMA NoticeTypes ==
  /\ Result \in Notices
  /\ \A h \in Handles : DeviceAdd(h) \in Notices /\ DeviceRemove(h) \in Notices
BY DEF Notices

\* Which notice is about which handle.
LEMMA NoticeHandles ==
  ASSUME NEW n \in Notices
  PROVE  /\ n.kind \in {"ADD", "REMOVE"} => n.handle \in Handles
BY DEF Notices, Result, DeviceAdd, DeviceRemove, Notice

\* Which notices are the same.
LEMMA NoticesDiffer ==
  ASSUME NEW g \in Handles, NEW h \in Handles
  PROVE  /\ DeviceAdd(g) = DeviceAdd(h) <=> g = h
         /\ DeviceRemove(g) = DeviceRemove(h) <=> g = h
         /\ DeviceAdd(g) # DeviceRemove(h)
         /\ Result # DeviceAdd(g) /\ Result # DeviceRemove(g)
BY DEF Result, DeviceAdd, DeviceRemove, Notice

LEMMA LInvInitially == ASSUME Init PROVE LInv
<1>1. TypeOK
  <2>1. /\ up = FALSE /\ daemons = 0 /\ came = 0 /\ next_id = 1 /\ subs = 0 /\ sfd = 0
    BY DEF Init
  <2>2. /\ daemons \in 0..MaxDaemons /\ came \in 0..MaxDevices /\ next_id \in 1..(MaxHandles + 1)
        /\ subs \in 0..MaxSubs /\ sfd \in Nat
    BY <2>1, LibAssumption
  <2>3. devices \in [Handles -> Nat]
    BY DEF Init, NoList
  <2>4. {listenfd, listenfdSeen} \subseteq {NoFd} \cup 1..sfd
    BY DEF Init
  <2>5. inbox \in Seq(Notices)
    BY DEF Init
  <2> QED BY <2>1, <2>2, <2>3, <2>4, <2>5 DEF Init, TypeOK
<1>2. Shared
  BY DEF Init, Shared, Agreed, Descriptor, Listed, CleanStart, StopReaches
<1> QED BY <1>1, <1>2 DEF LInv

\* What is sent is notices.
LEMMA SendPktTypes ==
  ASSUME TypeOK, NEW ns \in Seq(Notices), SendPkt(ns) \/ Race
  PROVE  inbox' \in Seq(Notices) /\ raced' \in BOOLEAN
<1>1. CASE SendPkt(ns)
  BY <1>1 DEF SendPkt, TypeOK
<1>2. CASE Race
  BY <1>2 DEF Race
<1> QED BY <1>1, <1>2

-----------------------------------------------------------------------------
\* The steps of the daemon leave the library alone.
LEMMA DaemonKeeps ==
  ASSUME LInv, Daemon \/ Telling
  PROVE  LInv'
<1> USE DEF LInv
<1>1. UNCHANGED <<sfd, shut, fdVars, monitorVars, progVars, view>>
  BY DEF Daemon, Telling, StartDaemon, StopDaemon, Attach, Detach, HandleListen, Tell, connVars, daemonVars
<1>2. Shared'
  BY <1>1 DEF Shared, Agreed, Descriptor, Listed, CleanStart, StopReaches, Known, Handles, fdVars, monitorVars, progVars
<1>3. (/\ sfd \in Nat /\ shut \in BOOLEAN
       /\ {listenfd, listenfdSeen} \subseteq {NoFd} \cup 1..sfd
       /\ event_cb \in BOOLEAN /\ callback \in BOOLEAN /\ devices \in [Handles -> Nat]
       /\ monitor \in {"off", "outer", "connect", "listen", "result", "inner",
                       "argument", "receive", "cleanup", "ended"}
       /\ prog \in {"idle", "subscribed", "shutdown", "join"} /\ subs \in 0..MaxSubs
       /\ view \subseteq Handles /\ missed \in BOOLEAN)'
  BY <1>1 DEF TypeOK, fdVars, monitorVars, progVars, Handles, NoFd
<1>4. (/\ up \in BOOLEAN /\ daemons \in 0..MaxDaemons /\ came \in 0..MaxDevices
       /\ next_id \in 1..(MaxHandles + 1)
       /\ attached \subseteq Handles /\ telling \subseteq Handles /\ late \subseteq Handles)'
  <2> USE DEF TypeOK, daemonVars
  <2>1. CASE StartDaemon
    BY <2>1, LibAssumption DEF StartDaemon
  <2>2. CASE StopDaemon
    BY <2>2 DEF StopDaemon
  <2>3. CASE Attach
    BY <2>3, LibAssumption DEF Attach, Handles
  <2>4. CASE \E h \in Handles : Detach(h)
    BY <2>4 DEF Detach
  <2>5. CASE \E h \in Handles : Tell(h)
    BY <2>5 DEF Tell
  <2>6. CASE HandleListen
    BY <2>6 DEF HandleListen
  <2> QED BY <2>1, <2>2, <2>3, <2>4, <2>5, <2>6 DEF Daemon, Telling
<1>5. (client \in {"NONE", "COMMAND", "ASKED", "LISTEN"} /\ eof \in BOOLEAN)'
  BY DEF Daemon, Telling, StartDaemon, StopDaemon, Attach, Detach, HandleListen, Tell, TypeOK, connVars
<1>6. inbox' \in Seq(Notices) /\ raced' \in BOOLEAN
  <2>1. CASE StartDaemon \/ StopDaemon \/ Attach
    BY <2>1 DEF StartDaemon, StopDaemon, Attach, TypeOK, connVars
  <2>2. ASSUME NEW h \in Handles, Detach(h) PROVE inbox' \in Seq(Notices) /\ raced' \in BOOLEAN
    <3>1. <<DeviceRemove(h)>> \in Seq(Notices)
      BY NoticeTypes
    <3> QED BY <2>2, <3>1, SendPktTypes DEF Detach
  <2>3. ASSUME NEW h \in Handles, Tell(h) PROVE inbox' \in Seq(Notices) /\ raced' \in BOOLEAN
    <3>1. <<DeviceAdd(h)>> \in Seq(Notices)
      BY NoticeTypes
    <3> QED BY <2>3, <3>1, SendPktTypes DEF Tell
  <2>4. ASSUME HandleListen, ~Race PROVE inbox' \in Seq(Notices) /\ raced' \in BOOLEAN
    <3> SUFFICES inbox' \in Seq(Notices)
      BY <2>4 DEF HandleListen, TypeOK
    <3>1. PICK visible \in SUBSET (attached \cap telling) :
            LET S == (attached \ telling) \cup visible
            IN  \E list \in Bijection(1..Cardinality(S), S) :
                  inbox' = <<Result>> \o [i \in 1..Cardinality(S) |-> DeviceAdd(list[i])]
      BY <2>4 DEF HandleListen
    <3> DEFINE S == (attached \ telling) \cup visible
    <3>2. PICK list \in Bijection(1..Cardinality(S), S) :
            inbox' = <<Result>> \o [i \in 1..Cardinality(S) |-> DeviceAdd(list[i])]
      BY <3>1
    <3>3. S \subseteq Handles
      BY DEF TypeOK
    <3>4. Cardinality(S) \in Nat
      <4> HIDE DEF S
      <4>1. IsFiniteSet(Handles)
        BY LibAssumption, FS_Interval DEF Handles
      <4>2. IsFiniteSet(S)
        BY <3>3, <4>1, FS_Subset
      <4> QED BY <4>2, FS_CardinalityType
    <3>5. list \in [1..Cardinality(S) -> S]
      BY DEF Bijection, Injection
    <3>6. [i \in 1..Cardinality(S) |-> DeviceAdd(list[i])] \in Seq(Notices)
      <4>1. \A i \in 1..Cardinality(S) : DeviceAdd(list[i]) \in Notices
        BY <3>3, <3>5, NoticeTypes
      <4>2. [i \in 1..Cardinality(S) |-> DeviceAdd(list[i])] \in [1..Cardinality(S) -> Notices]
        BY <4>1
      <4> HIDE DEF S
      <4> QED BY <3>4, <4>2, SeqDef
    <3>7. <<Result>> \in Seq(Notices)
      BY NoticeTypes
    <3> HIDE DEF S
    <3> QED BY <3>2, <3>6, <3>7
  <2>5. CASE Race
    BY <2>5 DEF Race
  <2> QED BY <2>1, <2>2, <2>3, <2>4, <2>5 DEF Daemon, Telling
<1>7. TypeOK'
  BY <1>3, <1>4, <1>5, <1>6 DEF TypeOK
<1> QED BY <1>2, <1>7

-----------------------------------------------------------------------------
\* The monitor's steps that touch neither the list nor what has been received.
LEMMA MonitorMoves ==
  ASSUME LInv, WhileOuter \/ Connect \/ ConnectFails \/ SendListen \/ WhileInner \/ CallNext \/ ListenfdSeen
  PROVE  LInv'
<1> USE DEF LInv
<1>1. UNCHANGED <<daemonVars, devices, progVars, view>>
  BY DEF WhileOuter, Connect, ConnectFails, SendListen, WhileInner, CallNext, ListenfdSeen, monitorVars
<1>2. (Agreed /\ Listed)'
  BY <1>1 DEF Shared, Agreed, Listed, Known, progVars, WhileOuter, Connect, ConnectFails, SendListen,
              WhileInner, CallNext, ListenfdSeen, Goto, monitorVars
<1>3. (CleanStart /\ StopReaches)'
  BY <1>1 DEF Shared, Agreed, CleanStart, StopReaches, progVars, WhileOuter, Connect, ConnectFails, SendListen,
              WhileInner, CallNext, ListenfdSeen, Goto, monitorVars, connVars
<1>4. Descriptor'
  BY DEF Shared, Descriptor, TypeOK, WhileOuter, Connect, ConnectFails, SendListen, WhileInner, CallNext,
         ListenfdSeen, Goto, monitorVars, connVars, fdVars
<1>5. (/\ sfd \in Nat /\ {listenfd, listenfdSeen} \subseteq {NoFd} \cup 1..sfd)'
  <2>1. CASE Connect
    <3>1. sfd' = sfd + 1 /\ UNCHANGED <<listenfd, listenfdSeen>>
      BY <2>1 DEF Connect, fdVars
    <3>2. sfd \in Nat /\ {listenfd, listenfdSeen} \subseteq {NoFd} \cup 1..sfd
      BY DEF TypeOK
    <3>3. 1..sfd \subseteq 1..(sfd + 1) /\ sfd + 1 \in Nat
      BY <3>2
    <3> QED BY <3>1, <3>2, <3>3
  <2>2. sfd' = sfd \/ Connect
    BY DEF WhileOuter, Connect, ConnectFails, SendListen, WhileInner, CallNext, ListenfdSeen, connVars
  <2>3. ~Connect => listenfd' \in {listenfd, NoFd} /\ listenfdSeen' \in {listenfdSeen, listenfd}
    BY DEF WhileOuter, Connect, ConnectFails, SendListen, WhileInner, CallNext, ListenfdSeen, fdVars
  <2> QED BY <2>1, <2>2, <2>3 DEF TypeOK
<1>6. (/\ client \in {"NONE", "COMMAND", "ASKED", "LISTEN"} /\ inbox \in Seq(Notices)
       /\ raced \in BOOLEAN /\ eof \in BOOLEAN /\ shut \in BOOLEAN /\ callback \in BOOLEAN
       /\ monitor \in {"off", "outer", "connect", "listen", "result", "inner",
                       "argument", "receive", "cleanup", "ended"})'
  <2>1. monitor' = monitor \/ monitor' \in {"outer", "connect", "listen", "result", "argument", "receive", "cleanup"}
    BY DEF WhileOuter, Connect, ConnectFails, SendListen, WhileInner, CallNext, ListenfdSeen, Goto, monitorVars
  <2>2. callback' \in BOOLEAN
    BY DEF TypeOK, WhileOuter, Connect, ConnectFails, SendListen, WhileInner, CallNext, ListenfdSeen, monitorVars
  <2>3. client' \in {client, "COMMAND", "ASKED"} /\ inbox' \in {inbox, <<>>}
    BY DEF WhileOuter, Connect, ConnectFails, SendListen, WhileInner, CallNext, ListenfdSeen, connVars
  <2>4. raced' \in BOOLEAN /\ eof' \in BOOLEAN /\ shut' \in BOOLEAN
    BY DEF TypeOK, WhileOuter, Connect, ConnectFails, SendListen, WhileInner, CallNext, ListenfdSeen, connVars
  <2>5. client' \in {"NONE", "COMMAND", "ASKED", "LISTEN"}
    BY <2>3 DEF TypeOK
  <2>6. inbox' \in Seq(Notices)
    <3>1. inbox \in Seq(Notices) /\ <<>> \in Seq(Notices)
      BY DEF TypeOK
    <3> QED BY <2>3, <3>1
  <2>7. monitor' \in {"off", "outer", "connect", "listen", "result", "inner",
                      "argument", "receive", "cleanup", "ended"}
    BY <2>1 DEF TypeOK
  <2> QED BY <2>2, <2>4, <2>5, <2>6, <2>7
<1>7. TypeOK'
  BY <1>1, <1>5, <1>6 DEF TypeOK, daemonVars, progVars, Handles
<1> QED BY <1>2, <1>3, <1>4, <1>7 DEF Shared

\* The end of usbmuxd_listen stores the new descriptor.
LEMMA GetResultKeeps == ASSUME LInv, GetResult PROVE LInv'
<1> USE DEF LInv, GetResult, Goto
<1>1. inbox' \in Seq(Notices)
  BY DEF TypeOK
<1>2. sfd \in 1..sfd /\ listenfd' = sfd
  BY DEF Shared, Descriptor, TypeOK
<1>3. TypeOK'
  BY <1>1, <1>2 DEF TypeOK, daemonVars, progVars, Handles
<1>4. Shared'
  BY <1>2 DEF Shared, Agreed, Descriptor, Listed, CleanStart, StopReaches, Known, progVars
<1> QED BY <1>3, <1>4

\* What the program is told of enters the list, and what is taken out of the list it
\* is told of.
LEMMA ReadNoticeKeeps ==
  ASSUME LInv, monitor = "receive", NEW n \in Notices, ReadNotice(n), UNCHANGED event_cb
  PROVE  devices' \in [Handles -> Nat] /\ view' \subseteq Handles /\ Listed'
<1> USE DEF LInv
<1>1. n.kind \in {"ADD", "REMOVE"} => n.handle \in Handles
  BY NoticeHandles
<1>2. \/ /\ n.kind = "ADD"
         /\ devices' = [devices EXCEPT ![n.handle] = @ + 1]
         /\ GenerateEvents("ADD", {n.handle})
      \/ /\ n.kind = "REMOVE" /\ n.handle \in Known
         /\ devices' = [devices EXCEPT ![n.handle] = @ - 1]
         /\ GenerateEvents("REMOVE", {n.handle})
      \/ UNCHANGED <<devices, view>>
  BY DEF ReadNotice
<1>3. devices' \in [Handles -> Nat] /\ view' \subseteq Handles
  BY <1>1, <1>2 DEF TypeOK, GenerateEvents, Known
<1>4. event_cb => callback
  BY DEF Shared, Agreed
<1> QED BY <1>1, <1>2, <1>3, <1>4 DEF Shared, Listed, GenerateEvents, Known, TypeOK

LEMMA GetNextEventKeeps == ASSUME LInv, GetNextEvent PROVE LInv'
<1> USE DEF LInv, Goto
<1>1. Head(inbox) \in Notices /\ Tail(inbox) \in Seq(Notices)
  BY DEF GetNextEvent, TypeOK
<1>2. /\ inbox' = Tail(inbox) /\ monitor' = "inner" /\ monitor = "receive"
      /\ UNCHANGED <<daemonVars, sfd, client, raced, eof, shut, fdVars, callback, progVars>>
  BY DEF GetNextEvent
<1>3. devices' \in [Handles -> Nat] /\ view' \subseteq Handles /\ Listed'
  BY <1>1, <1>2, ReadNoticeKeeps DEF GetNextEvent, progVars
<1>4. TypeOK'
  BY <1>1, <1>2, <1>3 DEF TypeOK, daemonVars, fdVars, progVars, Handles
<1>5. (Agreed /\ Descriptor /\ CleanStart /\ StopReaches)'
  BY <1>2 DEF Shared, Agreed, Descriptor, CleanStart, StopReaches, progVars, fdVars
<1> QED BY <1>3, <1>4, <1>5 DEF Shared

\* Whatever is read of a connection that is garbled, the list has all the program knows.
LEMMA GetGarbledKeeps == ASSUME LInv, GetGarbled PROVE LInv'
<1> USE DEF LInv, Goto
<1>1. monitor = "receive" /\ UNCHANGED <<daemonVars, connVars, fdVars, callback, progVars>>
  BY DEF GetGarbled
<1>2. CASE monitor' = "inner" /\ \E n \in Notices : ReadNotice(n)
  <2>1. devices' \in [Handles -> Nat] /\ view' \subseteq Handles /\ Listed'
    BY <1>1, <1>2, ReadNoticeKeeps DEF progVars
  <2>2. TypeOK'
    BY <1>1, <1>2, <2>1 DEF TypeOK, daemonVars, connVars, fdVars, progVars, Handles
  <2>3. (Agreed /\ Descriptor /\ CleanStart /\ StopReaches)'
    BY <1>1, <1>2 DEF Shared, Agreed, Descriptor, CleanStart, StopReaches, progVars, connVars, fdVars
  <2> QED BY <2>1, <2>2, <2>3 DEF Shared
<1>3. CASE monitor' = "outer" /\ GenerateEvents("REMOVE", Known) /\ devices' = NoList
  <2>1. event_cb => view' = {}
    BY <1>1, <1>3 DEF Shared, Agreed, Listed, GenerateEvents
  <2>2. view' \subseteq Handles /\ devices' \in [Handles -> Nat]
    BY <1>3 DEF TypeOK, GenerateEvents, NoList
  <2>3. TypeOK'
    BY <1>1, <1>3, <2>2 DEF TypeOK, daemonVars, connVars, fdVars, progVars, Handles
  <2>4. Shared'
    BY <1>1, <1>3, <2>1 DEF Shared, Agreed, Descriptor, Listed, CleanStart, StopReaches, progVars, connVars, fdVars
  <2> QED BY <2>3, <2>4
<1> QED BY <1>2, <1>3 DEF GetGarbled

\* The end of the connection: the list has all the program knows, and is emptied.
LEMMA ConnectionLostKeeps == ASSUME LInv, ConnectionLost PROVE LInv'
<1> USE DEF LInv, ConnectionLost, Goto
<1>1. event_cb => view' = {}
  BY DEF Shared, Agreed, Listed, GenerateEvents
<1>2. view' \subseteq Handles /\ devices' \in [Handles -> Nat]
  BY DEF TypeOK, GenerateEvents, NoList
<1>3. TypeOK'
  BY <1>2 DEF TypeOK, daemonVars, connVars, fdVars, progVars, Handles
<1>4. Shared'
  BY <1>1 DEF Shared, Agreed, Descriptor, Listed, CleanStart, StopReaches, progVars, connVars, fdVars
<1> QED BY <1>3, <1>4

LEMMA CleanupKeeps == ASSUME LInv, Cleanup PROVE LInv'
<1> USE DEF LInv, Cleanup, Goto
<1>1. ~event_cb /\ ~event_cb' /\ prog # "subscribed" /\ prog # "idle" /\ UNCHANGED <<progVars, view>>
  BY DEF Shared, Agreed, progVars
<1>2. listenfd' \in {NoFd} \cup 1..sfd' /\ devices' \in [Handles -> Nat] /\ inbox' \in Seq(Notices)
  BY DEF NoList
<1>3. TypeOK'
  BY <1>2 DEF TypeOK, daemonVars, progVars
<1>4. Shared'
  BY <1>1 DEF Shared, Agreed, Descriptor, Listed, CleanStart, StopReaches, progVars
<1> QED BY <1>3, <1>4

-----------------------------------------------------------------------------
LEMMA ProgramKeeps ==
  ASSUME LInv, Subscribe \/ Unsubscribe \/ Stopping
  PROVE  LInv'
<1> USE DEF LInv, Goto
<1>1. TypeOK'
  <2> USE DEF TypeOK, daemonVars, connVars, fdVars, monitorVars
  <2>1. CASE Subscribe
    <3>1. subs' \in 0..MaxSubs /\ devices' \in [Handles -> Nat]
      BY <2>1, LibAssumption DEF Subscribe, NoList
    <3> QED BY <2>1, <3>1 DEF Subscribe
  <2>2. CASE Unsubscribe
    BY <2>2 DEF Unsubscribe
  <2>3. CASE ShutdownFd
    BY <2>3 DEF ShutdownFd
  <2>4. CASE Join
    BY <2>4 DEF Join
  <2> QED BY <2>1, <2>2, <2>3, <2>4 DEF Stopping
<1>2. CASE Subscribe
  BY <1>1, <1>2 DEF Subscribe, Shared, Agreed, Descriptor, Listed, CleanStart, StopReaches, connVars, fdVars
<1>3. CASE Unsubscribe
  BY <1>1, <1>3 DEF Unsubscribe, Shared, Agreed, Descriptor, Listed, CleanStart, StopReaches, connVars, fdVars, monitorVars
<1>4. CASE ShutdownFd
  BY <1>1, <1>4 DEF ShutdownFd, Shared, Agreed, Descriptor, Listed, CleanStart, StopReaches, fdVars, monitorVars
<1>5. CASE Join
  BY <1>1, <1>5 DEF Join, Shared, Agreed, Descriptor, Listed, CleanStart, StopReaches, connVars, fdVars
<1> QED BY <1>2, <1>3, <1>4, <1>5 DEF Stopping

LEMMA LInvKept == LInv /\ [Next]_vars => LInv'
<1> SUFFICES ASSUME LInv, [Next]_vars PROVE LInv'
  OBVIOUS
<1>1. CASE Next
  BY <1>1, DaemonKeeps, MonitorMoves, GetResultKeeps, GetNextEventKeeps, GetGarbledKeeps,
     ConnectionLostKeeps, CleanupKeeps, ProgramKeeps DEF Next, Monitor
<1>2. CASE UNCHANGED vars
  <2>1. TypeOK'
    BY <1>2 DEF LInv, TypeOK, vars, daemonVars, connVars, fdVars, monitorVars, progVars, Handles
  <2>2. Shared'
    BY <1>2 DEF LInv, Shared, Agreed, Descriptor, Listed, CleanStart, StopReaches, Known,
                vars, daemonVars, connVars, fdVars, monitorVars, progVars
  <2> QED BY <2>1, <2>2 DEF LInv
<1> QED BY <1>1, <1>2

\* LInv holds throughout: what the rest of this module draws from.
THEOREM LibInvariant == Spec => []LInv
<1> QED BY LInvInitially, LInvKept, PTL DEF Spec

\* The variables keep their types: in particular the library never removes from its
\* list what is not there (libusbmuxd.c:699-706).
THEOREM TypeCorrect == Spec => []TypeOK
<1>1. LInv => TypeOK
  BY DEF LInv
<1> QED BY <1>1, LibInvariant, PTL

\* A program that stays subscribed has been told that every device of the last
\* daemon is gone before the monitor connects to the next (libusbmuxd.c:656-666).
THEOREM StartsClean == Spec => []CleanStart
<1>1. LInv => CleanStart
  BY DEF LInv, Shared
<1> QED BY <1>1, LibInvariant, PTL

\* usbmuxd_unsubscribe does not join a monitor that waits on a connection it has not
\* shut down, unless it did not see its descriptor (libusbmuxd.c:790-803).
THEOREM StopAlwaysReaches == Spec => []StopReaches
<1>1. LInv => StopReaches
  BY DEF LInv, Shared
<1> QED BY <1>1, LibInvariant, PTL

-----------------------------------------------------------------------------
(***************************************************************************)
(* What the program is told: Heard as notices are written and read.        *)
(***************************************************************************)

LEMMA HeardNothing == ASSUME NEW V \in SUBSET Handles PROVE Heard(V, <<>>) = V
<1>1. ASSUME NEW h \in Handles PROVE h \in Heard(V, <<>>) <=> h \in V
  BY DEF Heard
<1> QED BY <1>1 DEF Heard

\* A device is announced, a device is said to be gone.
LEMMA HeardOneMore ==
  ASSUME NEW V, NEW s \in Seq(Notices), NEW h \in Handles
  PROVE  \A g : /\ g \in Heard(V, Append(s, DeviceAdd(h))) <=> g \in Heard(V, s) \/ g = h
                /\ g \in Heard(V, Append(s, DeviceRemove(h))) <=> g \in Heard(V, s) /\ g # h
<1> DEFINE a == Append(s, DeviceAdd(h))
           r == Append(s, DeviceRemove(h))
<1>1. /\ Len(a) = Len(s) + 1 /\ a[Len(s) + 1] = DeviceAdd(h)
      /\ Len(r) = Len(s) + 1 /\ r[Len(s) + 1] = DeviceRemove(h)
      /\ \A i \in 1..Len(s) : a[i] = s[i] /\ r[i] = s[i]
  OBVIOUS
<1>2. Len(s) \in Nat
  OBVIOUS
<1> HIDE DEF a, r
<1>3. ASSUME NEW g \in Handles
      PROVE  /\ g \in Heard(V, a) <=> g \in Heard(V, s) \/ g = h
             /\ g \in Heard(V, r) <=> g \in Heard(V, s) /\ g # h
  <2>1. /\ DeviceAdd(h) = DeviceAdd(g) <=> h = g
        /\ DeviceRemove(h) = DeviceRemove(g) <=> h = g
        /\ DeviceAdd(h) # DeviceRemove(g) /\ DeviceRemove(h) # DeviceAdd(g)
    BY NoticesDiffer
  <2> HIDE DEF a, r
  <2>2. g \in Heard(V, s) => g \in Heard(V, a)
    BY <1>1, <1>2, <2>1 DEF Heard
  <2>3. g = h => g \in Heard(V, a)
    BY <1>1, <1>2, <2>1 DEF Heard
  <2>4. g \in Heard(V, a) => g \in Heard(V, s) \/ g = h
    BY <1>1, <1>2, <2>1 DEF Heard
  <2>5. g \in Heard(V, s) /\ g # h => g \in Heard(V, r)
    BY <1>1, <1>2, <2>1 DEF Heard
  <2>6. g \in Heard(V, r) => g \in Heard(V, s) /\ g # h
    BY <1>1, <1>2, <2>1 DEF Heard
  <2> QED BY <2>2, <2>3, <2>4, <2>5, <2>6
<1> QED BY <1>3 DEF Heard, a, r

\* The program has read the first notice and knows of W.
LEMMA HeardRead ==
  ASSUME NEW V, NEW W, NEW s \in Seq(Notices), s # <<>>,
         \A h \in Handles :
           h \in W <=> Head(s) = DeviceAdd(h) \/ (h \in V /\ Head(s) # DeviceRemove(h))
  PROVE  Heard(W, Tail(s)) = Heard(V, s)
<1>1. /\ Len(s) \in Nat /\ Len(s) > 0 /\ Len(Tail(s)) = Len(s) - 1 /\ Head(s) = s[1]
      /\ \A i \in 1..Len(s) - 1 : Tail(s)[i] = s[i + 1]
  OBVIOUS
<1>2. ASSUME NEW h \in Handles PROVE h \in Heard(W, Tail(s)) <=> h \in Heard(V, s)
  <2>1. DeviceAdd(h) # DeviceRemove(h)
    BY NoticesDiffer
  <2>2. ASSUME h \in Heard(W, Tail(s)) PROVE h \in Heard(V, s)
    <3>1. PICK i \in 0..Len(Tail(s)) :
            /\ IF i = 0 THEN h \in W ELSE Tail(s)[i] = DeviceAdd(h)
            /\ \A j \in (i + 1)..Len(Tail(s)) : Tail(s)[j] # DeviceRemove(h)
      BY <2>2 DEF Heard
    <3>2. \A j \in (i + 2)..Len(s) : s[j] # DeviceRemove(h)
      <4> SUFFICES ASSUME NEW j \in (i + 2)..Len(s) PROVE s[j] # DeviceRemove(h)
        OBVIOUS
      <4>1. j - 1 \in (i + 1)..Len(Tail(s)) /\ j - 1 \in 1..Len(s) - 1 /\ (j - 1) + 1 = j
        BY <1>1
      <4> QED BY <1>1, <3>1, <4>1
    <3>3. CASE i # 0
      <4>1. i \in 1..Len(s) - 1
        BY <1>1, <3>3
      <4>2. s[i + 1] = DeviceAdd(h)
        BY <1>1, <3>1, <3>3, <4>1
      <4>3. i + 1 \in 1..Len(s) /\ (i + 1) + 1 = i + 2
        BY <1>1, <4>1
      <4> QED BY <3>2, <4>2, <4>3 DEF Heard
    <3>4. CASE i = 0 /\ Head(s) = DeviceAdd(h)
      <4>1. s[1] = DeviceAdd(h) /\ 1 \in 0..Len(s) /\ \A j \in (1 + 1)..Len(s) : s[j] # DeviceRemove(h)
        BY <1>1, <3>2, <3>4
      <4> QED BY <4>1 DEF Heard
    <3>5. CASE i = 0 /\ h \in V /\ Head(s) # DeviceRemove(h)
      <4>1. \A j \in (0 + 1)..Len(s) : s[j] # DeviceRemove(h)
        BY <1>1, <3>2, <3>5
      <4> QED BY <1>1, <3>5, <4>1 DEF Heard
    <3> QED BY <3>1, <3>3, <3>4, <3>5
  <2>3. ASSUME h \in Heard(V, s) PROVE h \in Heard(W, Tail(s))
    <3>1. PICK i \in 0..Len(s) :
            /\ IF i = 0 THEN h \in V ELSE s[i] = DeviceAdd(h)
            /\ \A j \in (i + 1)..Len(s) : s[j] # DeviceRemove(h)
      BY <2>3 DEF Heard
    <3>2. \A j \in 1..Len(s) - 1 : j >= i => Tail(s)[j] # DeviceRemove(h)
      BY <1>1, <3>1
    <3>3. CASE i <= 1
      <4>0. i = 0 \/ i = 1
        BY <3>3
      <4>1. h \in W
        <5>1. i = 0 => h \in V /\ Head(s) # DeviceRemove(h)
          BY <1>1, <3>1
        <5>2. i = 1 => Head(s) = DeviceAdd(h)
          BY <1>1, <3>1
        <5>3. h \in W <=> Head(s) = DeviceAdd(h) \/ (h \in V /\ Head(s) # DeviceRemove(h))
          OBVIOUS
        <5> QED BY ONLY <4>0, <5>1, <5>2, <5>3
      <4> QED BY <1>1, <3>2, <3>3, <4>1 DEF Heard
    <3>4. CASE i > 1
      <4>1. i - 1 \in 1..Len(s) - 1 /\ Tail(s)[i - 1] = s[(i - 1) + 1] /\ (i - 1) + 1 = i
        BY <1>1, <3>4
      <4>2. \A j \in ((i - 1) + 1)..Len(Tail(s)) : Tail(s)[j] # DeviceRemove(h)
        <5> SUFFICES ASSUME NEW j \in ((i - 1) + 1)..Len(Tail(s)) PROVE Tail(s)[j] # DeviceRemove(h)
          OBVIOUS
        <5>1. j \in 1..Len(s) - 1 /\ j >= i
          BY <1>1, <3>4
        <5> QED BY <3>2, <5>1
      <4>3. Tail(s)[i - 1] = DeviceAdd(h) /\ i - 1 \in 0..Len(Tail(s)) /\ i - 1 # 0
        BY <1>1, <3>1, <3>4, <4>1
      <4> QED BY <4>2, <4>3 DEF Heard
    <3> QED BY <3>3, <3>4
  <2> QED BY <2>2, <2>3
<1> QED BY <1>2 DEF Heard

\* The answer to LISTEN and the list, read by one who knows of nothing.
LEMMA HeardList ==
  ASSUME NEW S \in SUBSET Handles, NEW n \in Nat, NEW list \in [1..n -> S],
         \A h \in S : \E i \in 1..n : list[i] = h,
         NEW s \in Seq(Notices), s = <<Result>> \o [i \in 1..n |-> DeviceAdd(list[i])]
  PROVE  /\ Heard({}, s) = S
         /\ s # <<>> /\ Head(s) = Result
<1>1. Len(s) = n + 1 /\ s[1] = Result /\ \A i \in 1..n : s[i + 1] = DeviceAdd(list[i])
  <2> DEFINE L == [i \in 1..n |-> DeviceAdd(list[i])]
  <2>1. L \in Seq(Notices) /\ Len(L) = n
    BY NoticeTypes
  <2>2. \A i \in 1..n : L[i] = DeviceAdd(list[i])
    OBVIOUS
  <2> HIDE DEF L
  <2>3. s = <<Result>> \o L
    BY DEF L
  <2> QED BY <2>1, <2>2, <2>3
<1>2. \A i \in 2..n + 1 : s[i] = DeviceAdd(list[i - 1]) /\ list[i - 1] \in S
  BY <1>1
<1>3. ASSUME NEW h \in Handles PROVE h \in Heard({}, s) <=> h \in S
  <2>1. \A i \in 1..Len(s) : s[i] # DeviceRemove(h)
    BY <1>1, <1>2, NoticesDiffer
  <2>2. h \in Heard({}, s) <=> \E i \in 1..Len(s) : s[i] = DeviceAdd(h)
    <3>1. \A i \in 1..Len(s) : i \in 0..Len(s) /\ i # 0 /\ \A j \in (i + 1)..Len(s) : j \in 1..Len(s)
      BY <1>1
    <3>2. (\E i \in 1..Len(s) : s[i] = DeviceAdd(h)) => h \in Heard({}, s)
      BY <2>1, <3>1 DEF Heard
    <3>3. \A i \in 0..Len(s) : i # 0 => i \in 1..Len(s)
      BY <1>1
    <3> QED BY <3>2, <3>3 DEF Heard
  <2>3. ASSUME NEW i \in 1..Len(s), s[i] = DeviceAdd(h) PROVE h \in S
    BY <1>1, <1>2, <2>3, NoticesDiffer
  <2>4. ASSUME h \in S PROVE \E i \in 1..Len(s) : s[i] = DeviceAdd(h)
    <3>1. PICK i \in 1..n : list[i] = h
      BY <2>4
    <3> QED BY <1>1, <3>1
  <2> QED BY <2>2, <2>3, <2>4
<1>4. Heard({}, s) = S
  BY <1>3 DEF Heard
<1> QED BY <1>1, <1>4

-----------------------------------------------------------------------------
(***************************************************************************)
(* What a program that stays subscribed is told.                           *)
(***************************************************************************)

\* The daemon serves nobody between two threads, and the one it serves has not lost
\* its connection.
Connected ==
  /\ monitor \in {"off", "ended"} => client = "NONE"
  /\ prog = "subscribed" /\ client # "NONE" => ~shut /\ ~eof

\* Until the list is sent there is nothing to read and the program knows of no
\* device; usbmuxd_get_result takes away the answer and nothing else.
Answered ==
  prog = "subscribed" =>
    /\ client \in {"COMMAND", "ASKED"} => inbox = <<>> /\ ~raced /\ view = {}
    /\ monitor = "listen" => client = "COMMAND" \/ (client = "NONE" /\ eof)
    /\ monitor = "result" /\ client = "LISTEN" /\ ~raced => inbox # <<>> /\ Head(inbox) = Result

\* What it has been told and is still to read is what is there.
Accurate ==
  prog = "subscribed" /\ client = "LISTEN" /\ ~raced =>
    attached \ telling \subseteq Told /\ Told \subseteq attached \cup late

VInv == LInv /\ Connected /\ Answered /\ Accurate

LEMMA VInvInitially == ASSUME Init PROVE VInv
<1>1. LInv
  BY LInvInitially
<1>2. Connected /\ Answered /\ Accurate
  BY DEF Init, Connected, Answered, Accurate
<1> QED BY <1>1, <1>2 DEF VInv

\* A notice is read by a listener that can read it.
LEMMA Delivered ==
  ASSUME VInv, prog = "subscribed", client = "LISTEN", ~raced, NEW n \in Notices, SendPkt(<<n>>)
  PROVE  inbox' = Append(inbox, n)
BY DEF VInv, Connected, SendPkt, LInv, TypeOK

\* What is sent later does not come before the answer.
LEMMA HeadStays ==
  ASSUME NEW s \in Seq(Notices), NEW n \in Notices, s # <<>>
  PROVE  Append(s, n) # <<>> /\ Head(Append(s, n)) = Head(s)
OBVIOUS

LEMMA DaemonTells ==
  ASSUME VInv, Daemon \/ Telling
  PROVE  (Connected /\ Answered /\ Accurate)'
<1> USE DEF VInv
<1> TypeOK
  BY DEF LInv
<1>1. UNCHANGED <<sfd, shut, monitor, prog, view>>
  BY DEF Daemon, Telling, StartDaemon, StopDaemon, Attach, Detach, HandleListen, Tell, connVars, daemonVars,
         monitorVars, progVars
<1>2. CASE StartDaemon
  BY <1>1, <1>2 DEF StartDaemon, Connected, Answered, Accurate, Told, Heard, connVars
<1>3. CASE StopDaemon
  BY <1>1, <1>3 DEF StopDaemon, Connected, Answered, Accurate
<1>4. CASE Attach
  <2>1. attached \subseteq attached' /\ attached' \ telling' \subseteq attached \ telling /\ late' = late
    BY <1>4 DEF Attach
  <2>2. Told' = Told
    BY <1>1, <1>4 DEF Attach, Told, Heard, connVars
  <2>3. Accurate'
    BY <1>1, <1>4, <2>1, <2>2 DEF Attach, Accurate, connVars
  <2> QED BY <1>1, <1>4, <2>3 DEF Attach, Connected, Answered, connVars
<1>5. ASSUME NEW h \in Handles, Tell(h) PROVE (Connected /\ Answered /\ Accurate)'
  <2>1. /\ UNCHANGED <<client, eof, attached>> /\ telling' = telling \ {h}
        /\ SendPkt(<<DeviceAdd(h)>>) \/ (client = "LISTEN" /\ Race)
        /\ late' = (IF h \in attached THEN late ELSE late \cup {h})
    BY <1>5 DEF Tell
  <2>2. CASE prog = "subscribed" /\ client = "LISTEN" /\ ~raced'
    <3>0. SendPkt(<<DeviceAdd(h)>>) /\ ~raced
      BY <2>1, <2>2 DEF Race, SendPkt
    <3>1. inbox' = Append(inbox, DeviceAdd(h))
      BY <2>2, <3>0, Delivered, NoticeTypes
    <3>2. Told' = Told \cup {h}
      <4>1. inbox \in Seq(Notices)
        BY DEF TypeOK
      <4>2. Heard(view, Append(inbox, DeviceAdd(h))) = Heard(view, inbox) \cup {h}
        BY ONLY h \in Handles, <4>1, HeardOneMore
      <4> QED BY <1>1, <3>1, <4>2 DEF Told
    <3>3. Accurate'
      BY <1>1, <2>1, <2>2, <3>0, <3>2 DEF Accurate
    <3>4. inbox # <<>> => inbox' # <<>> /\ Head(inbox') = Head(inbox)
      BY <3>1, HeadStays, NoticeTypes DEF TypeOK
    <3> QED BY <1>1, <2>1, <2>2, <3>0, <3>3, <3>4 DEF Connected, Answered
  <2>5. CASE client = "LISTEN" /\ raced'
    BY <1>1, <2>1, <2>5 DEF Connected, Answered, Accurate
  <2>3. CASE prog # "subscribed"
    BY <1>1, <2>1, <2>3 DEF Connected, Answered, Accurate
  <2>4. CASE client # "LISTEN"
    BY <1>1, <2>1, <2>4 DEF Connected, Answered, Accurate, SendPkt
  <2> QED BY <2>2, <2>3, <2>4, <2>5 DEF Race, SendPkt
<1>6. ASSUME NEW h \in Handles, Detach(h) PROVE (Connected /\ Answered /\ Accurate)'
  <2>1. UNCHANGED <<client, eof, telling, late>> /\ attached' = attached \ {h} /\ SendPkt(<<DeviceRemove(h)>>)
    BY <1>6 DEF Detach
  <2>2. CASE prog = "subscribed" /\ client = "LISTEN" /\ ~raced'
    <3>0. ~raced
      BY <2>1, <2>2 DEF SendPkt
    <3>1. inbox' = Append(inbox, DeviceRemove(h))
      BY <2>1, <2>2, <3>0, Delivered, NoticeTypes
    <3>2. Told' = Told \ {h}
      <4>1. inbox \in Seq(Notices)
        BY DEF TypeOK
      <4>2. Heard(view, Append(inbox, DeviceRemove(h))) = Heard(view, inbox) \ {h}
        BY ONLY h \in Handles, <4>1, HeardOneMore
      <4> QED BY <1>1, <3>1, <4>2 DEF Told
    <3>3. Accurate'
      BY <1>1, <2>1, <2>2, <3>0, <3>2 DEF Accurate
    <3>4. inbox # <<>> => inbox' # <<>> /\ Head(inbox') = Head(inbox)
      BY <3>1, HeadStays, NoticeTypes DEF TypeOK
    <3> QED BY <1>1, <2>1, <2>2, <3>0, <3>3, <3>4 DEF Connected, Answered
  <2>5. CASE client = "LISTEN" /\ raced'
    BY <1>1, <2>1, <2>5 DEF Connected, Answered, Accurate
  <2>3. CASE prog # "subscribed"
    BY <1>1, <2>1, <2>3 DEF Connected, Answered, Accurate
  <2>4. CASE client # "LISTEN"
    BY <1>1, <2>1, <2>4 DEF Connected, Answered, Accurate, SendPkt
  <2> QED BY <2>2, <2>3, <2>4, <2>5
<1>7. CASE HandleListen
  <2>1. client = "ASKED" /\ client' = "LISTEN" /\ UNCHANGED <<eof, attached, telling, late>>
    BY <1>7 DEF HandleListen, daemonVars
  <2>2. ASSUME prog = "subscribed", ~raced'
        PROVE  /\ attached \ telling \subseteq Told' /\ Told' \subseteq attached
               /\ inbox' # <<>> /\ Head(inbox') = Result
    <3>1. PICK visible \in SUBSET (attached \cap telling) :
            LET S == (attached \ telling) \cup visible
            IN  \E list \in Bijection(1..Cardinality(S), S) :
                  inbox' = <<Result>> \o [i \in 1..Cardinality(S) |-> DeviceAdd(list[i])]
      BY <1>7, <2>2 DEF HandleListen, Race
    <3>2. PICK S \in SUBSET attached :
            /\ attached \ telling \subseteq S
            /\ \E list \in Bijection(1..Cardinality(S), S) :
                  inbox' = <<Result>> \o [i \in 1..Cardinality(S) |-> DeviceAdd(list[i])]
      <4> DEFINE S == (attached \ telling) \cup visible
      <4>1. S \in SUBSET attached /\ attached \ telling \subseteq S
        OBVIOUS
      <4>2. \E list \in Bijection(1..Cardinality(S), S) :
              inbox' = <<Result>> \o [i \in 1..Cardinality(S) |-> DeviceAdd(list[i])]
        BY <3>1
      <4> HIDE DEF S
      <4> QED BY <4>1, <4>2
    <3>3. S \in SUBSET Handles
      BY DEF TypeOK
    <3>4. Cardinality(S) \in Nat
      <4>1. IsFiniteSet(Handles)
        BY LibAssumption, FS_Interval DEF Handles
      <4>2. IsFiniteSet(S)
        BY <3>3, <4>1, FS_Subset
      <4> QED BY <4>2, FS_CardinalityType
    <3>5. PICK list \in Bijection(1..Cardinality(S), S) :
            inbox' = <<Result>> \o [i \in 1..Cardinality(S) |-> DeviceAdd(list[i])]
      BY <3>2
    <3>6. list \in [1..Cardinality(S) -> S] /\ \A h \in S : \E i \in 1..Cardinality(S) : list[i] = h
      BY DEF Bijection, Injection, Surjection
    <3>7. PICK s : s = <<Result>> \o [i \in 1..Cardinality(S) |-> DeviceAdd(list[i])]
      OBVIOUS
    <3>8. s \in Seq(Notices)
      <4>1. inbox' \in Seq(Notices)
        BY <1>7, DaemonKeeps DEF LInv, TypeOK
      <4> QED BY <3>5, <3>7, <4>1
    <3>9. PICK n \in Nat : n = Cardinality(S)
      BY <3>4
    <3>10. Heard({}, s) = S /\ s # <<>> /\ Head(s) = Result
      <4>1. /\ list \in [1..n -> S] /\ \A h \in S : \E i \in 1..n : list[i] = h
            /\ s = <<Result>> \o [i \in 1..n |-> DeviceAdd(list[i])]
        BY <3>6, <3>7, <3>9
      <4> QED BY ONLY <3>3, n \in Nat, <3>8, <4>1, HeardList, Zenon
    <3>11. view' = {} /\ inbox' = s
      BY <1>1, <2>1, <2>2, <3>5, <3>7 DEF Answered
    <3> QED BY <3>2, <3>10, <3>11 DEF Told
  <2> QED BY <1>1, <2>1, <2>2 DEF Connected, Answered, Accurate, TypeOK
<1> QED BY <1>2, <1>3, <1>4, <1>5, <1>6, <1>7 DEF Daemon, Telling

\* The monitor between two packets.
LEMMA MonitorGoesOn ==
  ASSUME VInv, WhileOuter \/ Connect \/ ConnectFails \/ SendListen \/ GetResult \/ WhileInner \/ CallNext
  PROVE  (Connected /\ Answered /\ Accurate)'
<1> USE DEF VInv, Goto
<1> TypeOK /\ Agreed /\ CleanStart
  BY DEF LInv, Shared
<1>1. UNCHANGED <<prog, view, attached, telling, late>>
  BY DEF WhileOuter, Connect, ConnectFails, SendListen, GetResult, WhileInner, CallNext, daemonVars, progVars
<1>2. CASE WhileOuter \/ ConnectFails \/ WhileInner \/ CallNext
  <2>1. UNCHANGED <<client, inbox, raced, eof, shut>> /\ monitor \notin {"off", "ended"}
        /\ monitor' \in {"outer", "connect", "cleanup", "argument", "receive"}
    BY <1>2 DEF WhileOuter, ConnectFails, WhileInner, CallNext, connVars
  <2>2. Told' = Told
    BY <1>1, <2>1 DEF Told
  <2> QED BY <1>1, <2>1, <2>2 DEF Connected, Answered, Accurate
<1>3. CASE Connect
  <2>1. prog = "subscribed" => view = {}
    BY <1>3 DEF Connect, CleanStart
  <2> QED BY <1>1, <1>3, <2>1 DEF Connect, Connected, Answered, Accurate
<1>4. CASE SendListen
  <2>1. UNCHANGED <<inbox, raced, eof, shut>> /\ monitor = "listen"
    BY <1>4 DEF SendListen
  <2>2. prog = "subscribed" => client' \in {"NONE", "ASKED"}
    BY <1>4 DEF SendListen, Answered, Connected
  <2>3. prog = "subscribed" /\ client' = "ASKED" => ~eof /\ client = "COMMAND"
    BY <1>4, <2>1, <2>2 DEF SendListen, Answered, Connected
  <2>4. monitor' \in {"outer", "result"}
    BY <1>4 DEF SendListen
  <2> QED BY <1>1, <2>1, <2>2, <2>3, <2>4 DEF Connected, Answered, Accurate
<1>5. CASE GetResult
  <2>1. UNCHANGED <<client, raced, eof, shut>> /\ monitor = "result" /\ monitor' = "inner"
        /\ inbox' = (IF inbox = <<>> THEN inbox ELSE Tail(inbox))
    BY <1>5 DEF GetResult
  <2>2. ASSUME prog = "subscribed", client = "LISTEN", ~raced PROVE Told' = Told
    <3>1. inbox # <<>> /\ Head(inbox) = Result /\ inbox' = Tail(inbox)
      BY <2>1, <2>2 DEF Answered
    <3>2. \A h \in Handles : h \in view <=> Head(inbox) = DeviceAdd(h) \/ (h \in view /\ Head(inbox) # DeviceRemove(h))
      BY <3>1, NoticesDiffer
    <3> QED BY <1>1, <3>1, <3>2, HeardRead DEF Told, TypeOK
  <2> QED BY <1>1, <2>1, <2>2 DEF Connected, Answered, Accurate
<1> QED BY <1>2, <1>3, <1>4, <1>5

\* Reading a packet moves what it says from what is to be read to what is known.
LEMMA PacketRead ==
  ASSUME VInv, GetNextEvent
  PROVE  (Connected /\ Answered /\ Accurate)'
<1> USE DEF VInv, Goto
<1> DEFINE n == Head(inbox)
<1>1. /\ inbox # <<>> /\ inbox' = Tail(inbox) /\ monitor = "receive" /\ monitor' = "inner"
      /\ UNCHANGED <<client, raced, eof, shut, prog, attached, telling, late>>
  BY DEF GetNextEvent, daemonVars, progVars
<1>2. n \in Notices /\ inbox \in Seq(Notices)
  BY <1>1 DEF LInv, TypeOK
<1>3. ASSUME prog = "subscribed", client = "LISTEN" PROVE Told' = Told
  <2>1. callback /\ view \subseteq Known
    BY <1>1, <1>3 DEF LInv, Shared, Agreed, Listed
  <2>2. \/ n.kind = "ADD" /\ view' = view \cup {n.handle}
        \/ n.kind = "REMOVE" /\ n.handle \in Known /\ view' = view \ {n.handle}
        \/ n.kind # "ADD" /\ (n.kind = "REMOVE" => n.handle \notin Known) /\ view' = view
    BY <2>1 DEF GetNextEvent, ReadNotice, GenerateEvents
  <2>3. ASSUME NEW h \in Handles
        PROVE  /\ n = DeviceAdd(h) <=> n.kind = "ADD" /\ n.handle = h
               /\ n = DeviceRemove(h) <=> n.kind = "REMOVE" /\ n.handle = h
    <3> HIDE DEF n
    <3> QED BY <1>2 DEF Notices, Result, DeviceAdd, DeviceRemove, Notice
  <2>4. \A h \in Handles : h \in view' <=> n = DeviceAdd(h) \/ (h \in view /\ n # DeviceRemove(h))
    <3> HIDE DEF n
    <3> QED BY <2>1, <2>2, <2>3
  <2> QED BY <1>1, <1>2, <2>4, HeardRead DEF Told
<1>4. prog = "subscribed" => client \notin {"COMMAND", "ASKED"}
  BY <1>1 DEF Answered
<1> QED BY <1>1, <1>3, <1>4 DEF Connected, Answered, Accurate

\* Only a listener whose connection is lost is told that all is gone.
LEMMA OthersTell ==
  ASSUME VInv, GetGarbled \/ ConnectionLost \/ Cleanup \/ ListenfdSeen \/ Subscribe \/ Unsubscribe \/ Stopping
  PROVE  (Connected /\ Answered /\ Accurate)'
<1> USE DEF VInv, Goto
<1>1. CASE ConnectionLost
  <2>1. UNCHANGED <<client, eof, shut, prog, inbox>> /\ monitor = "receive" /\ monitor' = "outer" /\ (eof \/ shut)
    BY <1>1 DEF ConnectionLost, connVars, progVars
  <2>2. prog = "subscribed" => client = "NONE"
    BY <2>1 DEF Connected
  <2> QED BY <2>1, <2>2 DEF Connected, Answered, Accurate
<1>2. CASE Cleanup
  <2>1. prog # "subscribed" /\ prog' = prog /\ client' = "NONE"
    BY <1>2 DEF Cleanup, LInv, Shared, Agreed, progVars
  <2> QED BY <2>1 DEF Connected, Answered, Accurate
<1>3. CASE ListenfdSeen
  <2>1. UNCHANGED <<client, raced, eof, shut, prog, inbox, view, monitor, attached, telling, late>>
    BY <1>3 DEF ListenfdSeen, connVars, progVars, monitorVars, daemonVars
  <2>2. Told' = Told
    BY <2>1 DEF Told
  <2> QED BY <2>1, <2>2 DEF Connected, Answered, Accurate
<1>4. CASE Subscribe
  <2>1. client' = "NONE" /\ monitor' = "outer"
    BY <1>4 DEF Subscribe, LInv, Shared, Agreed, Connected, connVars
  <2> QED BY <2>1 DEF Connected, Answered, Accurate
<1>5. CASE Unsubscribe
  BY <1>5 DEF Unsubscribe, Connected, Answered, Accurate, connVars, monitorVars
<1>6. CASE ShutdownFd
  BY <1>6 DEF ShutdownFd, Connected, Answered, Accurate, monitorVars
<1>7. CASE Join
  BY <1>7 DEF Join, Connected, Answered, Accurate, connVars
<1>8. CASE GetGarbled
  <2>1. UNCHANGED <<client, raced, eof, shut, prog, inbox>> /\ raced /\ monitor' \in {"inner", "outer"}
    BY <1>8 DEF GetGarbled, connVars, progVars
  <2> QED BY <2>1 DEF Connected, Answered, Accurate
<1> QED BY <1>1, <1>2, <1>3, <1>4, <1>5, <1>6, <1>7, <1>8 DEF Stopping

LEMMA VInvKept == VInv /\ [Next]_vars => VInv'
<1> SUFFICES ASSUME VInv, [Next]_vars PROVE VInv'
  OBVIOUS
<1>1. LInv'
  BY LInvKept DEF VInv
<1>2. CASE Next
  BY <1>1, <1>2, DaemonTells, MonitorGoesOn, PacketRead, OthersTell DEF VInv, Next, Monitor
<1>3. CASE UNCHANGED vars
  <2>1. Told' = Told
    BY <1>3 DEF Told, vars, connVars
  <2>2. (Connected /\ Answered /\ Accurate)'
    BY <1>3, <2>1 DEF VInv, Connected, Answered, Accurate, vars, daemonVars, connVars, monitorVars, progVars
  <2> QED BY <1>1, <2>2 DEF VInv
<1> QED BY <1>2, <1>3

\* A program that stays subscribed is told of every device the daemon has announced
\* and of no other, late announcements aside, unless two threads of the daemon have met
\* in the buffer of its client; and, in any case, that all are gone before its monitor
\* connects again (libusbmuxd.c:656-714).
THEOREM AlwaysAgrees == Spec => []ViewAgrees
<1>1. VInv => ViewAgrees
  BY DEF VInv, LInv, Shared, CleanStart, Accurate, ViewAgrees
<1> QED BY <1>1, VInvInitially, VInvKept, PTL DEF Spec
=============================================================================
