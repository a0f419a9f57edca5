--------------------------- MODULE MuxNotifyProof ---------------------------
(***************************************************************************)
(* Safety of the notifications for any number of clients and devices.      *)
(* Types are correct however the threads interleave.  Of the listeners     *)
(* whose buffer main and a worker have not been in at once (raced), none   *)
(* keeps a device that had been announced when it was removed, and none    *)
(* misses a device that is visible; what they have not read of it is on    *)
(* its way.  The main thread waits for good only in Stuck, and then does.  *)
(***************************************************************************)
EXTENDS MuxNotify, SequenceTheorems, TLAPS

-----------------------------------------------------------------------------
(***************************************************************************)
(* Sequences of notices.                                                   *)
(***************************************************************************)

LEMMA ToSetDef ==
  ASSUME NEW s \in Seq(Notice)
  PROVE  \A x : x \in ToSet(s) <=> \E i \in 1..Len(s) : s[i] = x
BY DEF ToSet

LEMMA Cat ==
  ASSUME NEW s \in Seq(Notice), NEW t \in Seq(Notice)
  PROVE  /\ s \o t \in Seq(Notice)
         /\ Len(s) \in Nat /\ Len(t) \in Nat /\ Len(s \o t) = Len(s) + Len(t)
         /\ \A i \in 1..Len(s) : (s \o t)[i] = s[i]
         /\ \A i \in 1..Len(t) : (s \o t)[Len(s) + i] = t[i]
         /\ \A i \in 1..Len(s \o t) : \/ i \in 1..Len(s)
                                      \/ i - Len(s) \in 1..Len(t) /\ (s \o t)[i] = t[i - Len(s)]
<1>1. s \o t \in Seq(Notice) /\ Len(s) \in Nat /\ Len(t) \in Nat /\ Len(s \o t) = Len(s) + Len(t)
  BY ConcatProperties, LenProperties
<1>2. \A i \in 1 .. Len(s) + Len(t) :
        (s \o t)[i] = IF i <= Len(s) THEN s[i] ELSE t[i - Len(s)]
  BY ConcatProperties
<1> QED BY <1>1, <1>2

\* What is in a sequence of notices stays there when more are appended.
LEMMA ToSetCat ==
  ASSUME NEW s \in Seq(Notice), NEW t \in Seq(Notice)
  PROVE  ToSet(s \o t) = ToSet(s) \cup ToSet(t)
<1>1. ASSUME NEW x \in ToSet(s \o t)
      PROVE  x \in ToSet(s) \cup ToSet(t)
  <2>1. PICK i \in 1..Len(s \o t) : (s \o t)[i] = x
    <3>1. s \o t \in Seq(Notice)
      BY Cat
    <3> DEFINE u == s \o t
    <3>2. u \in Seq(Notice) /\ x \in ToSet(u)
      BY <3>1, <1>1
    <3> HIDE DEF u
    <3>3. \E i \in 1..Len(u) : u[i] = x
      BY <3>2, ToSetDef
    <3> QED BY <3>3 DEF u
  <2>2. CASE i \in 1..Len(s)
    <3>1. s[i] = x
      BY <2>1, <2>2, Cat
    <3> QED BY <3>1, <2>2, ToSetDef
  <2>3. CASE i - Len(s) \in 1..Len(t) /\ (s \o t)[i] = t[i - Len(s)]
    BY <2>1, <2>3, ToSetDef
  <2> QED BY <2>2, <2>3, Cat
<1>2. ASSUME NEW x \in ToSet(s)
      PROVE  x \in ToSet(s \o t)
  <2>1. PICK i \in 1..Len(s) : s[i] = x
    BY <1>2, ToSetDef
  <2>2. i \in 1..Len(s \o t) /\ (s \o t)[i] = x
    BY <2>1, Cat
  <2> QED BY <2>2, ToSetDef, Cat
<1>3. ASSUME NEW x \in ToSet(t)
      PROVE  x \in ToSet(s \o t)
  <2>1. PICK i \in 1..Len(t) : t[i] = x
    BY <1>3, ToSetDef
  <2>2. Len(s) + i \in 1..Len(s \o t) /\ (s \o t)[Len(s) + i] = x
    BY <2>1, Cat
  <2> QED BY <2>2, ToSetDef, Cat
<1> QED BY <1>1, <1>2, <1>3

\* A send of the first n notices and what is left of the buffer make the whole.
LEMMA SplitUp ==
  ASSUME NEW s \in Seq(Notice), NEW n \in 1..Len(s)
  PROVE  /\ SubSeq(s, 1, n) \in Seq(Notice) /\ SubSeq(s, n + 1, Len(s)) \in Seq(Notice)
         /\ SubSeq(s, 1, n) \o SubSeq(s, n + 1, Len(s)) = s
<1>1. SubSeq(s, 1, n) \in Seq(Notice) /\ SubSeq(s, n + 1, Len(s)) \in Seq(Notice)
  OBVIOUS
<1>2. SubSeq(s, 1, n) \o SubSeq(s, n + 1, Len(s)) = SubSeq(s, 1, Len(s))
  <2>1. 1 \in 1..(Len(s) + 1) /\ n \in (1 - 1)..Len(s) /\ Len(s) \in n..Len(s)
    OBVIOUS
  <2> QED BY <2>1, ConcatAdjacentSubSeq
<1> QED BY <1>1, <1>2, SubSeqFull

LEMMA SingleNotice ==
  ASSUME NEW x \in Notice
  PROVE  <<x>> \in Seq(Notice) /\ Len(<<x>>) = 1 /\ <<x>>[1] = x /\ ToSet(<<x>>) = {x}
<1>1. <<x>> \in Seq(Notice) /\ Len(<<x>>) = 1 /\ <<x>>[1] = x
  OBVIOUS
<1> DEFINE t == <<x>>
<1>2. t \in Seq(Notice) /\ Len(t) = 1 /\ t[1] = x
  BY <1>1
<1> HIDE DEF t
<1>3. \A y : y \in ToSet(t) <=> \E i \in 1..1 : t[i] = y
  BY <1>2, ToSetDef
<1>4. ToSet(t) = {x}
  BY <1>2, <1>3
<1> QED BY <1>1, <1>4 DEF t

LEMMA NoticeTypes ==
  ASSUME NEW d \in Devices
  PROVE  /\ Attached(d) \in Notice /\ Removed(d) \in Notice
         /\ \A e \in Devices : Attached(d) # Removed(e) /\ (Attached(d) = Attached(e) => d = e)
         /\ Attached(d) # Result /\ Attached(d) # Garbled
BY DEF Attached, Removed, Result, Garbled, Notice

\* Appending anything but the addition of d keeps every addition of d ended.
LEMMA EndedMore ==
  ASSUME NEW d \in Devices, NEW s \in Seq(Notice), NEW t \in Seq(Notice),
         Ended(s, d), Attached(d) \notin ToSet(t)
  PROVE  Ended(s \o t, d)
<1> SUFFICES ASSUME NEW i \in 1..Len(s \o t), (s \o t)[i] = Attached(d)
             PROVE  \E j \in i..Len(s \o t) : (s \o t)[j] = Removed(d)
  BY DEF Ended
<1>1. CASE i \in 1..Len(s)
  <2>1. PICK j \in i..Len(s) : s[j] = Removed(d)
    <3>1. s[i] = Attached(d)
      BY <1>1, Cat
    <3> QED BY <1>1, <3>1 DEF Ended
  <2>2. j \in 1..Len(s) /\ j \in i..Len(s \o t)
    BY <1>1, <2>1, Cat
  <2> QED BY <2>1, <2>2, Cat
<1>2. CASE i - Len(s) \in 1..Len(t) /\ (s \o t)[i] = t[i - Len(s)]
  BY <1>2, ToSetDef
<1> QED BY <1>1, <1>2, Cat

\* The removal of d ends every addition of it.
LEMMA EndedByRemoval ==
  ASSUME NEW d \in Devices, NEW s \in Seq(Notice)
  PROVE  Ended(s \o <<Removed(d)>>, d)
<1> DEFINE t == <<Removed(d)>>
<1>1. t \in Seq(Notice) /\ Len(t) = 1 /\ t[1] = Removed(d)
  BY NoticeTypes, SingleNotice
<1> HIDE DEF t
<1>2. /\ Len(s \o t) = Len(s) + 1 /\ Len(s) \in Nat
      /\ (s \o t)[Len(s) + 1] = Removed(d)
  BY <1>1, Cat
<1>3. Ended(s \o t, d)
  BY <1>2 DEF Ended
<1> QED BY <1>3 DEF t

LEMMA EndedWithout ==
  ASSUME NEW d \in Devices, NEW s \in Seq(Notice), Attached(d) \notin ToSet(s)
  PROVE  Ended(s, d)
BY ToSetDef DEF Ended

-----------------------------------------------------------------------------
(***************************************************************************)
(* Types, and where the threads are.                                       *)
(***************************************************************************)

\* The worker has come as far as telling the clients.
Telling == {"notify", "append", "done"}

\* What the main thread works on at each of its places.
Places ==
  /\ main \in {"copy", "read", "announce", "count", "compare", "clear", "mask", "again", "close"}
       => client \in Clients
  /\ main \in {"copy", "read", "announce", "count", "compare", "clear", "mask"}
       => cstate[client] = "LISTEN"
  /\ main \in {"announce", "count", "gone"} => todo = {}
  /\ main = "count" => sent # <<>>
  /\ main \in {"dead", "tell", "gone"} => device \in Devices
  /\ device # None => dstate[device] = "DEAD" /\ device_list_mutex = Main
  /\ \A d \in Devices :
       dstate[d] = "DEAD" => main \in {"tear", "again", "close", "dead", "tell", "gone"} /\ d = device
  /\ \A c \in listening : cstate[c] = "LISTEN"

\* A device's worker starts when the device is active, and makes it visible before
\* it tells the clients; it is late if the device was removed before it had done.
Workers ==
  \A d \in Devices :
    /\ dstate[d] \in {"NEW", "INIT"} => worker[d] = "none"
    /\ worker[d] \in {"none", "start", "clients"} => ~visible[d]
    /\ worker[d] \notin {"notify", "append"} => left[d] = {}
    /\ worker[d] = "append" => dest \in Clients
    /\ dstate[d] \in {"DEAD", "FREED"} /\ d \notin late => worker[d] \in {"none", "done"}

\* A worker appends to listeners only, and to one that the main thread is at as well
\* only if that is known of it.
Meeting ==
  dest \in Clients => /\ cstate[dest] \in {"LISTEN", "FREED"}
                      /\ MainIn(dest) => dest \in raced

\* Who has a mutex is where only its owner can be.
Owners ==
  /\ client_list_mutex = Main <=> main = "tell"
  /\ main \in {"tear", "again", "dead", "tell", "gone"} => device_list_mutex = Main
  /\ device_list_mutex = Main => main \in {"tear", "again", "close", "dead", "tell", "gone"}
  /\ \A d \in Devices : /\ client_list_mutex = d <=> worker[d] \in {"clients", "notify", "append"}
                        /\ device_list_mutex # d

Basic == TypeOK /\ Places /\ Workers /\ Meeting /\ Owners

\* send_pkt keeps the types of what it writes, alone in the buffer or not.
LEMMA SendPktType ==
  ASSUME ob \in [Clients -> Seq(Notice)], pollout \subseteq Clients,
         NEW c \in Clients, NEW s \in Seq(Notice), SendPkt(c, s)
  PROVE  ob' \in [Clients -> Seq(Notice)] /\ pollout' \subseteq Clients
<1>1. ob[c] \o s \in Seq(Notice)
  BY Cat
<1> QED BY <1>1 DEF SendPkt

LEMMA SendCountType ==
  ASSUME ob \in [Clients -> Seq(Notice)], pollout \subseteq Clients,
         NEW c \in Clients, NEW x \in Notice, SendCount(c, x)
  PROVE  ob' \in [Clients -> Seq(Notice)] /\ pollout' \subseteq Clients
<1>1. PICK s \in {<<>>, <<x>>, <<Garbled, x>>} : ob' = [ob EXCEPT ![c] = @ \o s]
  BY DEF SendCount
<1>2. Garbled \in Notice
  BY DEF Garbled, Notice
<1>3. <<x>> \in Seq(Notice) /\ <<Garbled, x>> \in Seq(Notice)
  BY <1>2
<1>5. s \in Seq(Notice)
  BY <1>1, <1>3, EmptySeq
<1>4. ob[c] \o s \in Seq(Notice)
  BY <1>5, Cat
<1> QED BY <1>1, <1>4 DEF SendCount

LEMMA BasicInit == Init => Basic
<1> SUFFICES ASSUME Init PROVE Basic
  OBVIOUS
<1>1. <<>> \in Seq(Notice)
  BY EmptySeq
<1>2. TypeOK
  BY <1>1 DEF Init, TypeOK, Threads, ClientStates, DevStates, MainSteps, WorkSteps
<1>3. Places /\ Workers
  BY DEF Init, Places, Workers
<1>4. Meeting /\ Owners
  BY NotifyAssumption DEF Init, Meeting, Owners, None, Main, Nobody
<1> QED BY <1>2, <1>3, <1>4 DEF Basic

LEMMA BasicListening == Basic /\ Listening => Basic'
<1> SUFFICES ASSUME Basic, Listening PROVE Basic'
  OBVIOUS
<1> USE NotifyAssumption
    DEF Basic, None, Main, Nobody, lockVars, clientVars, devVars, mainVars, workVars, seenVars
<1>1. ASSUME NEW c \in Clients, StartListen(c) PROVE Basic'
  <2>0. ob' \in [Clients -> Seq(Notice)] /\ pollout' \subseteq Clients
    <3>1. Result \in Notice
      BY DEF Result, Notice
    <3>2. <<Result>> \in Seq(Notice) /\ SendPkt(c, <<Result>>)
      BY <1>1, <3>1, SingleNotice DEF StartListen
    <3> QED BY <3>2, SendPktType DEF TypeOK
  <2>1. TypeOK'
    BY <1>1, <2>0 DEF StartListen, ToMain, TypeOK, MainSteps, Threads, ClientStates
  <2>2. Places'
    BY <1>1, <2>0 DEF StartListen, ToMain, Idle, TypeOK, Places, Owners
  <2>3. Workers' /\ Meeting'
    BY <1>1, <2>0 DEF StartListen, ToMain, Idle, TypeOK, Workers, Meeting, MainIn, Places
  <2>4. Owners'
    BY <1>1, <2>0 DEF StartListen, ToMain, Idle, TypeOK, Owners, Places, Workers
  <2> QED BY <2>1, <2>2, <2>3, <2>4
<1>2. CASE GetListCopy
  <2>1. TypeOK'
    BY <1>2 DEF GetListCopy, ToMain, TypeOK, MainSteps, Threads
  <2>2. Places'
    BY <1>2 DEF GetListCopy, ToMain, Idle, TypeOK, Places, Owners
  <2>3. Workers' /\ Meeting'
    BY <1>2 DEF GetListCopy, ToMain, Idle, TypeOK, Workers, Meeting, MainIn, Places
  <2>4. Owners'
    BY <1>2 DEF GetListCopy, ToMain, Idle, TypeOK, Owners, Places, Workers
  <2> QED BY <2>1, <2>2, <2>3, <2>4
<1>3. ASSUME NEW d \in Devices, GetListRead(d) PROVE Basic'
  <2>0. Append(sent, Attached(d)) \in Seq(Notice)
    BY NoticeTypes DEF TypeOK
  <2>1. TypeOK'
    BY <1>3, <2>0 DEF GetListRead, ToMain, TypeOK, MainSteps, Threads
  <2>2. Places'
    BY <1>3, <2>0 DEF GetListRead, ToMain, Idle, TypeOK, Places, Owners
  <2>3. Workers' /\ Meeting'
    BY <1>3, <2>0 DEF GetListRead, ToMain, Idle, TypeOK, Workers, Meeting, MainIn, Places
  <2>4. Owners'
    BY <1>3, <2>0 DEF GetListRead, ToMain, Idle, TypeOK, Owners, Places, Workers
  <2> QED BY <2>1, <2>2, <2>3, <2>4
<1>4. CASE GetListDone
  <2>1. TypeOK'
    BY <1>4 DEF GetListDone, ToMain, TypeOK, MainSteps, Threads
  <2>2. Places'
    BY <1>4 DEF GetListDone, ToMain, Idle, TypeOK, Places, Owners
  <2>3. Workers' /\ Meeting'
    BY <1>4 DEF GetListDone, ToMain, Idle, TypeOK, Workers, Meeting, MainIn, Places
  <2>4. Owners'
    BY <1>4 DEF GetListDone, ToMain, Idle, TypeOK, Owners, Places, Workers
  <2> QED BY <2>1, <2>2, <2>3, <2>4
<1>5. CASE AnnounceCopy
  <2>1. TypeOK'
    BY <1>5 DEF AnnounceCopy, ToMain, TypeOK, MainSteps, Threads, Places
  <2>2. Places'
    BY <1>5 DEF AnnounceCopy, ToMain, Idle, TypeOK, Places, Owners
  <2>3. Workers' /\ Meeting'
    BY <1>5 DEF AnnounceCopy, ToMain, Idle, TypeOK, Workers, Meeting, MainIn, Places, WorkerIn
  <2>4. Owners'
    BY <1>5 DEF AnnounceCopy, ToMain, Idle, TypeOK, Owners, Places, Workers
  <2> QED BY <2>1, <2>2, <2>3, <2>4
<1>6. CASE AnnounceCount
  <2>0. /\ client \in Clients /\ cstate[client] = "LISTEN"
        /\ ob' \in [Clients -> Seq(Notice)] /\ pollout' \subseteq Clients
        /\ Tail(sent) \in Seq(Notice)
    <3>1. client \in Clients /\ cstate[client] = "LISTEN" /\ sent \in Seq(Notice) /\ sent # <<>>
      BY <1>6 DEF AnnounceCount, Places, TypeOK
    <3>2. Head(sent) \in Notice /\ Tail(sent) \in Seq(Notice)
      BY <3>1, HeadTailProperties
    <3>3. SendCount(client, Head(sent))
      BY <1>6 DEF AnnounceCount
    <3> QED BY <3>1, <3>2, <3>3, SendCountType DEF TypeOK
  <2>1. TypeOK'
    BY <1>6, <2>0 DEF AnnounceCount, ToMain, TypeOK, MainSteps, Threads
  <2>2. Places'
    BY <1>6, <2>0 DEF AnnounceCount, ToMain, Idle, TypeOK, Places, Owners
  <2>3. Workers' /\ Meeting'
    BY <1>6, <2>0 DEF AnnounceCount, ToMain, Idle, TypeOK, Workers, Meeting, MainIn, Places
  <2>4. Owners'
    BY <1>6, <2>0 DEF AnnounceCount, ToMain, Idle, TypeOK, Owners, Places, Workers
  <2> QED BY <2>1, <2>2, <2>3, <2>4
<1>7. CASE AnnounceDone
  <2>1. TypeOK'
    BY <1>7 DEF AnnounceDone, ToMain, BackToIdle, TypeOK, MainSteps, Threads, Places
  <2>2. Places'
    BY <1>7 DEF AnnounceDone, ToMain, BackToIdle, Idle, TypeOK, Places, Owners
  <2>3. Workers' /\ Meeting'
    BY <1>7 DEF AnnounceDone, ToMain, BackToIdle, Idle, TypeOK, Workers, Meeting, MainIn, Places
  <2>4. Owners'
    BY <1>7 DEF AnnounceDone, ToMain, BackToIdle, Idle, TypeOK, Owners, Places, Workers
  <2> QED BY <2>1, <2>2, <2>3, <2>4
<1> QED BY <1>1, <1>2, <1>3, <1>4, <1>5, <1>6, <1>7 DEF Listening

LEMMA BasicTearing == Basic /\ Tearing => Basic'
<1> SUFFICES ASSUME Basic, Tearing PROVE Basic'
  OBVIOUS
<1> USE NotifyAssumption
    DEF Basic, None, Main, Nobody, lockVars, clientVars, devVars, mainVars, workVars, seenVars
<1>1. ASSUME NEW S \in SUBSET Clients, CheckTimeouts(S) PROVE Basic'
  <2>1. TypeOK'
    BY <1>1 DEF CheckTimeouts, ToMain, TypeOK, MainSteps, Threads
  <2>2. Places'
    BY <1>1 DEF CheckTimeouts, ToMain, Idle, TypeOK, Places, Owners
  <2>3. Workers' /\ Meeting'
    BY <1>1 DEF CheckTimeouts, ToMain, Idle, TypeOK, Workers, Meeting, MainIn, Places
  <2>4. Owners'
    BY <1>1 DEF CheckTimeouts, ToMain, Idle, TypeOK, Owners, Places, Workers
  <2> QED BY <2>1, <2>2, <2>3, <2>4
<1>2. ASSUME NEW c \in Clients, TearDown(c) PROVE Basic'
  <2>1. TypeOK'
    BY <1>2 DEF TearDown, ToMain, TypeOK, MainSteps, Threads
  <2>2. Places'
    BY <1>2 DEF TearDown, ToMain, Idle, TypeOK, Places, Owners
  <2>3. Workers' /\ Meeting'
    BY <1>2 DEF TearDown, ToMain, Idle, TypeOK, Workers, Meeting, MainIn, Places
  <2>4. Owners'
    BY <1>2 DEF TearDown, ToMain, Idle, TypeOK, Owners, Places, Workers
  <2> QED BY <2>1, <2>2, <2>3, <2>4
<1>3. CASE TearDone
  <2>1. TypeOK'
    BY <1>3 DEF TearDone, ToMain, BackToIdle, TypeOK, MainSteps, Threads
  <2>2. Places'
    BY <1>3 DEF TearDone, ToMain, BackToIdle, Idle, TypeOK, Places, Owners
  <2>3. Workers' /\ Meeting'
    BY <1>3 DEF TearDone, ToMain, BackToIdle, Idle, TypeOK, Workers, Meeting, MainIn, Places
  <2>4. Owners'
    BY <1>3 DEF TearDone, ToMain, BackToIdle, Idle, TypeOK, Owners, Places, Workers
  <2> QED BY <2>1, <2>2, <2>3, <2>4
<1> QED BY <1>1, <1>2, <1>3 DEF Tearing

LEMMA BasicRemoving == Basic /\ Removing => Basic'
<1> SUFFICES ASSUME Basic, Removing PROVE Basic'
  OBVIOUS
<1> USE NotifyAssumption
    DEF Basic, None, Main, Nobody, lockVars, clientVars, devVars, mainVars, workVars, seenVars
<1>1. ASSUME NEW d \in Devices, DeviceRemove(d) PROVE Basic'
  <2>0. worker[d] \in WorkSteps
    BY DEF TypeOK
  <2>1. TypeOK'
    BY <1>1, <2>0 DEF DeviceRemove, ToMain, TypeOK, MainSteps, Threads, DevStates, WorkSteps
  <2>2. Places'
    BY <1>1, <2>0 DEF DeviceRemove, ToMain, Idle, TypeOK, Places, Owners
  <2>3. Workers' /\ Meeting'
    BY <1>1, <2>0 DEF DeviceRemove, ToMain, Idle, TypeOK, Workers, Meeting, MainIn, Places, WorkSteps
  <2>4. Owners'
    BY <1>1, <2>0 DEF DeviceRemove, ToMain, Idle, TypeOK, Owners, Places, Workers
  <2> QED BY <2>1, <2>2, <2>3, <2>4
<1>2. CASE RemoveLockClients
  <2>1. TypeOK'
    BY <1>2 DEF RemoveLockClients, ToMain, TypeOK, MainSteps, Threads, Listed
  <2>2. Places'
    BY <1>2 DEF RemoveLockClients, ToMain, Idle, TypeOK, Places, Owners
  <2>3. Workers' /\ Meeting'
    BY <1>2 DEF RemoveLockClients, ToMain, Idle, TypeOK, Workers, Meeting, MainIn, Places
  <2>4. Owners'
    BY <1>2 DEF RemoveLockClients, ToMain, Idle, TypeOK, Owners, Places, Workers
  <2> QED BY <2>1, <2>2, <2>3, <2>4
<1>3. ASSUME NEW c \in Clients, RemoveTell(c) PROVE Basic'
  <2>0. ob' \in [Clients -> Seq(Notice)] /\ pollout' \subseteq Clients
    <3>1. device \in Devices
      BY <1>3 DEF RemoveTell, Places
    <3> DEFINE s == IF cstate[c] = "LISTEN" THEN <<Removed(device)>> ELSE <<>>
    <3>2. s \in Seq(Notice) /\ SendPkt(c, s)
      BY <1>3, <3>1, NoticeTypes, SingleNotice, EmptySeq DEF RemoveTell
    <3> HIDE DEF s
    <3> QED BY <3>2, SendPktType DEF TypeOK
  <2>1. TypeOK'
    BY <1>3, <2>0 DEF RemoveTell, ToMain, TypeOK, MainSteps, Threads
  <2>2. Places'
    BY <1>3, <2>0 DEF RemoveTell, ToMain, Idle, TypeOK, Places, Owners
  <2>3. Workers' /\ Meeting'
    BY <1>3, <2>0 DEF RemoveTell, ToMain, Idle, TypeOK, Workers, Meeting, MainIn, Places
  <2>4. Owners'
    BY <1>3, <2>0 DEF RemoveTell, ToMain, Idle, TypeOK, Owners, Places, Workers
  <2> QED BY <2>1, <2>2, <2>3, <2>4
<1>4. CASE RemoveUnlockClients
  <2>1. TypeOK'
    BY <1>4 DEF RemoveUnlockClients, ToMain, TypeOK, MainSteps, Threads
  <2>2. Places'
    BY <1>4 DEF RemoveUnlockClients, ToMain, Idle, TypeOK, Places, Owners
  <2>3. Workers' /\ Meeting'
    BY <1>4 DEF RemoveUnlockClients, ToMain, Idle, TypeOK, Workers, Meeting, MainIn, Places
  <2>4. Owners'
    BY <1>4 DEF RemoveUnlockClients, ToMain, Idle, TypeOK, Owners, Places, Workers
  <2> QED BY <2>1, <2>2, <2>3, <2>4
<1>5. CASE RemoveDone
  <2>1. TypeOK'
    BY <1>5 DEF RemoveDone, ToMain, BackToIdle, TypeOK, MainSteps, Threads, DevStates
  <2>2. Places'
    BY <1>5 DEF RemoveDone, ToMain, BackToIdle, Idle, TypeOK, Places, Owners
  <2>3. Workers' /\ Meeting'
    BY <1>5 DEF RemoveDone, ToMain, BackToIdle, Idle, TypeOK, Workers, Meeting, MainIn, Places
  <2>4. Owners'
    BY <1>5 DEF RemoveDone, ToMain, BackToIdle, Idle, TypeOK, Owners, Places, Workers
  <2> QED BY <2>1, <2>2, <2>3, <2>4
<1> QED BY <1>1, <1>2, <1>3, <1>4, <1>5 DEF Removing

LEMMA BasicSending == Basic /\ Sending => Basic'
<1> SUFFICES ASSUME Basic, Sending PROVE Basic'
  OBVIOUS
<1> USE NotifyAssumption
    DEF Basic, None, Main, Nobody, lockVars, clientVars, devVars, mainVars, workVars, seenVars
<1>1. ASSUME NEW c \in Clients, ProcessSend(c) PROVE Basic'
  <2>0. seen' \in [Clients -> Seq(Notice)] /\ sent' \in Seq(Notice)
    <3>1. PICK n \in 1..Len(ob[c]) :
            /\ seen' = [seen EXCEPT ![c] = @ \o SubSeq(ob[c], 1, n)]
            /\ sent' = SubSeq(ob[c], 1, n)
      BY <1>1 DEF ProcessSend
    <3>2. seen[c] \in Seq(Notice) /\ ob[c] \in Seq(Notice)
      BY DEF TypeOK
    <3>3. SubSeq(ob[c], 1, n) \in Seq(Notice) /\ seen[c] \o SubSeq(ob[c], 1, n) \in Seq(Notice)
      BY <3>2, SplitUp, Cat
    <3> QED BY <3>1, <3>3 DEF TypeOK
  <2>1. TypeOK'
    BY <1>1, <2>0 DEF ProcessSend, ToMain, TypeOK, MainSteps, Threads
  <2>2. Places'
    BY <1>1, <2>0 DEF ProcessSend, ToMain, Idle, TypeOK, Places, Owners
  <2>3. Workers' /\ Meeting'
    BY <1>1, <2>0 DEF ProcessSend, ToMain, Idle, TypeOK, Workers, Meeting, MainIn, Places, WorkerIn
  <2>4. Owners'
    BY <1>1, <2>0 DEF ProcessSend, ToMain, Idle, TypeOK, Owners, Places, Workers
  <2> QED BY <2>1, <2>2, <2>3, <2>4
<1>2. CASE SendCompare
  <2>0. client \in Clients /\ <<>> \in Seq(Notice) /\ ob' \in [Clients -> Seq(Notice)]
    <3>1. client \in Clients /\ ob[client] \in Seq(Notice) /\ sent \in Seq(Notice)
      BY <1>2 DEF SendCompare, Places, TypeOK
    <3>2. SubSeq(ob[client], Len(sent) + 1, Len(ob[client])) \in Seq(Notice)
      BY <3>1
    <3>3. \E r \in Seq(Notice) : ob' = ob \/ ob' = [ob EXCEPT ![client] = r]
      BY <1>2, <3>2, EmptySeq DEF SendCompare
    <3>4. PICK r \in Seq(Notice) : ob' = ob \/ ob' = [ob EXCEPT ![client] = r]
      BY <3>3
    <3>5. ob \in [Clients -> Seq(Notice)]
      BY DEF TypeOK
    <3>6. ob' \in [Clients -> Seq(Notice)]
      BY <3>4, <3>5
    <3> QED BY <3>1, <3>6, EmptySeq
  <2>1. TypeOK'
    BY <1>2, <2>0 DEF SendCompare, ToMain, BackToIdle, TypeOK, MainSteps, Threads
  <2>2. Places'
    BY <1>2, <2>0 DEF SendCompare, ToMain, BackToIdle, Idle, TypeOK, Places, Owners
  <2>3. Workers' /\ Meeting'
    BY <1>2, <2>0 DEF SendCompare, ToMain, BackToIdle, Idle, TypeOK, Workers, Meeting, MainIn, Places
  <2>4. Owners'
    BY <1>2, <2>0 DEF SendCompare, ToMain, BackToIdle, Idle, TypeOK, Owners, Places, Workers
  <2> QED BY <2>1, <2>2, <2>3, <2>4
<1>3. CASE SendClear
  <2>0. client \in Clients /\ <<>> \in Seq(Notice)
    BY <1>3, EmptySeq DEF SendClear, Places
  <2>1. TypeOK'
    BY <1>3, <2>0 DEF SendClear, ToMain, TypeOK, MainSteps, Threads
  <2>2. Places'
    BY <1>3, <2>0 DEF SendClear, ToMain, Idle, TypeOK, Places, Owners
  <2>3. Workers' /\ Meeting'
    BY <1>3, <2>0 DEF SendClear, ToMain, Idle, TypeOK, Workers, Meeting, MainIn, Places
  <2>4. Owners'
    BY <1>3, <2>0 DEF SendClear, ToMain, Idle, TypeOK, Owners, Places, Workers
  <2> QED BY <2>1, <2>2, <2>3, <2>4
<1>4. CASE SendMask
  <2>1. TypeOK'
    BY <1>4 DEF SendMask, ToMain, BackToIdle, TypeOK, MainSteps, Threads
  <2>2. Places'
    BY <1>4 DEF SendMask, ToMain, BackToIdle, Idle, TypeOK, Places, Owners
  <2>3. Workers' /\ Meeting'
    BY <1>4 DEF SendMask, ToMain, BackToIdle, Idle, TypeOK, Workers, Meeting, MainIn, Places
  <2>4. Owners'
    BY <1>4 DEF SendMask, ToMain, BackToIdle, Idle, TypeOK, Owners, Places, Workers
  <2> QED BY <2>1, <2>2, <2>3, <2>4
<1> QED BY <1>1, <1>2, <1>3, <1>4 DEF Sending

LEMMA BasicClosing == Basic /\ Closing => Basic'
<1> SUFFICES ASSUME Basic, Closing PROVE Basic'
  OBVIOUS
<1> USE NotifyAssumption
    DEF Basic, None, Main, Nobody, lockVars, clientVars, devVars, mainVars, workVars, seenVars
<1>1. ASSUME NEW c \in Clients, ClientClose(c) PROVE Basic'
  <2>1. TypeOK'
    BY <1>1 DEF ClientClose, ToMain, TypeOK, MainSteps, Threads
  <2>2. Places'
    BY <1>1 DEF ClientClose, ToMain, Idle, TypeOK, Places, Owners
  <2>3. Workers' /\ Meeting'
    BY <1>1 DEF ClientClose, ToMain, Idle, TypeOK, Workers, Meeting, MainIn, Places
  <2>4. Owners'
    BY <1>1 DEF ClientClose, ToMain, Idle, TypeOK, Owners, Places, Workers
  <2> QED BY <2>1, <2>2, <2>3, <2>4
<1>2. CASE CloseRemove
  <2>0. client \in Clients /\ <<>> \in Seq(Notice)
    BY <1>2, EmptySeq DEF CloseRemove, Places
  <2>1. TypeOK'
    BY <1>2, <2>0 DEF CloseRemove, ToMain, BackToIdle, TypeOK, MainSteps, Threads, ClientStates
  <2>2. Places'
    BY <1>2, <2>0 DEF CloseRemove, ToMain, BackToIdle, Idle, TypeOK, Places, Owners
  <2>3. Workers' /\ Meeting'
    BY <1>2, <2>0 DEF CloseRemove, ToMain, BackToIdle, Idle, TypeOK, Workers, Meeting, MainIn, Places
  <2>4. Owners'
    BY <1>2, <2>0 DEF CloseRemove, ToMain, BackToIdle, Idle, TypeOK, Owners, Places, Workers
  <2> QED BY <2>1, <2>2, <2>3, <2>4
<1> QED BY <1>1, <1>2 DEF Closing

LEMMA BasicArriving == Basic /\ Arriving => Basic'
<1> SUFFICES ASSUME Basic, Arriving PROVE Basic'
  OBVIOUS
<1> USE NotifyAssumption
    DEF Basic, None, Main, Nobody, lockVars, clientVars, devVars, mainVars, workVars, seenVars
<1>1. ASSUME NEW c \in Clients, ClientAccept(c) PROVE Basic'
  <2>1. TypeOK'
    BY <1>1 DEF ClientAccept, ToMain, TypeOK, MainSteps, Threads, ClientStates
  <2>2. Places'
    BY <1>1 DEF ClientAccept, ToMain, Idle, TypeOK, Places, Owners
  <2>3. Workers' /\ Meeting'
    BY <1>1 DEF ClientAccept, ToMain, Idle, TypeOK, Workers, Meeting, MainIn, Places
  <2>4. Owners'
    BY <1>1 DEF ClientAccept, ToMain, Idle, TypeOK, Owners, Places, Workers
  <2> QED BY <2>1, <2>2, <2>3, <2>4
<1>2. ASSUME NEW c \in Clients, Connected(c) PROVE Basic'
  <2>1. TypeOK'
    BY <1>2 DEF Connected, ToMain, TypeOK, MainSteps, Threads, ClientStates
  <2>2. Places'
    BY <1>2 DEF Connected, ToMain, Idle, TypeOK, Places, Owners
  <2>3. Workers' /\ Meeting'
    BY <1>2 DEF Connected, ToMain, Idle, TypeOK, Workers, Meeting, MainIn, Places
  <2>4. Owners'
    BY <1>2 DEF Connected, ToMain, Idle, TypeOK, Owners, Places, Workers
  <2> QED BY <2>1, <2>2, <2>3, <2>4
<1>3. ASSUME NEW c \in Clients, NEW d \in Devices, Connect(c, d) PROVE Basic'
  <2>1. TypeOK'
    BY <1>3 DEF Connect, ToMain, TypeOK, MainSteps, Threads, ClientStates
  <2>2. Places'
    BY <1>3 DEF Connect, ToMain, Idle, TypeOK, Places, Owners
  <2>3. Workers' /\ Meeting'
    BY <1>3 DEF Connect, ToMain, Idle, TypeOK, Workers, Meeting, MainIn, Places
  <2>4. Owners'
    BY <1>3 DEF Connect, ToMain, Idle, TypeOK, Owners, Places, Workers
  <2> QED BY <2>1, <2>2, <2>3, <2>4
<1>4. ASSUME NEW d \in Devices, DeviceAdd(d) PROVE Basic'
  <2>1. TypeOK'
    BY <1>4 DEF DeviceAdd, ToMain, TypeOK, MainSteps, Threads, DevStates
  <2>2. Places'
    BY <1>4 DEF DeviceAdd, ToMain, Idle, TypeOK, Places, Owners
  <2>3. Workers' /\ Meeting'
    BY <1>4 DEF DeviceAdd, ToMain, Idle, TypeOK, Workers, Meeting, MainIn, Places
  <2>4. Owners'
    BY <1>4 DEF DeviceAdd, ToMain, Idle, TypeOK, Owners, Places, Workers
  <2> QED BY <2>1, <2>2, <2>3, <2>4
<1>5. ASSUME NEW d \in Devices, DeviceVersionInput(d) PROVE Basic'
  <2>1. TypeOK'
    BY <1>5 DEF DeviceVersionInput, ToMain, TypeOK, MainSteps, Threads, DevStates, WorkSteps
  <2>2. Places'
    BY <1>5 DEF DeviceVersionInput, ToMain, Idle, TypeOK, Places, Owners
  <2>3. Workers' /\ Meeting'
    BY <1>5 DEF DeviceVersionInput, ToMain, Idle, TypeOK, Workers, Meeting, MainIn, Places
  <2>4. Owners'
    BY <1>5 DEF DeviceVersionInput, ToMain, Idle, TypeOK, Owners, Places, Workers
  <2> QED BY <2>1, <2>2, <2>3, <2>4
<1> QED BY <1>1, <1>2, <1>3, <1>4, <1>5 DEF Arriving

LEMMA BasicWorking ==
  ASSUME Basic, NEW d \in Devices, Working(d)
  PROVE  Basic'
<1> USE NotifyAssumption
    DEF Basic, None, Main, Nobody, lockVars, clientVars, devVars, mainVars, workVars, seenVars
<1>1. CASE WorkerLockClients(d)
  <2>1. TypeOK'
    BY <1>1 DEF WorkerLockClients, ToMain, TypeOK, MainSteps, Threads, WorkSteps
  <2>2. Places'
    BY <1>1 DEF WorkerLockClients, ToMain, Idle, TypeOK, Places, Owners
  <2>3. Workers' /\ Meeting'
    BY <1>1 DEF WorkerLockClients, ToMain, Idle, TypeOK, Workers, Meeting, MainIn, Places
  <2>4. Owners'
    BY <1>1 DEF WorkerLockClients, ToMain, Idle, TypeOK, Owners, Places, Workers
  <2> QED BY <2>1, <2>2, <2>3, <2>4
<1>2. CASE WorkerSetVisible(d)
  <2>1. TypeOK'
    BY <1>2 DEF WorkerSetVisible, ToMain, TypeOK, MainSteps, Threads, WorkSteps, Listed
  <2>2. Places'
    BY <1>2 DEF WorkerSetVisible, ToMain, Idle, TypeOK, Places, Owners
  <2>3. Workers' /\ Meeting'
    BY <1>2 DEF WorkerSetVisible, ToMain, Idle, TypeOK, Workers, Meeting, MainIn, Places
  <2>4. Owners'
    BY <1>2 DEF WorkerSetVisible, ToMain, Idle, TypeOK, Owners, Places, Workers
  <2> QED BY <2>1, <2>2, <2>3, <2>4
<1>3. CASE WorkerCount(d)
  <2>0. dest \in Clients /\ ob' \in [Clients -> Seq(Notice)] /\ pollout' \subseteq Clients
    <3>1. dest \in Clients /\ SendCount(dest, Attached(d))
      BY <1>3 DEF WorkerCount, Workers
    <3> QED BY <3>1, NoticeTypes, SendCountType DEF TypeOK
  <2>1. TypeOK'
    BY <1>3, <2>0 DEF WorkerCount, ToMain, TypeOK, MainSteps, Threads, WorkSteps
  <2>2. Places'
    BY <1>3, <2>0 DEF WorkerCount, ToMain, Idle, TypeOK, Places, Owners
  <2>3. Workers' /\ Meeting'
    BY <1>3, <2>0 DEF WorkerCount, ToMain, Idle, TypeOK, Workers, Meeting, MainIn, Places, Owners
  <2>4. Owners'
    BY <1>3, <2>0 DEF WorkerCount, ToMain, Idle, TypeOK, Owners, Places, Workers
  <2> QED BY <2>1, <2>2, <2>3, <2>4
<1>4. CASE WorkerDone(d)
  <2>1. TypeOK'
    BY <1>4 DEF WorkerDone, ToMain, TypeOK, MainSteps, Threads, WorkSteps
  <2>2. Places'
    BY <1>4 DEF WorkerDone, ToMain, Idle, TypeOK, Places, Owners
  <2>3. Workers' /\ Meeting'
    BY <1>4 DEF WorkerDone, ToMain, Idle, TypeOK, Workers, Meeting, MainIn, Places
  <2>4. Owners'
    BY <1>4 DEF WorkerDone, ToMain, Idle, TypeOK, Owners, Places, Workers
  <2> QED BY <2>1, <2>2, <2>3, <2>4
<1>5. ASSUME NEW c \in Clients, WorkerNotify(d, c) PROVE Basic'
  <2>0. /\ worker[d] = "notify" /\ left' = [left EXCEPT ![d] = @ \ {c}] /\ client_list_mutex = d
        /\ UNCHANGED <<lockVars, cstate, ob, pollout, tunnel, freed, devVars, mainVars, late, seenVars>>
    BY <1>5 DEF WorkerNotify, Owners
  <2>1. CASE cstate[c] = "LISTEN"
    <3>0. /\ dest' = c /\ worker' = [worker EXCEPT ![d] = "append"]
          /\ raced' = raced \cup {c} \/ (raced' = raced /\ ~MainIn(c))
      BY <1>5, <2>1 DEF WorkerNotify
    <3>1. TypeOK'
      BY <2>0, <3>0 DEF TypeOK, WorkSteps
    <3>2. Places' /\ Owners'
      BY <2>0, <3>0 DEF TypeOK, Places, Owners
    <3>3. Workers' /\ Meeting'
      BY <2>0, <2>1, <3>0 DEF TypeOK, Workers, Meeting, MainIn
    <3> QED BY <3>1, <3>2, <3>3
  <2>2. CASE cstate[c] # "LISTEN"
    <3>0. dest' = dest /\ worker' = worker /\ raced' = raced
      BY <1>5, <2>2 DEF WorkerNotify
    <3>1. TypeOK'
      BY <2>0, <3>0 DEF TypeOK
    <3>2. Places' /\ Owners'
      BY <2>0, <3>0 DEF Places, Owners
    <3>3. Workers' /\ Meeting'
      BY <2>0, <3>0 DEF TypeOK, Workers, Meeting, MainIn
    <3> QED BY <3>1, <3>2, <3>3
  <2> QED BY <2>1, <2>2
<1> QED BY <1>1, <1>2, <1>3, <1>4, <1>5 DEF Working

LEMMA BasicStutter == Basic /\ UNCHANGED vars => Basic'
<1> SUFFICES ASSUME Basic, UNCHANGED vars PROVE Basic'
  OBVIOUS
<1> USE DEF vars, lockVars, clientVars, devVars, mainVars, workVars, seenVars
<1>1. TypeOK'
  BY DEF Basic, TypeOK
<1>2. Places' /\ Workers'
  BY DEF Basic, Places, Workers
<1>3. Meeting' /\ Owners'
  BY DEF Basic, Meeting, MainIn, Owners
<1> QED BY <1>1, <1>2, <1>3 DEF Basic

LEMMA BasicStep == Basic /\ [Next]_vars => Basic'
BY BasicListening, BasicTearing, BasicRemoving, BasicSending, BasicClosing, BasicArriving,
   BasicWorking, BasicStutter DEF Next

LEMMA BasicAlways == Spec => []Basic
BY BasicInit, BasicStep, PTL DEF Spec

\* The locks, buffers and lists keep their types whichever way the main thread and
\* the workers of client.c and preflight.c interleave, two in one buffer or not.
THEOREM NotifyTypeCorrect == Spec => []TypeOK
<1>1. Basic => TypeOK
  BY DEF Basic
<1> QED BY <1>1, BasicAlways, PTL

-----------------------------------------------------------------------------
(***************************************************************************)
(* What a listener is told, and that a removal ends it.                    *)
(***************************************************************************)

LEMMA EmptyTold ==
  /\ <<>> \in Seq(Notice) /\ ToSet(<<>>) = {}
  /\ \A s \in Seq(Notice) : s \o <<>> = s
  /\ \A d \in Devices : Ended(<<>>, d)
<1>1. <<>> \in Seq(Notice) /\ Len(<<>>) = 0
  BY EmptySeq
<1>2. ToSet(<<>>) = {}
  <2> DEFINE t == <<>>
  <2>1. t \in Seq(Notice) /\ Len(t) = 0
    BY <1>1
  <2> HIDE DEF t
  <2>2. ~ \E i \in 1..Len(t) : TRUE
    BY <2>1
  <2>3. \A x : x \in ToSet(t) <=> \E i \in 1..Len(t) : t[i] = x
    BY <2>1, ToSetDef
  <2>4. \A x : x \notin ToSet(t)
    BY <2>2, <2>3
  <2>5. ToSet(t) = {}
    BY <2>4
  <2> QED BY <2>5 DEF t
<1>3. \A d \in Devices : Ended(<<>>, d)
  BY <1>1 DEF Ended
<1>4. \A s \in Seq(Notice) : s \o <<>> = s
  OBVIOUS
<1> QED BY <1>1, <1>2, <1>3, <1>4

LEMMA CatCat ==
  ASSUME NEW s \in Seq(Notice), NEW t \in Seq(Notice), NEW u \in Seq(Notice)
  PROVE  (s \o t) \o u = s \o (t \o u)
BY ConcatAssociative

LEMMA HeadAndTail ==
  ASSUME NEW s \in Seq(Notice), s # <<>>
  PROVE  ToSet(s) = {Head(s)} \cup ToSet(Tail(s)) /\ Head(s) \in Notice /\ Tail(s) \in Seq(Notice)
<1>1. /\ Head(s) \in Notice /\ Tail(s) \in Seq(Notice) /\ Len(s) \in Nat /\ Len(s) > 0
      /\ Head(s) = s[1] /\ Len(Tail(s)) = Len(s) - 1
      /\ \A i \in 1..Len(Tail(s)) : Tail(s)[i] = s[i + 1]
  BY HeadTailProperties, EmptySeq
<1> DEFINE t == Tail(s)
<1>2. \A x : x \in ToSet(s) <=> \E i \in 1..Len(s) : s[i] = x
  BY ToSetDef
<1>3. \A x : x \in ToSet(t) <=> \E i \in 1..Len(t) : t[i] = x
  BY <1>1, ToSetDef
<1>4. ASSUME NEW x \in ToSet(s) PROVE x = Head(s) \/ x \in ToSet(t)
  <2>1. PICK i \in 1..Len(s) : s[i] = x
    BY <1>2, <1>4
  <2>2. CASE i # 1
    <3>1. i - 1 \in 1..Len(t) /\ t[i - 1] = x
      BY <1>1, <2>1, <2>2
    <3> QED BY <1>3, <3>1
  <2> QED BY <1>1, <2>1, <2>2
<1>5. ASSUME NEW x \in ToSet(t) PROVE x \in ToSet(s)
  <2>1. PICK i \in 1..Len(t) : t[i] = x
    BY <1>3, <1>5
  <2>2. i + 1 \in 1..Len(s) /\ s[i + 1] = x
    BY <1>1, <2>1
  <2> QED BY <1>2, <2>2
<1>6. Head(s) \in ToSet(s)
  BY <1>1, <1>2
<1> HIDE DEF t
<1>7. ToSet(s) = {Head(s)} \cup ToSet(t)
  BY <1>4, <1>5, <1>6
<1> QED BY <1>1, <1>7 DEF t

LEMMA AppendSet ==
  ASSUME TypeOK, NEW d \in Devices
  PROVE  ToSet(Append(sent, Attached(d))) = ToSet(sent) \cup {Attached(d)}
<1> DEFINE t == <<Attached(d)>>
<1>1. sent \in Seq(Notice) /\ t \in Seq(Notice) /\ ToSet(t) = {Attached(d)}
  BY NoticeTypes, SingleNotice DEF TypeOK
<1>2. Append(sent, Attached(d)) = sent \o t
  BY <1>1, NoticeTypes, AppendIsConcat
<1> HIDE DEF t
<1>3. ToSet(sent \o t) = ToSet(sent) \cup ToSet(t)
  BY <1>1, ToSetCat
<1> QED BY <1>1, <1>2, <1>3

LEMMA ToldType ==
  ASSUME TypeOK, NEW c \in Clients
  PROVE  /\ seen[c] \in Seq(Notice) /\ ob[c] \in Seq(Notice) /\ Unsent(c) \in Seq(Notice)
         /\ Told(c) \in Seq(Notice) /\ ToSet(Told(c)) = ToSet(seen[c]) \cup ToSet(Unsent(c))
<1>1. seen[c] \in Seq(Notice) /\ ob[c] \in Seq(Notice) /\ sent \in Seq(Notice)
  BY DEF TypeOK
<1>2. SubSeq(ob[c], Len(sent) + 1, Len(ob[c])) \in Seq(Notice)
  BY <1>1
<1>3. Unsent(c) \in Seq(Notice)
  BY <1>1, <1>2, EmptySeq DEF Unsent
<1> QED BY <1>1, <1>3, Cat, ToSetCat DEF Told

LEMMA TailSet ==
  ASSUME NEW s \in Seq(Notice), NEW n \in Nat
  PROVE  ToSet(SubSeq(s, n + 1, Len(s))) \subseteq ToSet(s)
<1> DEFINE r == SubSeq(s, n + 1, Len(s))
<1>1. r \in Seq(Notice)
  OBVIOUS
<1>2. \A i \in 1..Len(r) : r[i] = s[n + i] /\ n + i \in 1..Len(s)
  OBVIOUS
<1>3. ASSUME NEW x \in ToSet(r)
      PROVE  x \in ToSet(s)
  <2> HIDE DEF r
  <2>1. PICK i \in 1..Len(r) : r[i] = x
    BY <1>1, <1>3, ToSetDef
  <2> QED BY <1>2, <2>1, ToSetDef
<1> QED BY <1>3

\* Main is at no buffer before and after the step, or where it was.
Elsewhere ==
  \/ main \notin {"compare", "clear"} /\ main' \notin {"compare", "clear"}
  \/ main' = main /\ client' = client /\ sent' = sent

LEMMA Unmoved ==
  ASSUME ob' = ob, seen' = seen, Elsewhere
  PROVE  \A c \in Clients : Told(c)' = Told(c)
BY DEF Told, Unsent, Elsewhere

\* What process_send moves was told and is told.
LEMMA Moved ==
  ASSUME Basic, Sending
  PROVE  \A e \in Clients : Told(e)' = Told(e)
<1> USE DEF lockVars, clientVars, devVars, mainVars, workVars, seenVars
<1>1. ASSUME NEW c \in Clients, ProcessSend(c)
      PROVE  \A e \in Clients : Told(e)' = Told(e)
  <2>1. PICK n \in 1..Len(ob[c]) :
          seen' = [seen EXCEPT ![c] = @ \o SubSeq(ob[c], 1, n)] /\ sent' = SubSeq(ob[c], 1, n)
    BY <1>1 DEF ProcessSend
  <2>2. seen[c] \in Seq(Notice) /\ ob[c] \in Seq(Notice) /\ seen \in [Clients -> Seq(Notice)]
    BY DEF Basic, TypeOK
  <2> DEFINE a == SubSeq(ob[c], 1, n)
             r == SubSeq(ob[c], n + 1, Len(ob[c]))
  <2>3. a \in Seq(Notice) /\ r \in Seq(Notice) /\ a \o r = ob[c] /\ Len(a) = n
    BY <2>2, SplitUp
  <2>4. /\ seen'[c] = seen[c] \o a /\ \A e \in Clients \ {c} : seen'[e] = seen[e]
        /\ ob' = ob /\ main = "idle" /\ main' = "compare" /\ client' = c
    BY <1>1, <2>1, <2>2 DEF ProcessSend, Idle, ToMain
  <2>5. Unsent(c)' = r
    BY <2>1, <2>3, <2>4 DEF Unsent
  <2> HIDE DEF a, r
  <2>6. (seen[c] \o a) \o r = seen[c] \o ob[c]
    <3>1. (seen[c] \o a) \o r = seen[c] \o (a \o r)
      BY <2>2, <2>3, CatCat
    <3> QED BY <2>3, <3>1
  <2>7. Told(c)' = Told(c)
    BY <2>4, <2>5, <2>6 DEF Told, Unsent
  <2>8. \A e \in Clients \ {c} : Told(e)' = Told(e)
    BY <2>4 DEF Told, Unsent
  <2> QED BY <2>7, <2>8
<1>2. CASE SendCompare
  <2>1. /\ main = "compare" /\ seen' = seen /\ client \in Clients
        /\ ob[client] \in Seq(Notice) /\ sent \in Seq(Notice)
    BY <1>2 DEF SendCompare, Basic, Places, TypeOK
  <2>2. CASE Len(ob[client]) = Len(sent)
    <3>1. SubSeq(ob[client], Len(sent) + 1, Len(ob[client])) = <<>>
      BY <2>1, <2>2
    <3>2. ob' = ob /\ main' = "clear" /\ client' = client
      BY <1>2, <2>2 DEF SendCompare, ToMain
    <3>3. \A e \in Clients : Unsent(e)' = Unsent(e)
      BY <2>1, <3>1, <3>2 DEF Unsent
    <3> QED BY <2>1, <3>3 DEF Told
  <2>3. CASE Len(ob[client]) # Len(sent)
    <3>1. /\ ob' = [ob EXCEPT ![client] = SubSeq(ob[client], Len(sent) + 1, Len(ob[client]))]
          /\ main' = "idle"
      BY <1>2, <2>3 DEF SendCompare, BackToIdle, ToMain
    <3>2. \A e \in Clients : Unsent(e)' = Unsent(e)
      BY <2>1, <3>1 DEF Unsent, Basic, TypeOK
    <3> QED BY <2>1, <3>2 DEF Told
  <2> QED BY <2>2, <2>3
<1>3. CASE SendClear
  <2>1. /\ main = "clear" /\ main' = "mask" /\ seen' = seen /\ client \in Clients
        /\ ob' = [ob EXCEPT ![client] = <<>>]
    BY <1>3 DEF SendClear, ToMain, Basic, Places
  <2>2. \A e \in Clients : Unsent(e)' = Unsent(e)
    BY <2>1 DEF Unsent, Basic, TypeOK
  <2> QED BY <2>1, <2>2 DEF Told
<1>4. CASE SendMask
  <2>1. Elsewhere
    BY <1>4 DEF SendMask, BackToIdle, ToMain, Elsewhere
  <2> QED BY <1>4, <2>1, Unmoved DEF SendMask
<1> QED BY <1>1, <1>2, <1>3, <1>4 DEF Sending

\* The steps that tell nobody anything.
Still ==
  \/ GetListCopy \/ (\E d \in Devices : GetListRead(d)) \/ GetListDone
  \/ AnnounceCopy \/ AnnounceDone \/ Tearing
  \/ (\E d \in Devices : DeviceRemove(d)) \/ RemoveLockClients \/ RemoveUnlockClients \/ RemoveDone
  \/ Sending \/ (\E c \in Clients : ClientClose(c)) \/ Arriving
  \/ \E d \in Devices : \/ WorkerLockClients(d) \/ WorkerSetVisible(d) \/ WorkerDone(d)
                        \/ \E c \in Clients : WorkerNotify(d, c)
  \/ UNCHANGED vars

LEMMA StillTold ==
  ASSUME Basic, Still
  PROVE  \A e \in Clients : Told(e)' = Told(e)
<1> USE DEF lockVars, clientVars, devVars, mainVars, workVars, seenVars
<1>1. CASE Sending
  BY <1>1, Moved
<1>2. CASE GetListCopy \/ (\E d \in Devices : GetListRead(d)) \/ GetListDone \/ AnnounceCopy
           \/ AnnounceDone
  BY <1>2, Unmoved DEF GetListCopy, GetListRead, GetListDone, AnnounceCopy, AnnounceDone,
                       BackToIdle, ToMain, Elsewhere
<1>3. CASE Tearing
  BY <1>3, Unmoved DEF Tearing, CheckTimeouts, TearDown, TearDone, Idle, BackToIdle, ToMain, Elsewhere
<1>4. CASE (\E d \in Devices : DeviceRemove(d)) \/ RemoveLockClients \/ RemoveUnlockClients \/ RemoveDone
  BY <1>4, Unmoved DEF DeviceRemove, RemoveLockClients, RemoveUnlockClients, RemoveDone,
                       Idle, BackToIdle, ToMain, Elsewhere
<1>5. CASE (\E c \in Clients : ClientClose(c)) \/ Arriving
  BY <1>5, Unmoved DEF ClientClose, Arriving, ClientAccept, Connected, Connect, DeviceAdd,
                       DeviceVersionInput, Idle, ToMain, Elsewhere
<1>6. CASE \E d \in Devices : \/ WorkerLockClients(d) \/ WorkerSetVisible(d) \/ WorkerDone(d)
                              \/ \E c \in Clients : WorkerNotify(d, c)
  BY <1>6, Unmoved DEF WorkerLockClients, WorkerSetVisible, WorkerDone, WorkerNotify, Elsewhere
<1>7. CASE UNCHANGED vars
  BY <1>7, Unmoved DEF vars, Elsewhere
<1> QED BY <1>1, <1>2, <1>3, <1>4, <1>5, <1>6, <1>7 DEF Still

\* A step that appends to the buffer of c, when nobody else is in it, tells c more.
LEMMA Appended ==
  ASSUME TypeOK, NEW c \in Clients, NEW s \in Seq(Notice), ob' = [ob EXCEPT ![c] = @ \o s],
         seen' = seen, Elsewhere, ~(client = c /\ main \in {"compare", "clear"})
  PROVE  Told(c)' = Told(c) \o s
<1>1. Unsent(c) = ob[c] /\ Unsent(c)' = ob[c] \o s
  BY DEF Unsent, Elsewhere, TypeOK
<1>2. seen[c] \in Seq(Notice) /\ ob[c] \in Seq(Notice)
  BY DEF TypeOK
<1>3. (seen[c] \o ob[c]) \o s = seen[c] \o (ob[c] \o s)
  BY <1>2, CatCat
<1> QED BY <1>1, <1>3 DEF Told

LEMMA AppendedOthers ==
  ASSUME TypeOK, NEW c \in Clients, NEW s, ob' = [ob EXCEPT ![c] = @ \o s], seen' = seen, Elsewhere
  PROVE  \A e \in Clients \ {c} : Told(e)' = Told(e)
BY DEF Told, Unsent, Elsewhere, TypeOK

\* A client that does not listen has not been sent a notice.
Silent == \A c \in Clients \ raced : cstate[c] \notin {"LISTEN", "FREED"} => Told(c) = <<>>

\* What start_listen has found is active, and its worker has made it visible.
Found ==
  /\ main \notin {"read", "announce", "count", "compare"} => sent = <<>>
  /\ main \in {"read", "announce", "count"} =>
       \A d \in Devices : Attached(d) \in ToSet(sent)
         => dstate[d] = "ACTIVE" /\ worker[d] \in Telling

\* No client hears of a device before its worker tells the clients.
Announced ==
  \A c \in Clients \ raced, d \in Devices :
    Attached(d) \in ToSet(Told(c)) => worker[d] \in Telling

\* Client c need not be told any more that d is gone.
Over(c, d) ==
  /\ d \notin late
  /\ dstate[d] = "FREED" \/ (dstate[d] = "DEAD" /\ main \in {"tell", "gone"} /\ c \notin todo)

Ending ==
  \A c \in Clients \ raced, d \in Devices :
    cstate[c] # "FREED" /\ Over(c, d) => Ended(Told(c), d)

Kept == Silent /\ Found /\ Announced /\ Ending

LEMMA KeptInit == Init => Kept
<1> SUFFICES ASSUME Init PROVE Kept
  OBVIOUS
<1>1. \A c \in Clients : seen[c] = <<>> /\ ob[c] = <<>> /\ Unsent(c) = <<>>
  BY DEF Init, Unsent
<1>2. \A c \in Clients : Told(c) = <<>>
  BY <1>1, EmptyTold DEF Told
<1>3. Silent /\ Announced /\ Ending
  BY <1>2, EmptyTold DEF Silent, Announced, Ending
<1>4. Found
  BY DEF Init, Found
<1> QED BY <1>3, <1>4 DEF Kept

\* Clients go forward only: from talking to listening to being closed.  So do workers.
Onward ==
  /\ raced \subseteq raced'
  /\ \A c \in Clients : cstate'[c] \notin {"LISTEN", "FREED"} => cstate[c] \notin {"LISTEN", "FREED"}
  /\ \A c \in Clients : cstate'[c] # "FREED" => cstate[c] # "FREED"
  /\ \A d \in Devices : worker[d] \in Telling => worker'[d] \in Telling

\* A step that tells nobody more keeps what holds of what they are told.
LEMMA StillKept ==
  ASSUME Kept, Onward, Found',
         \A e \in Clients \ raced' : \/ Told(e)' = Told(e)
                                     \/ cstate'[e] = "FREED" /\ ToSet(Told(e)') \subseteq ToSet(Told(e)),
         \A e \in Clients \ raced', d \in Devices :
           cstate'[e] # "FREED" /\ Over(e, d)' => Over(e, d) \/ Ended(Told(e), d)
  PROVE  Kept'
<1>1. Silent'
  BY DEF Kept, Silent, Onward
<1>2. Announced'
  BY DEF Kept, Announced, Onward
<1>3. Ending'
  BY DEF Kept, Ending, Onward
<1> QED BY <1>1, <1>2, <1>3 DEF Kept

\* So does one that tells one client of what its worker has announced.
LEMMA AppendKept ==
  ASSUME TypeOK, Kept, Onward, Found', NEW c \in Clients, NEW s \in Seq(Notice),
         \A e \in Clients \ {c} : Told(e)' = Told(e),
         c \notin raced' => Told(c)' = Told(c) \o s,
         s # <<>> => cstate'[c] \in {"LISTEN", "FREED"},
         \A d \in Devices : Attached(d) \in ToSet(s) => worker[d] \in Telling,
         \A e \in Clients \ raced', d \in Devices :
           cstate'[e] # "FREED" /\ Over(e, d)'
             => Ended(Told(e)', d) \/ (Over(e, d) /\ Attached(d) \notin ToSet(s))
  PROVE  Kept'
<1>0. Told(c) \in Seq(Notice)
  BY ToldType
<1>1. ToSet(Told(c) \o s) = ToSet(Told(c)) \cup ToSet(s)
  BY <1>0, ToSetCat
<1>2. Silent'
  BY <1>0, EmptyTold DEF Kept, Silent, Onward
<1>3. Announced'
  BY <1>1 DEF Kept, Announced, Onward
<1>4. ASSUME NEW e \in Clients \ raced', NEW d \in Devices, cstate'[e] # "FREED", Over(e, d)'
      PROVE  Ended(Told(e)', d)
  <2>1. CASE Over(e, d) /\ Attached(d) \notin ToSet(s)
    <3>1. Ended(Told(e), d)
      BY <1>4, <2>1 DEF Kept, Ending, Onward
    <3>2. CASE e = c
      <4>1. Ended(Told(c) \o s, d)
        BY <1>0, <2>1, <3>1, <3>2, EndedMore
      <4> QED BY <1>4, <3>2, <4>1
    <3> QED BY <3>1, <3>2
  <2> QED BY <1>4, <2>1
<1>5. Ending'
  BY <1>4 DEF Ending
<1> QED BY <1>2, <1>3, <1>5 DEF Kept

LEMMA KeptListening == Basic /\ Kept /\ Listening => Kept'
<1> SUFFICES ASSUME Basic, Kept, Listening PROVE Kept'
  OBVIOUS
<1> USE DEF lockVars, clientVars, devVars, mainVars, workVars, seenVars
<1>1. ASSUME NEW c \in Clients, StartListen(c) PROVE Kept'
  <2>1. /\ <<Result>> \in Seq(Notice) /\ ToSet(<<Result>>) = {Result}
        /\ \A d \in Devices : Attached(d) # Result
    <3>1. Result \in Notice
      BY DEF Result, Notice
    <3> QED BY <3>1, SingleNotice, NoticeTypes
  <2> DEFINE s == <<Result>>
  <2>2. /\ ob' = [ob EXCEPT ![c] = @ \o s] /\ seen' = seen /\ main = "idle" /\ main' = "copy"
        /\ raced' = raced /\ worker' = worker /\ dstate' = dstate /\ late' = late /\ sent' = sent
        /\ cstate' = [cstate EXCEPT ![c] = "LISTEN"] /\ cstate[c] = "COMMAND"
    BY <1>1 DEF StartListen, SendPkt, Idle, ToMain
  <2>3. \A d \in Devices : Attached(d) \notin ToSet(s)
    BY <2>1
  <2>4. s \in Seq(Notice)
    BY <2>1
  <2> HIDE DEF s
  <2>5. Told(c)' = Told(c) \o s /\ \A e \in Clients \ {c} : Told(e)' = Told(e)
    BY <2>2, <2>4, Appended, AppendedOthers DEF Elsewhere, Basic
  <2>6. Onward /\ cstate'[c] = "LISTEN"
    BY <2>2 DEF Onward, Basic, TypeOK
  <2>7. Found'
    BY <2>2 DEF Kept, Found
  <2>8. \A e \in Clients, d \in Devices : Over(e, d)' => Over(e, d)
    BY <2>2 DEF Over
  <2> QED BY <2>3, <2>4, <2>5, <2>6, <2>7, <2>8, AppendKept DEF Basic
<1>2. CASE GetListCopy \/ GetListDone \/ AnnounceCopy \/ AnnounceDone
  <2>1. \A e \in Clients : Told(e)' = Told(e)
    BY <1>2, StillTold DEF Still
  <2>2. Onward
    BY <1>2 DEF GetListCopy, GetListDone, AnnounceCopy, AnnounceDone, Onward
  <2>3. Found'
    BY <1>2, EmptyTold DEF GetListCopy, GetListDone, AnnounceCopy, AnnounceDone, BackToIdle, ToMain,
                           Kept, Found
  <2>4. \A e \in Clients, d \in Devices : Over(e, d)' => Over(e, d)
    BY <1>2 DEF GetListCopy, GetListDone, AnnounceCopy, AnnounceDone, BackToIdle, ToMain, Over
  <2> QED BY <2>1, <2>2, <2>3, <2>4, StillKept
<1>3. ASSUME NEW d \in Devices, GetListRead(d) PROVE Kept'
  <2>1. \A e \in Clients : Told(e)' = Told(e)
    BY <1>3, StillTold DEF Still
  <2>2. Onward
    BY <1>3 DEF GetListRead, Onward
  <2>3. \A e \in Clients, f \in Devices : Over(e, f)' => Over(e, f)
    BY <1>3 DEF GetListRead, Over
  <2>4. Found'
    <3>1. CASE dstate[d] = "ACTIVE" /\ visible[d]
      <4>1. ToSet(sent') = ToSet(sent) \cup {Attached(d)}
        BY <1>3, <3>1, AppendSet DEF GetListRead, Basic
      <4>2. worker[d] \in Telling
        BY <3>1 DEF Basic, TypeOK, Workers, WorkSteps, Telling
      <4> QED BY <1>3, <3>1, <4>1, <4>2, NoticeTypes DEF GetListRead, Kept, Found
    <3>2. CASE ~(dstate[d] = "ACTIVE" /\ visible[d])
      BY <1>3, <3>2 DEF GetListRead, Kept, Found
    <3> QED BY <3>1, <3>2
  <2> QED BY <2>1, <2>2, <2>3, <2>4, StillKept
<1>4. CASE AnnounceCount
  <2>1. PICK c \in Clients : c = client /\ cstate[c] = "LISTEN"
    BY <1>4 DEF AnnounceCount, Basic, Places
  <2>2. sent \in Seq(Notice) /\ sent # <<>>
    BY <1>4 DEF AnnounceCount, Basic, Places, TypeOK
  <2> DEFINE x == Head(sent)
             s == <<x>>
  <2>3. /\ x \in Notice /\ ToSet(sent) = {x} \cup ToSet(Tail(sent))
        /\ s \in Seq(Notice) /\ ToSet(s) = {x}
    BY <2>2, HeadAndTail, SingleNotice
  <2>4. /\ main = "count" /\ main' = "announce" /\ sent' = Tail(sent) /\ SendCount(c, x)
        /\ UNCHANGED <<seen, cstate, dstate, worker, raced, late>>
    BY <1>4, <2>1 DEF AnnounceCount, ToMain
  <2>5. /\ \E t : ob' = [ob EXCEPT ![c] = @ \o t]
        /\ c \notin raced => ob' = [ob EXCEPT ![c] = @ \o s]
    BY <2>4 DEF SendCount
  <2> HIDE DEF s, x
  <2>6. \A e \in Clients \ {c} : Told(e)' = Told(e)
    BY <2>4, <2>5, AppendedOthers DEF Elsewhere, Basic
  <2>7. c \notin raced' => Told(c)' = Told(c) \o s
    BY <2>3, <2>4, <2>5, Appended DEF Elsewhere, Basic
  <2>8. Onward /\ cstate'[c] = "LISTEN"
    BY <2>1, <2>4 DEF Onward
  <2>9. Found'
    BY <2>3, <2>4 DEF Kept, Found
  <2>10. \A d \in Devices : Attached(d) \in ToSet(s) => dstate[d] = "ACTIVE" /\ worker[d] \in Telling
    BY <2>3, <2>4 DEF Kept, Found
  <2>11. \A e \in Clients, d \in Devices :
           Over(e, d)' => Over(e, d) /\ Attached(d) \notin ToSet(s)
    BY <2>4, <2>10 DEF Over
  <2> QED BY <2>3, <2>6, <2>7, <2>8, <2>9, <2>10, <2>11, AppendKept DEF Basic
<1> QED BY <1>1, <1>2, <1>3, <1>4 DEF Listening

LEMMA KeptTearing == Basic /\ Kept /\ Tearing => Kept'
<1> SUFFICES ASSUME Basic, Kept, Tearing PROVE Kept'
  OBVIOUS
<1> USE DEF lockVars, clientVars, devVars, mainVars, workVars, seenVars
<1>1. \A e \in Clients : Told(e)' = Told(e)
  BY StillTold DEF Still
<1>2. /\ cstate' = cstate /\ dstate' = dstate /\ worker' = worker /\ raced' = raced /\ late' = late
      /\ sent' = sent /\ main \in {"idle", "tear"} /\ main' \in {"tear", "again", "close", "idle", "dead"}
  BY DEF Tearing, CheckTimeouts, TearDown, TearDone, Idle, BackToIdle, ToMain
<1>3. Onward
  BY <1>2 DEF Onward
<1>4. Found'
  BY <1>2 DEF Kept, Found
<1>5. \A e \in Clients, d \in Devices : Over(e, d)' => Over(e, d)
  BY <1>2 DEF Over
<1> QED BY <1>1, <1>3, <1>4, <1>5, StillKept

LEMMA KeptRemoving == Basic /\ Kept /\ Removing => Kept'
<1> SUFFICES ASSUME Basic, Kept, Removing PROVE Kept'
  OBVIOUS
<1> USE DEF lockVars, clientVars, devVars, mainVars, workVars, seenVars
<1>0. /\ cstate' = cstate /\ worker' = worker /\ raced' = raced /\ sent' = sent
      /\ main \in {"idle", "dead", "tell", "gone"} /\ main' \in {"idle", "tear", "tell", "gone"}
  BY DEF Removing, DeviceRemove, RemoveLockClients, RemoveTell, RemoveUnlockClients, RemoveDone,
         Idle, BackToIdle, ToMain
<1>a. Onward
  BY <1>0 DEF Onward
<1>b. Found'
  BY <1>0 DEF Kept, Found
<1>1. ASSUME NEW d \in Devices, DeviceRemove(d) PROVE Kept'
  <2>1. \A e \in Clients : Told(e)' = Told(e) /\ Told(e) \in Seq(Notice)
    BY <1>1, StillTold, ToldType DEF Still, Basic
  <2>2. ASSUME NEW e \in Clients \ raced', NEW f \in Devices, Over(e, f)'
        PROVE  Over(e, f) \/ Ended(Told(e), f)
    <3>1. CASE f = d
      <4>1. worker[d] = "none"
        BY <1>1, <2>2, <3>1 DEF DeviceRemove, ToMain, Idle, Over, Basic, TypeOK, Workers
      <4>2. Attached(d) \notin ToSet(Told(e))
        BY <1>0, <4>1 DEF Kept, Announced, Telling
      <4> QED BY <2>1, <3>1, <4>2, EndedWithout
    <3>2. CASE f # d
      BY <1>1, <2>2, <3>2 DEF DeviceRemove, ToMain, Idle, Over, Basic, TypeOK
    <3> QED BY <3>1, <3>2
  <2> QED BY <1>a, <1>b, <2>1, <2>2, StillKept
<1>2. CASE RemoveLockClients
  <2>1. \A e \in Clients : Told(e)' = Told(e) /\ Told(e) \in Seq(Notice)
    BY <1>2, StillTold, ToldType DEF Still, Basic
  <2>2. ASSUME NEW e \in Clients \ raced', NEW f \in Devices, cstate'[e] # "FREED", Over(e, f)', ~Over(e, f)
        PROVE  Ended(Told(e), f)
    <3>1. e \notin Listed
      BY <1>2, <2>2 DEF RemoveLockClients, ToMain, Over
    <3>2. Told(e) = <<>>
      BY <1>0, <2>2, <3>1 DEF Listed, Kept, Silent
    <3> QED BY <3>2, EmptyTold
  <2> QED BY <1>a, <1>b, <2>1, <2>2, StillKept
<1>3. ASSUME NEW c \in Clients, RemoveTell(c) PROVE Kept'
  <2>0. device \in Devices
    BY <1>3 DEF RemoveTell, Basic, Places
  <2> DEFINE s == IF cstate[c] = "LISTEN" THEN <<Removed(device)>> ELSE <<>>
  <2>1. /\ s \in Seq(Notice) /\ \A f \in Devices : Attached(f) \notin ToSet(s)
        /\ cstate[c] = "LISTEN" => s = <<Removed(device)>>
        /\ cstate[c] # "LISTEN" => s = <<>>
    BY <2>0, NoticeTypes, SingleNotice, EmptyTold
  <2>2. /\ ob' = [ob EXCEPT ![c] = @ \o s] /\ seen' = seen /\ dstate' = dstate /\ late' = late
        /\ todo' = todo \ {c} /\ main = "tell" /\ main' = "tell"
    BY <1>3 DEF RemoveTell, SendPkt
  <2> HIDE DEF s
  <2>3. Told(c)' = Told(c) \o s /\ \A e \in Clients \ {c} : Told(e)' = Told(e)
    BY <2>1, <2>2, Appended, AppendedOthers DEF Elsewhere, Basic
  <2>4. ASSUME NEW e \in Clients \ raced', NEW f \in Devices, cstate'[e] # "FREED",
               Over(e, f)', ~Over(e, f)
        PROVE  Ended(Told(e)', f)
    <3>1. e = c /\ dstate[f] = "DEAD"
      BY <2>2, <2>4 DEF Over
    <3>2. f = device
      BY <3>1 DEF Basic, Places
    <3>3. CASE cstate[c] = "LISTEN"
      <4>1. Ended(Told(c) \o <<Removed(device)>>, device)
        BY <2>0, ToldType, EndedByRemoval DEF Basic
      <4> QED BY <2>1, <2>3, <3>1, <3>2, <3>3, <4>1
    <3>4. CASE cstate[c] # "LISTEN"
      <4>1. Told(c) = <<>>
        BY <1>0, <2>4, <3>1, <3>4 DEF Kept, Silent
      <4> QED BY <2>1, <2>3, <3>1, <3>4, <4>1, EmptyTold
    <3> QED BY <3>3, <3>4
  <2>5. s # <<>> => cstate'[c] = "LISTEN"
    BY <1>0, <2>1
  <2> QED BY <1>a, <1>b, <2>1, <2>3, <2>4, <2>5, AppendKept DEF Basic
<1>4. CASE RemoveUnlockClients
  <2>1. \A e \in Clients : Told(e)' = Told(e)
    BY <1>4, StillTold DEF Still
  <2>2. \A e \in Clients, f \in Devices : Over(e, f)' => Over(e, f)
    BY <1>4 DEF RemoveUnlockClients, ToMain, Over
  <2> QED BY <1>a, <1>b, <2>1, <2>2, StillKept
<1>5. CASE RemoveDone
  <2>1. \A e \in Clients : Told(e)' = Told(e)
    BY <1>5, StillTold DEF Still
  <2>2. device \in Devices /\ dstate[device] = "DEAD" /\ todo = {}
    BY <1>5, NotifyAssumption DEF RemoveDone, Basic, Places, None
  <2>3. \A e \in Clients, f \in Devices : Over(e, f)' => Over(e, f)
    BY <1>5, <2>2 DEF RemoveDone, BackToIdle, ToMain, Over, Basic, TypeOK
  <2> QED BY <1>a, <1>b, <2>1, <2>3, StillKept
<1> QED BY <1>1, <1>2, <1>3, <1>4, <1>5 DEF Removing

LEMMA KeptSending == Basic /\ Kept /\ Sending => Kept'
<1> SUFFICES ASSUME Basic, Kept, Sending PROVE Kept'
  OBVIOUS
<1> USE DEF lockVars, clientVars, devVars, mainVars, workVars, seenVars
<1>1. \A e \in Clients : Told(e)' = Told(e)
  BY Moved
<1>2. /\ cstate' = cstate /\ dstate' = dstate /\ worker' = worker /\ late' = late
      /\ main \in {"idle", "compare", "clear", "mask"} /\ main' \in {"idle", "compare", "clear", "mask"}
      /\ raced \subseteq raced'
  BY DEF Sending, ProcessSend, SendCompare, SendClear, SendMask, Idle, BackToIdle, ToMain
<1>3. main' # "compare" => sent' = <<>>
  BY DEF Sending, ProcessSend, SendCompare, SendClear, SendMask, Idle, BackToIdle, ToMain, Kept, Found
<1>4. Onward
  BY <1>2 DEF Onward
<1>5. Found'
  BY <1>2, <1>3 DEF Found
<1>6. \A e \in Clients, d \in Devices : Over(e, d)' => Over(e, d)
  BY <1>2 DEF Over
<1> QED BY <1>1, <1>4, <1>5, <1>6, StillKept

LEMMA KeptClosing == Basic /\ Kept /\ Closing => Kept'
<1> SUFFICES ASSUME Basic, Kept, Closing PROVE Kept'
  OBVIOUS
<1> USE DEF lockVars, clientVars, devVars, mainVars, workVars, seenVars
<1>1. ASSUME NEW c \in Clients, ClientClose(c) PROVE Kept'
  <2>1. \A e \in Clients : Told(e)' = Told(e)
    BY <1>1, StillTold DEF Still
  <2>2. Onward
    BY <1>1 DEF ClientClose, Onward
  <2>3. Found'
    BY <1>1 DEF ClientClose, Idle, ToMain, Kept, Found
  <2>4. \A e \in Clients, d \in Devices : Over(e, d)' => Over(e, d)
    BY <1>1 DEF ClientClose, Idle, ToMain, Over
  <2> QED BY <2>1, <2>2, <2>3, <2>4, StillKept
<1>2. CASE CloseRemove
  <2>1. PICK c \in Clients : c = client
    BY <1>2 DEF CloseRemove, Basic, Places
  <2>2. /\ ob' = [ob EXCEPT ![c] = <<>>] /\ seen' = seen /\ cstate' = [cstate EXCEPT ![c] = "FREED"]
        /\ dstate' = dstate /\ late' = late /\ worker' = worker /\ raced' = raced /\ sent' = sent
        /\ main = "close" /\ main' \in {"tear", "idle"}
    BY <1>2, <2>1 DEF CloseRemove, BackToIdle, ToMain
  <2>3. /\ cstate'[c] = "FREED" /\ Unsent(c)' = <<>>
        /\ \A e \in Clients \ {c} : cstate'[e] = cstate[e] /\ Told(e)' = Told(e)
    BY <2>2 DEF Basic, TypeOK, Told, Unsent
  <2>4. ToSet(Told(c)') \subseteq ToSet(Told(c))
    <3>1. seen[c] \in Seq(Notice) /\ ToSet(Told(c)) = ToSet(seen[c]) \cup ToSet(Unsent(c))
      BY ToldType DEF Basic
    <3>2. Told(c)' = seen[c]
      BY <2>2, <2>3, <3>1, EmptyTold DEF Told
    <3> QED BY <3>1, <3>2
  <2>5. Onward
    BY <2>2, <2>3 DEF Onward
  <2>6. Found'
    BY <2>2 DEF Kept, Found
  <2>7. \A e \in Clients, d \in Devices : Over(e, d)' => Over(e, d)
    BY <2>2 DEF Over
  <2> QED BY <2>3, <2>4, <2>5, <2>6, <2>7, StillKept
<1> QED BY <1>1, <1>2 DEF Closing

LEMMA KeptArriving == Basic /\ Kept /\ Arriving => Kept'
<1> SUFFICES ASSUME Basic, Kept, Arriving PROVE Kept'
  OBVIOUS
<1> USE DEF lockVars, clientVars, devVars, mainVars, workVars, seenVars
<1>1. \A e \in Clients : Told(e)' = Told(e)
  BY StillTold DEF Still
<1>2. /\ main = "idle" /\ main' = main /\ sent' = sent /\ todo' = todo /\ late' = late /\ raced' = raced
  BY DEF Arriving, ClientAccept, Connected, Connect, DeviceAdd, DeviceVersionInput, Idle
<1>3. \A e \in Clients : cstate'[e] # cstate[e] =>
        cstate[e] \notin {"LISTEN", "FREED"} /\ cstate'[e] \notin {"LISTEN", "FREED"}
  BY DEF Arriving, ClientAccept, Connected, Connect, DeviceAdd, DeviceVersionInput, Basic, TypeOK
<1>4. \A d \in Devices : dstate'[d] = "FREED" => dstate[d] = "FREED"
  BY DEF Arriving, ClientAccept, Connected, Connect, DeviceAdd, DeviceVersionInput, Basic, TypeOK
<1>5. \A d \in Devices : worker[d] \in Telling => worker'[d] \in Telling
  BY DEF Arriving, ClientAccept, Connected, Connect, DeviceAdd, DeviceVersionInput, Basic, TypeOK,
         Workers, Telling
<1>6. Onward
  BY <1>2, <1>3, <1>5 DEF Onward
<1>7. Found'
  BY <1>2 DEF Kept, Found
<1>8. \A e \in Clients, d \in Devices : Over(e, d)' => Over(e, d)
  BY <1>2, <1>4 DEF Over
<1> QED BY <1>1, <1>6, <1>7, <1>8, StillKept

\* A worker adds to what one listener is told that its device is there.
LEMMA CountTold ==
  ASSUME Basic, NEW d \in Devices, WorkerCount(d)
  PROVE  \E c \in Clients :
           /\ c = dest /\ cstate[c] \in {"LISTEN", "FREED"} /\ raced' = raced
           /\ c \notin raced => Told(c)' = Told(c) \o <<Attached(d)>>
           /\ \A e \in Clients \ {c} : Told(e)' = Told(e)
<1> USE DEF lockVars, clientVars, devVars, mainVars, workVars, seenVars
<1>1. PICK c \in Clients : c = dest
  BY DEF WorkerCount, Basic, Workers
<1>2. cstate[c] \in {"LISTEN", "FREED"} /\ (c \notin raced => ~MainIn(c))
  BY <1>1 DEF Basic, Meeting
<1> DEFINE s == <<Attached(d)>>
<1>3. s \in Seq(Notice) /\ SendCount(c, Attached(d)) /\ seen' = seen /\ Elsewhere /\ raced' = raced
  BY <1>1, NoticeTypes, SingleNotice DEF WorkerCount, Elsewhere
<1>4. /\ \E t : ob' = [ob EXCEPT ![c] = @ \o t]
      /\ c \notin raced => ob' = [ob EXCEPT ![c] = @ \o s]
  BY <1>3 DEF SendCount
<1> HIDE DEF s
<1>5. \A e \in Clients \ {c} : Told(e)' = Told(e)
  BY <1>3, <1>4, AppendedOthers DEF Basic
<1>6. c \notin raced => Told(c)' = Told(c) \o s
  BY <1>2, <1>3, <1>4, Appended DEF Basic, MainIn
<1> QED BY <1>1, <1>2, <1>3, <1>5, <1>6 DEF s

LEMMA KeptWorking ==
  ASSUME Basic, Kept, NEW d \in Devices, Working(d)
  PROVE  Kept'
<1> USE DEF lockVars, clientVars, devVars, mainVars, workVars, seenVars
<1>1. /\ cstate' = cstate /\ dstate' = dstate /\ late' = late /\ main' = main
      /\ client' = client /\ todo' = todo /\ sent' = sent /\ seen' = seen /\ raced \subseteq raced'
  BY DEF Working, WorkerLockClients, WorkerSetVisible, WorkerNotify, WorkerCount, WorkerDone
<1>2. \A f \in Devices : worker[f] \in Telling => worker'[f] \in Telling
  BY DEF Working, WorkerLockClients, WorkerSetVisible, WorkerNotify, WorkerCount, WorkerDone,
         Basic, TypeOK, Telling
<1>3. Onward
  BY <1>1, <1>2 DEF Onward
<1>4. Found'
  BY <1>1, <1>2 DEF Kept, Found
<1>5. \A e \in Clients, f \in Devices : Over(e, f)' <=> Over(e, f)
  BY <1>1 DEF Over
<1>6. CASE WorkerCount(d)
  <2>1. PICK c \in Clients :
          /\ c = dest /\ cstate[c] \in {"LISTEN", "FREED"} /\ raced' = raced
          /\ c \notin raced => Told(c)' = Told(c) \o <<Attached(d)>>
          /\ \A e \in Clients \ {c} : Told(e)' = Told(e)
    BY <1>6, CountTold
  <2> DEFINE s == <<Attached(d)>>
  <2>2. s \in Seq(Notice) /\ ToSet(s) = {Attached(d)}
    BY NoticeTypes, SingleNotice
  <2>3. c \notin raced' => Told(c)' = Told(c) \o s
    BY <2>1
  <2>4. worker[d] = "append"
    BY <1>6 DEF WorkerCount
  <2> HIDE DEF s
  <2>5. \A f \in Devices : Attached(f) \in ToSet(s) => f = d
    BY <2>2, NoticeTypes
  <2>6. \A e \in Clients, f \in Devices : Over(e, f)' => Over(e, f) /\ Attached(f) \notin ToSet(s)
    BY <1>5, <2>4, <2>5 DEF Over, Basic, Workers
  <2>7. \A f \in Devices : Attached(f) \in ToSet(s) => worker[f] \in Telling
    BY <2>4, <2>5 DEF Telling
  <2>8. cstate'[c] \in {"LISTEN", "FREED"}
    BY <1>1, <2>1
  <2> QED BY <1>3, <1>4, <2>1, <2>2, <2>3, <2>6, <2>7, <2>8, AppendKept DEF Basic
<1>7. CASE ~WorkerCount(d)
  <2>1. \A e \in Clients : Told(e)' = Told(e)
    BY <1>7, StillTold DEF Working, Still
  <2> QED BY <1>3, <1>4, <1>5, <2>1, StillKept
<1> QED BY <1>6, <1>7

LEMMA KeptStep == Basic /\ Kept /\ [Next]_vars => Kept'
<1> SUFFICES ASSUME Basic, Kept, [Next]_vars PROVE Kept'
  OBVIOUS
<1>1. CASE Next
  BY <1>1, KeptListening, KeptTearing, KeptRemoving, KeptSending, KeptClosing, KeptArriving,
     KeptWorking DEF Next
<1>2. CASE UNCHANGED vars
  <2> USE <1>2 DEF vars, lockVars, clientVars, devVars, mainVars, workVars, seenVars
  <2>1. \A e \in Clients : Told(e)' = Told(e)
    BY StillTold DEF Still
  <2>2. Onward
    BY DEF Onward
  <2>3. Found'
    BY DEF Kept, Found
  <2>4. \A e \in Clients, d \in Devices : Over(e, d)' => Over(e, d)
    BY DEF Over
  <2> QED BY <2>1, <2>2, <2>3, <2>4, StillKept
<1> QED BY <1>1, <1>2

LEMMA KeptAlways == Spec => []Kept
<1>1. Init => Kept
  BY KeptInit
<1>2. Basic /\ Kept /\ [Next]_vars => Kept'
  BY KeptStep
<1> QED BY <1>1, <1>2, BasicAlways, PTL DEF Spec

\* Whatever the interleaving of start_listen, client_device_add and device_remove: a
\* listener that was told of a device is told that it is gone, by the time
\* device_remove has dropped it, unless two threads have been in its buffer at once.
THEOREM NobodyLeftBehind == Spec => []NoDeviceLeftBehind
<1>1. Basic /\ Kept => NoDeviceLeftBehind
  <2> SUFFICES ASSUME Basic, Kept, NEW c \in listening \ raced, NEW d \in Devices,
                      dstate[d] = "FREED", d \notin late
               PROVE  Ended(Told(c), d)
    BY DEF NoDeviceLeftBehind
  <2>1. c \in Clients /\ cstate[c] = "LISTEN"
    BY DEF Basic, TypeOK, Places
  <2> QED BY <2>1 DEF Kept, Ending, Over
<1> QED BY <1>1, BasicAlways, KeptAlways, PTL

-----------------------------------------------------------------------------
(***************************************************************************)
(* Nobody misses a device, but for what two threads do to one buffer.      *)
(***************************************************************************)

\* Of the devices start_listen has passed, the listener has found, or been told of
\* by the worker, those that are visible and active.
Finding ==
  main \in {"read", "announce", "count"} /\ client \notin raced =>
    \A d \in Devices \ todo :
      dstate[d] = "ACTIVE" /\ visible[d] /\ ~WorkerWill(d, client)
        => Attached(d) \in ToSet(Told(client)) \cup ToSet(sent)

Heard == Finding /\ NoDeviceMissed

LEMMA HeardInit == Init => Heard
BY DEF Init, Heard, Finding, NoDeviceMissed

\* What c has been told of d, or is about to be, stays so.
Remembers(c, d) ==
  /\ Attached(d) \in ToSet(Told(c)) => Attached(d) \in ToSet(Told(c)')
  /\ WorkerWill(d, c) => WorkerWill(d, c)' \/ Attached(d) \in ToSet(Told(c)')

\* A step that forgets nothing, makes no device visible and no client a listener.
LEMMA HeardOther ==
  ASSUME Heard, Finding', raced \subseteq raced', listening' \subseteq listening, listening \subseteq Clients,
         \A d \in Devices : dstate'[d] = "ACTIVE" /\ visible'[d] => dstate[d] = "ACTIVE" /\ visible[d],
         \A e \in listening' \ raced', d \in Devices : Remembers(e, d)
  PROVE  Heard'
<1>1. NoDeviceMissed'
  BY DEF Heard, NoDeviceMissed, ToldAll, Remembers
<1> QED BY <1>1 DEF Heard

LEMMA HeardListening == Basic /\ Kept /\ Heard /\ Listening => Heard'
<1> SUFFICES ASSUME Basic, Kept, Heard, Listening PROVE Heard'
  OBVIOUS
<1> USE DEF lockVars, clientVars, devVars, mainVars, workVars, seenVars
<1>0. listening \subseteq Clients /\ dstate' = dstate /\ visible' = visible /\ left' = left
      /\ worker' = worker /\ dest' = dest /\ raced \subseteq raced'
  BY DEF Listening, StartListen, GetListCopy, GetListRead, GetListDone, AnnounceCopy, AnnounceCount,
         AnnounceDone, Basic, TypeOK
<1>a. \A d \in Devices, e \in Clients : WorkerWill(d, e)' = WorkerWill(d, e)
  BY <1>0 DEF WorkerWill
<1>1. CASE (\E c \in Clients : StartListen(c)) \/ GetListCopy
  <2>1. Finding'
    BY <1>1 DEF StartListen, GetListCopy, ToMain, Finding
  <2>2. listening' = listening
    BY <1>1 DEF StartListen, GetListCopy
  <2>3. ASSUME NEW e \in listening, NEW d \in Devices PROVE Remembers(e, d)
    <3>1. CASE GetListCopy
      <4>1. Told(e)' = Told(e)
        BY <1>0, <3>1, StillTold DEF Still
      <4> QED BY <1>0, <1>a, <4>1 DEF Remembers
    <3>2. ASSUME NEW c \in Clients, StartListen(c) PROVE Remembers(e, d)
      <4>1. e # c
        BY <3>2 DEF StartListen, Basic, Places
      <4>2. ob'[e] = ob[e] /\ seen' = seen /\ Elsewhere
        BY <1>0, <3>2, <4>1 DEF StartListen, SendPkt, Basic, TypeOK, Idle, ToMain, Elsewhere
      <4>3. Told(e)' = Told(e)
        BY <4>2 DEF Told, Unsent, Elsewhere
      <4> QED BY <1>0, <1>a, <4>3 DEF Remembers
    <3> QED BY <1>1, <3>1, <3>2
  <2> QED BY <1>0, <2>1, <2>2, <2>3, HeardOther
<1>2. CASE GetListDone \/ AnnounceCopy
  <2>1. \A e \in Clients : Told(e)' = Told(e)
    BY <1>2, StillTold DEF Still
  <2>2. PICK c \in Clients : c = client
    BY <1>2 DEF GetListDone, AnnounceCopy, Basic, Places
  <2>3. /\ main \in {"read", "announce"} /\ todo = {} /\ client' = c /\ sent' = sent
        /\ listening' = listening
    BY <1>2, <2>2 DEF GetListDone, AnnounceCopy, ToMain, Basic, Places
  <2>4. Finding'
    BY <1>0, <1>a, <2>1, <2>2, <2>3 DEF Heard, Finding
  <2>5. \A e \in Clients, d \in Devices : Remembers(e, d)
    BY <1>a, <2>1 DEF Remembers
  <2> QED BY <1>0, <2>3, <2>4, <2>5, HeardOther
<1>3. ASSUME NEW d \in Devices, GetListRead(d) PROVE Heard'
  <2>1. \A e \in Clients : Told(e)' = Told(e)
    BY <1>3, StillTold DEF Still
  <2>2. PICK c \in Clients : c = client
    BY <1>3 DEF GetListRead, Basic, Places
  <2>3. /\ listening' = listening /\ raced' = raced
        /\ main = "read" /\ main' = "read" /\ client' = c /\ todo' = todo \ {d}
    BY <1>3, <2>2 DEF GetListRead
  <2>4. /\ ToSet(sent) \subseteq ToSet(sent')
        /\ dstate[d] = "ACTIVE" /\ visible[d] => Attached(d) \in ToSet(sent')
    BY <1>3, AppendSet DEF GetListRead, Basic
  <2>5. Finding'
    BY <1>0, <1>a, <2>1, <2>2, <2>3, <2>4 DEF Heard, Finding
  <2>6. \A e \in Clients, f \in Devices : Remembers(e, f)
    BY <1>a, <2>1 DEF Remembers
  <2> QED BY <1>0, <2>3, <2>5, <2>6, HeardOther
<1>4. CASE AnnounceCount
  <2>1. PICK c \in Clients : c = client
    BY <1>4 DEF AnnounceCount, Basic, Places
  <2>2. sent \in Seq(Notice) /\ sent # <<>> /\ todo = {}
    BY <1>4 DEF AnnounceCount, Basic, Places, TypeOK
  <2> DEFINE x == Head(sent)
             s == <<x>>
  <2>3. /\ ToSet(sent) = {x} \cup ToSet(Tail(sent))
        /\ s \in Seq(Notice) /\ ToSet(s) = {x}
    BY <2>2, HeadAndTail, SingleNotice
  <2>4. /\ main = "count" /\ main' = "announce" /\ sent' = Tail(sent) /\ SendCount(c, x)
        /\ client' = c /\ todo' = {} /\ UNCHANGED <<seen, raced, listening>>
    BY <1>4, <2>1 DEF AnnounceCount, ToMain
  <2>5. /\ \E t : ob' = [ob EXCEPT ![c] = @ \o t]
        /\ c \notin raced => ob' = [ob EXCEPT ![c] = @ \o s]
    BY <2>4 DEF SendCount
  <2> HIDE DEF s, x
  <2>6. \A e \in Clients \ {c} : Told(e)' = Told(e)
    BY <2>4, <2>5, AppendedOthers DEF Elsewhere, Basic
  <2>7. c \notin raced => Told(c)' = Told(c) \o s
    BY <2>3, <2>4, <2>5, Appended DEF Elsewhere, Basic
  <2>8. ToSet(Told(c) \o s) = ToSet(Told(c)) \cup ToSet(s)
    BY <2>3, ToldType, ToSetCat DEF Basic
  <2>9. Finding'
    BY <1>0, <1>a, <2>1, <2>2, <2>3, <2>4, <2>7, <2>8 DEF Heard, Finding
  <2>10. \A e \in Clients \ raced', d \in Devices : Remembers(e, d)
    BY <1>a, <2>4, <2>6, <2>7, <2>8 DEF Remembers
  <2> QED BY <1>0, <2>4, <2>9, <2>10, HeardOther
<1>5. CASE AnnounceDone
  <2>1. \A e \in Clients : Told(e)' = Told(e)
    BY <1>5, StillTold DEF Still
  <2>2. PICK c \in Clients : c = client
    BY <1>5 DEF AnnounceDone, Basic, Places
  <2>3. /\ main = "announce" /\ main' = "idle" /\ sent = <<>> /\ todo = {} /\ raced' = raced
        /\ listening' = listening \cup {c}
    BY <1>5, <2>2 DEF AnnounceDone, BackToIdle, ToMain, Basic, Places
  <2>4. c \notin raced => \A d \in Devices :
          dstate[d] = "ACTIVE" /\ visible[d] /\ ~WorkerWill(d, c) => Attached(d) \in ToSet(Told(c))
    BY <2>2, <2>3, EmptyTold DEF Heard, Finding
  <2>5. NoDeviceMissed'
    BY <1>0, <1>a, <2>1, <2>3, <2>4 DEF Heard, NoDeviceMissed, ToldAll
  <2>6. Finding'
    BY <2>3 DEF Finding
  <2> QED BY <2>5, <2>6 DEF Heard
<1> QED BY <1>1, <1>2, <1>3, <1>4, <1>5 DEF Listening

LEMMA HeardMain ==
  ASSUME Basic, Kept, Heard, Tearing \/ Removing \/ Sending \/ Closing \/ Arriving
  PROVE  Heard'
<1> USE DEF lockVars, clientVars, devVars, mainVars, workVars, seenVars
<1>1. /\ listening' \subseteq listening /\ listening \subseteq Clients /\ raced \subseteq raced'
      /\ visible' = visible /\ left' = left /\ dest' = dest
      /\ main' \notin {"read", "announce", "count"}
  BY DEF Tearing, CheckTimeouts, TearDown, TearDone, Removing, DeviceRemove, RemoveLockClients,
         RemoveTell, RemoveUnlockClients, RemoveDone, Sending, ProcessSend, SendCompare, SendClear,
         SendMask, Closing, ClientClose, CloseRemove, Arriving, ClientAccept, Connected, Connect,
         DeviceAdd, DeviceVersionInput, Idle, BackToIdle, ToMain, Basic, TypeOK
<1>2. Finding'
  BY <1>1 DEF Finding
<1>3. ASSUME NEW d \in Devices, dstate'[d] = "ACTIVE", visible'[d]
      PROVE  dstate[d] = "ACTIVE" /\ visible[d]
  <2>1. CASE Arriving
    <3>1. ASSUME NEW f \in Devices, DeviceVersionInput(f) PROVE dstate[d] = "ACTIVE"
      <4>1. worker[f] = "none" /\ ~visible[f]
        BY <3>1 DEF DeviceVersionInput, Basic, Workers
      <4>2. d # f
        BY <1>1, <1>3, <4>1
      <4> QED BY <1>3, <3>1, <4>2 DEF DeviceVersionInput, Basic, TypeOK
    <3> QED BY <1>1, <1>3, <2>1, <3>1 DEF Arriving, ClientAccept, Connected, Connect, DeviceAdd, Basic, TypeOK
  <2>2. CASE Tearing \/ Sending \/ Closing
    BY <1>1, <1>3, <2>2
       DEF Tearing, CheckTimeouts, TearDown, TearDone, Sending, ProcessSend, SendCompare, SendClear,
           SendMask, Closing, ClientClose, CloseRemove
  <2>3. CASE Removing
    BY <1>1, <1>3, <2>3
       DEF Removing, DeviceRemove, RemoveLockClients, RemoveTell, RemoveUnlockClients, RemoveDone,
           Basic, TypeOK
  <2> QED BY <2>1, <2>2, <2>3
<1>4. \A e \in Clients, d \in Devices : WorkerWill(d, e) => WorkerWill(d, e)'
  <2>1. \A d \in Devices : worker[d] = "append" => worker'[d] = "append"
    BY DEF Tearing, CheckTimeouts, TearDown, TearDone, Removing, DeviceRemove, RemoveLockClients,
           RemoveTell, RemoveUnlockClients, RemoveDone, Sending, ProcessSend, SendCompare, SendClear,
           SendMask, Closing, ClientClose, CloseRemove, Arriving, ClientAccept, Connected, Connect,
           DeviceAdd, DeviceVersionInput, Basic, TypeOK, Workers
  <2> QED BY <1>1, <2>1 DEF WorkerWill
<1>5. ASSUME NEW e \in listening'
      PROVE  ToSet(Told(e)) \subseteq ToSet(Told(e)')
  <2>0. e \in Clients
    BY <1>1
  <2>1. CASE Still
    BY <2>0, <2>1, StillTold
  <2>2. ASSUME NEW c \in Clients, RemoveTell(c)
        PROVE  ToSet(Told(e)) \subseteq ToSet(Told(e)')
    <3>1. device \in Devices
      BY <2>2 DEF RemoveTell, Basic, Places
    <3> DEFINE s == IF cstate[c] = "LISTEN" THEN <<Removed(device)>> ELSE <<>>
    <3>2. /\ s \in Seq(Notice) /\ ob' = [ob EXCEPT ![c] = @ \o s] /\ seen' = seen
          /\ main = "tell" /\ main' = "tell"
      BY <2>2, <3>1, NoticeTypes, SingleNotice, EmptySeq DEF RemoveTell, SendPkt
    <3> HIDE DEF s
    <3>3. Told(c)' = Told(c) \o s /\ \A f \in Clients \ {c} : Told(f)' = Told(f)
      BY <3>2, Appended, AppendedOthers DEF Elsewhere, Basic
    <3>4. ToSet(Told(c) \o s) = ToSet(Told(c)) \cup ToSet(s)
      BY <3>2, ToldType, ToSetCat DEF Basic
    <3> QED BY <2>0, <3>3, <3>4
  <2>3. CASE CloseRemove
    <3>1. client \in Clients /\ e # client
      BY <1>1, <2>3 DEF CloseRemove, Basic, Places
    <3>2. ob'[e] = ob[e] /\ seen' = seen /\ main = "close" /\ main' \in {"tear", "idle"}
      BY <2>0, <2>3, <3>1 DEF CloseRemove, BackToIdle, ToMain, Basic, TypeOK
    <3> QED BY <3>2 DEF Told, Unsent
  <2> QED BY <2>1, <2>2, <2>3 DEF Still, Removing, Closing
<1>6. \A e \in listening', d \in Devices : Remembers(e, d)
  BY <1>1, <1>4, <1>5 DEF Remembers
<1> QED BY <1>1, <1>2, <1>3, <1>6, HeardOther

LEMMA HeardWorking ==
  ASSUME Basic, Kept, Heard, NEW d \in Devices, Working(d)
  PROVE  Heard'
<1> USE DEF lockVars, clientVars, devVars, mainVars, workVars, seenVars
<1>1. /\ listening' = listening /\ listening \subseteq Clients /\ dstate' = dstate /\ cstate' = cstate
      /\ main' = main /\ client' = client /\ todo' = todo /\ sent' = sent /\ raced \subseteq raced'
  BY DEF Working, WorkerLockClients, WorkerSetVisible, WorkerNotify, WorkerCount, WorkerDone,
         Basic, TypeOK
<1>2. main \in {"read", "announce", "count"} => client \in Clients /\ cstate[client] = "LISTEN"
  BY DEF Basic, Places
<1>3. \A e \in listening : cstate[e] = "LISTEN"
  BY DEF Basic, Places
<1>4. ASSUME \A f \in Devices : visible'[f] = visible[f],
             \A e \in Clients \ raced', f \in Devices : cstate[e] = "LISTEN" => Remembers(e, f)
      PROVE  Heard'
  <2>1. Finding'
    BY <1>1, <1>2, <1>4 DEF Heard, Finding, Remembers
  <2> QED BY <1>1, <1>3, <1>4, <2>1, HeardOther
<1>5. CASE WorkerLockClients(d) \/ WorkerDone(d)
  <2>1. \A e \in Clients : Told(e)' = Told(e)
    BY <1>5, StillTold DEF Still
  <2>2. visible' = visible /\ left' = left /\ dest' = dest
        /\ \A f \in Devices : worker[f] = "append" => worker'[f] = "append"
    BY <1>5 DEF WorkerLockClients, WorkerDone, Basic, TypeOK
  <2>3. \A e \in Clients, f \in Devices : Remembers(e, f)
    BY <2>1, <2>2 DEF Remembers, WorkerWill
  <2> QED BY <1>4, <2>2, <2>3
<1>6. CASE WorkerSetVisible(d)
  <2>1. \A e \in Clients : Told(e)' = Told(e)
    BY <1>6, StillTold DEF Still
  <2>2. /\ left'[d] = Listed /\ worker[d] = "clients" /\ raced' = raced /\ dest' = dest
        /\ \A f \in Devices \ {d} : /\ left'[f] = left[f] /\ visible'[f] = visible[f]
                                    /\ worker'[f] = worker[f]
    BY <1>6 DEF WorkerSetVisible, Basic, TypeOK
  <2>3. \A e \in Clients : cstate[e] = "LISTEN" => e \in Listed
    BY DEF Listed
  <2>4. \A e \in Clients : cstate[e] = "LISTEN" =>
          /\ WorkerWill(d, e)'
          /\ \A f \in Devices \ {d} : WorkerWill(f, e)' = WorkerWill(f, e)
    BY <2>2, <2>3 DEF WorkerWill
  <2>5. NoDeviceMissed'
    BY <1>1, <1>3, <2>1, <2>2, <2>4 DEF Heard, NoDeviceMissed, ToldAll
  <2>6. Finding'
    BY <1>1, <1>2, <2>1, <2>2, <2>4 DEF Heard, Finding
  <2> QED BY <2>5, <2>6 DEF Heard
<1>7. ASSUME NEW c \in Clients, WorkerNotify(d, c) PROVE Heard'
  <2>1. \A e \in Clients : Told(e)' = Told(e)
    BY <1>7, StillTold DEF Still
  <2>2. /\ visible' = visible /\ worker[d] = "notify" /\ left'[d] = left[d] \ {c}
        /\ \A f \in Devices \ {d} : left'[f] = left[f] /\ worker'[f] = worker[f] /\ worker[f] # "append"
        /\ cstate[c] = "LISTEN" => worker'[d] = "append" /\ dest' = c
    BY <1>7 DEF WorkerNotify, Basic, TypeOK, Owners
  <2>3. \A e \in Clients, f \in Devices : cstate[e] = "LISTEN" => Remembers(e, f)
    BY <2>1, <2>2 DEF Remembers, WorkerWill
  <2> QED BY <1>4, <2>2, <2>3
<1>8. CASE WorkerCount(d)
  <2>1. PICK c \in Clients :
          /\ c = dest /\ cstate[c] \in {"LISTEN", "FREED"} /\ raced' = raced
          /\ c \notin raced => Told(c)' = Told(c) \o <<Attached(d)>>
          /\ \A e \in Clients \ {c} : Told(e)' = Told(e)
    BY <1>8, CountTold
  <2> DEFINE s == <<Attached(d)>>
  <2>2. s \in Seq(Notice) /\ ToSet(s) = {Attached(d)} /\ (c \notin raced => Told(c)' = Told(c) \o s)
    BY <2>1, NoticeTypes, SingleNotice
  <2> HIDE DEF s
  <2>3. ToSet(Told(c) \o s) = ToSet(Told(c)) \cup ToSet(s)
    BY <2>2, ToldType, ToSetCat DEF Basic
  <2>4. /\ visible' = visible /\ left' = left /\ worker[d] = "append"
        /\ \A f \in Devices \ {d} : worker[f] # "append"
    BY <1>8 DEF WorkerCount, Basic, Owners
  <2>5. \A e \in Clients \ raced', f \in Devices : Remembers(e, f)
    BY <2>1, <2>2, <2>3, <2>4 DEF Remembers, WorkerWill
  <2> QED BY <1>4, <2>4, <2>5
<1> QED BY <1>5, <1>6, <1>7, <1>8 DEF Working

LEMMA HeardStep == Basic /\ Kept /\ Heard /\ [Next]_vars => Heard'
<1> SUFFICES ASSUME Basic, Kept, Heard, [Next]_vars PROVE Heard'
  OBVIOUS
<1>1. CASE Next
  BY <1>1, HeardListening, HeardMain, HeardWorking DEF Next
<1>2. CASE UNCHANGED vars
  <2> USE <1>2 DEF vars, lockVars, clientVars, devVars, mainVars, workVars, seenVars
  <2>1. \A e \in Clients : Told(e)' = Told(e)
    BY StillTold DEF Still
  <2>2. listening \subseteq Clients /\ \A e \in Clients, d \in Devices : Remembers(e, d)
    BY <2>1 DEF Remembers, WorkerWill, Basic, TypeOK
  <2>3. Finding'
    <3>1. main \in {"read", "announce", "count"} => client \in Clients
      BY DEF Basic, Places
    <3> QED BY <2>1, <3>1 DEF Heard, Finding, WorkerWill
  <2> QED BY <2>2, <2>3, HeardOther
<1> QED BY <1>1, <1>2

LEMMA HeardAlways == Spec => []Heard
<1>1. Init => Heard
  BY HeardInit
<1>2. Basic /\ Kept /\ Heard /\ [Next]_vars => Heard'
  BY HeardStep
<1> QED BY <1>1, <1>2, BasicAlways, KeptAlways, PTL DEF Spec

\* start_listen and client_device_add need no common lock to find each other's
\* listener and device: a listener with its list in hand has been told of every device
\* that is visible, or its worker is about to tell it.  Only two threads in its buffer
\* at once can undo that, in start_listen (client.c:454-455) or process_send.
THEOREM NobodyMissed == Spec => []NoDeviceMissed
<1>1. Heard => NoDeviceMissed
  BY DEF Heard
<1> QED BY <1>1, HeardAlways, PTL

-----------------------------------------------------------------------------
(***************************************************************************)
(* What is on its way to a listener.                                       *)
(***************************************************************************)

\* POLLOUT is set as long as there is something to send.
Polled ==
  /\ \A c \in Clients \ raced : ob[c] # <<>> => c \in pollout
  /\ main = "mask" /\ client \notin raced => ob[client] = <<>>

LEMMA PolledStep == Basic /\ Polled /\ [Next]_vars => Polled'
<1> SUFFICES ASSUME Basic, Polled, [Next]_vars PROVE Polled'
  OBVIOUS
<1> USE DEF lockVars, clientVars, devVars, mainVars, workVars, seenVars
<1>0. ASSUME ob' = ob, pollout' = pollout, raced \subseteq raced',
             main' = "mask" => main = "mask" /\ client' = client
      PROVE  Polled'
  BY <1>0 DEF Polled
<1>a. ASSUME NEW c \in Clients, NEW s \in Seq(Notice), SendPkt(c, s), raced' = raced, main' # "mask"
      PROVE  Polled'
  <2>1. s = <<>> => ob[c] \o s = ob[c]
    BY ConcatEmptySeq DEF Basic, TypeOK
  <2>2. /\ ob'[c] = ob[c] \o s /\ \A e \in Clients \ {c} : ob'[e] = ob[e]
        /\ pollout' = IF s = <<>> THEN pollout ELSE pollout \cup {c}
    BY <1>a DEF SendPkt, Basic, TypeOK
  <2> QED BY <1>a, <2>1, <2>2 DEF Polled
<1>1. CASE Listening
  <2>1. ASSUME NEW c \in Clients, StartListen(c) PROVE Polled'
    <3>1. <<Result>> \in Seq(Notice)
      BY SingleNotice DEF Result, Notice
    <3> QED BY <1>a, <2>1, <3>1 DEF StartListen, ToMain
  <2>2. CASE AnnounceCount
    <3>1. PICK c \in Clients : c = client
      BY <2>2 DEF AnnounceCount, Basic, Places
    <3>2. /\ pollout' = pollout \cup {c} /\ raced' = raced /\ main' = "announce"
          /\ \A e \in Clients \ {c} : ob'[e] = ob[e]
      BY <2>2, <3>1 DEF AnnounceCount, SendCount, ToMain, Basic, TypeOK
    <3> QED BY <3>2 DEF Polled
  <2>3. CASE GetListCopy \/ (\E d \in Devices : GetListRead(d)) \/ GetListDone \/ AnnounceCopy
             \/ AnnounceDone
    BY <1>0, <2>3 DEF GetListCopy, GetListRead, GetListDone, AnnounceCopy, AnnounceDone,
                      BackToIdle, ToMain
  <2> QED BY <1>1, <2>1, <2>2, <2>3 DEF Listening
<1>2. CASE Tearing
  BY <1>0, <1>2 DEF Tearing, CheckTimeouts, TearDown, TearDone, BackToIdle, ToMain
<1>3. CASE Removing
  <2>1. ASSUME NEW c \in Clients, RemoveTell(c) PROVE Polled'
    <3> DEFINE s == IF cstate[c] = "LISTEN" THEN <<Removed(device)>> ELSE <<>>
    <3>1. device \in Devices
      BY <2>1 DEF RemoveTell, Basic, Places
    <3>2. s \in Seq(Notice) /\ SendPkt(c, s) /\ raced' = raced /\ main' # "mask"
      BY <2>1, <3>1, NoticeTypes, SingleNotice, EmptySeq DEF RemoveTell
    <3> HIDE DEF s
    <3> QED BY <1>a, <3>2
  <2>2. CASE (\E d \in Devices : DeviceRemove(d)) \/ RemoveLockClients \/ RemoveUnlockClients \/ RemoveDone
    BY <1>0, <2>2 DEF DeviceRemove, RemoveLockClients, RemoveUnlockClients, RemoveDone, Idle,
                      BackToIdle, ToMain
  <2> QED BY <1>3, <2>1, <2>2 DEF Removing
<1>4. CASE Sending
  <2>1. CASE \E c \in Clients : ProcessSend(c)
    BY <1>0, <2>1 DEF ProcessSend, ToMain
  <2>2. CASE SendCompare
    <3>1. /\ client \in Clients /\ pollout' = pollout /\ raced' = raced /\ main' # "mask"
          /\ ob[client] \in Seq(Notice) /\ sent \in Seq(Notice)
      BY <2>2 DEF SendCompare, BackToIdle, ToMain, Basic, Places, TypeOK
    <3>2. \A e \in Clients \ {client} : ob'[e] = ob[e]
      BY <2>2, <3>1 DEF SendCompare, Basic, TypeOK
    <3>3. ob[client] = <<>> => ob'[client] = <<>>
      <4>1. ob[client] = <<>> => SubSeq(ob[client], Len(sent) + 1, Len(ob[client])) = <<>>
        BY <3>1
      <4> QED BY <2>2, <3>1, <4>1 DEF SendCompare, Basic, TypeOK
    <3> QED BY <3>1, <3>2, <3>3 DEF Polled
  <2>3. CASE SendClear
    <3>1. /\ client \in Clients /\ pollout' = pollout /\ raced' = raced /\ client' = client
          /\ ob' = [ob EXCEPT ![client] = <<>>]
      BY <2>3 DEF SendClear, ToMain, Basic, Places
    <3>2. ob'[client] = <<>> /\ \A e \in Clients \ {client} : ob'[e] = ob[e]
      BY <3>1 DEF Basic, TypeOK
    <3> QED BY <3>1, <3>2 DEF Polled
  <2>4. CASE SendMask
    BY <2>4 DEF SendMask, BackToIdle, ToMain, Polled
  <2> QED BY <1>4, <2>1, <2>2, <2>3, <2>4 DEF Sending
<1>5. CASE Closing
  <2>1. CASE CloseRemove
    <3>1. /\ client \in Clients /\ pollout' = pollout \ {client} /\ raced' = raced /\ main' # "mask"
          /\ ob' = [ob EXCEPT ![client] = <<>>]
      BY <2>1 DEF CloseRemove, BackToIdle, ToMain, Basic, Places
    <3>2. ob'[client] = <<>> /\ \A e \in Clients \ {client} : ob'[e] = ob[e]
      BY <3>1 DEF Basic, TypeOK
    <3> QED BY <3>1, <3>2 DEF Polled
  <2>2. CASE \E c \in Clients : ClientClose(c)
    BY <1>0, <2>2 DEF ClientClose, ToMain
  <2> QED BY <1>5, <2>1, <2>2 DEF Closing
<1>6. CASE Arriving
  BY <1>0, <1>6 DEF Arriving, ClientAccept, Connected, Connect, DeviceAdd, DeviceVersionInput
<1>7. ASSUME NEW d \in Devices, Working(d) PROVE Polled'
  <2>1. CASE WorkerCount(d)
    <3>1. PICK c \in Clients : c = dest /\ (c \notin raced => ~MainIn(c))
      BY <2>1 DEF WorkerCount, Basic, Workers, Meeting
    <3>2. /\ pollout' = pollout \cup {c} /\ raced' = raced /\ main' = main /\ client' = client
          /\ \A e \in Clients \ {c} : ob'[e] = ob[e]
      BY <2>1, <3>1 DEF WorkerCount, SendCount, Basic, TypeOK
    <3>3. main = "mask" /\ client \notin raced => client \in Clients /\ client # c
      BY <3>1 DEF MainIn, Basic, Places
    <3> QED BY <3>2, <3>3 DEF Polled
  <2>2. CASE ~WorkerCount(d)
    BY <1>0, <1>7, <2>2 DEF Working, WorkerLockClients, WorkerSetVisible, WorkerNotify, WorkerDone
  <2> QED BY <2>1, <2>2
<1>8. CASE UNCHANGED vars
  BY <1>0, <1>8 DEF vars
<1> QED BY <1>1, <1>2, <1>3, <1>4, <1>5, <1>6, <1>7, <1>8 DEF Next

\* No notice is left in a buffer without POLLOUT, and no device without a notice: what
\* a listener has still to read waits for the worker or for its socket, and for nothing
\* else, as long as one thread at a time works on its buffer.
THEOREM AlwaysOnItsWay == Spec => []OnItsWay
<1>1. Init => Polled
  BY DEF Init, Polled
<1>2. Basic /\ Polled /\ [Next]_vars => Polled'
  BY PolledStep
<1>3. Basic /\ Heard /\ Polled => OnItsWay
  <2> SUFFICES ASSUME Basic, Heard, Polled, NEW c \in listening \ raced, NEW d \in Devices,
                      dstate[d] = "ACTIVE", visible[d], ~WorkerWill(d, c)
               PROVE  \/ Attached(d) \in ToSet(seen[c])
                      \/ Attached(d) \in ToSet(ob[c]) /\ c \in pollout
    BY DEF OnItsWay
  <2>1. c \in Clients
    BY DEF Basic, TypeOK
  <2>2. /\ seen[c] \in Seq(Notice) /\ ob[c] \in Seq(Notice) /\ Unsent(c) \in Seq(Notice)
        /\ ToSet(Told(c)) = ToSet(seen[c]) \cup ToSet(Unsent(c))
    BY <2>1, ToldType DEF Basic
  <2>3. Attached(d) \in ToSet(seen[c]) \cup ToSet(Unsent(c))
    BY <2>2 DEF Heard, NoDeviceMissed, ToldAll
  <2>4. ToSet(Unsent(c)) \subseteq ToSet(ob[c])
    <3>1. Len(sent) \in Nat
      BY LenProperties DEF Basic, TypeOK
    <3>2. ToSet(SubSeq(ob[c], Len(sent) + 1, Len(ob[c]))) \subseteq ToSet(ob[c])
      BY <2>2, <3>1, TailSet
    <3> QED BY <3>2, EmptyTold DEF Unsent
  <2>5. Attached(d) \in ToSet(ob[c]) => ob[c] # <<>>
    BY <2>2, EmptyTold
  <2> QED BY <2>1, <2>3, <2>4, <2>5 DEF Polled
<1> QED BY <1>1, <1>2, <1>3, BasicAlways, HeardAlways, PTL DEF Spec

-----------------------------------------------------------------------------
(***************************************************************************)
(* The two mutexes.                                                        *)
(***************************************************************************)

\* Short of Stuck, in which the main thread calls out of the devices' list with
\* device_list_mutex held (device.c:858-860, 977 through 303-331), whoever waits for a
\* mutex waits for a thread that goes on.
THEOREM NoOtherDeadlock == Spec => []NobodyElseStuck
<1>1. Basic => NobodyElseStuck
  <2> SUFFICES ASSUME Basic, ~Stuck
               PROVE  LET MainRuns  == ~Idle /\ ~MainWaits
                          OwnerRuns == \E d \in Devices :
                                         client_list_mutex = d /\ worker[d] # "done" /\ ~WorkerWaits(d)
                      IN  /\ MainWaits => OwnerRuns
                          /\ (\E d \in Devices : WorkerWaits(d)) => MainRuns \/ OwnerRuns
    BY DEF NobodyElseStuck
  <2> DEFINE OwnerRuns == \E d \in Devices :
                            client_list_mutex = d /\ worker[d] # "done" /\ ~WorkerWaits(d)
  <2>1. device_list_mutex # Nobody =>
          device_list_mutex = Main /\ main \in {"tear", "again", "close", "dead", "tell", "gone"}
    BY DEF Basic, TypeOK, Owners, Threads
  <2>2. client_list_mutex # Nobody => main = "tell" \/ \E d \in Devices : client_list_mutex = d
    BY DEF Basic, TypeOK, Owners, Threads
  <2>3. ASSUME NEW d \in Devices, client_list_mutex = d
        PROVE  OwnerRuns \/ main \in {"tear", "gone"}
    <3>1. worker[d] \in {"clients", "notify", "append"} /\ main # "tell"
      BY <2>3, NotifyAssumption DEF Basic, Owners, Main
    <3>2. CASE WorkerWaits(d)
      <4>1. worker[d] = "clients" /\ device_list_mutex # Nobody
        BY <3>1, <3>2 DEF WorkerWaits
      <4> QED BY <2>1, <3>1, <4>1 DEF Stuck
    <3> QED BY <2>3, <3>1, <3>2
  <2>4. MainWaits => OwnerRuns
    BY <2>1, <2>2, <2>3 DEF MainWaits, Stuck
  <2>5. ASSUME NEW d \in Devices, WorkerWaits(d) PROVE (~Idle /\ ~MainWaits) \/ OwnerRuns
    <3>1. CASE worker[d] = "start"
      BY <2>2, <2>3, <2>5, <3>1 DEF WorkerWaits, Idle, MainWaits
    <3>2. CASE worker[d] = "clients"
      <4>1. client_list_mutex = d
        BY <3>2 DEF Basic, Owners
      <4> QED BY <2>3, <4>1 DEF Idle, MainWaits
    <3> QED BY <2>5, <3>1, <3>2 DEF WorkerWaits
  <2> QED BY <2>4, <2>5
<1> QED BY <1>1, BasicAlways, PTL

\* From Stuck the main thread never returns: each of the mutexes is given back only by
\* a thread that waits for the other, or is the one it waits for itself.
THEOREM StuckStays == Spec => StuckForGood
<1>1. Basic /\ [Next]_vars => (Stuck => Stuck')
  <2> SUFFICES ASSUME Basic, [Next]_vars, Stuck PROVE Stuck'
    OBVIOUS
  <2> USE DEF lockVars, clientVars, devVars, mainVars, workVars, seenVars
  <2>1. /\ device_list_mutex = Main /\ device_list_mutex # Nobody
        /\ main \in {"again", "dead", "close"}
        /\ main # "again" => client_list_mutex # Nobody
    BY NotifyAssumption DEF Stuck, Basic, Owners, Main, Nobody
  <2>2. ~(Listening \/ Tearing \/ Removing \/ Sending \/ Closing \/ Arriving)
    BY <2>1 DEF Listening, StartListen, GetListCopy, GetListRead, GetListDone, AnnounceCopy,
                AnnounceCount, AnnounceDone, Tearing, CheckTimeouts, TearDown, TearDone,
                Removing, DeviceRemove, RemoveLockClients, RemoveTell, RemoveUnlockClients, RemoveDone,
                Sending, ProcessSend, SendCompare, SendClear, SendMask, Closing, ClientClose, CloseRemove,
                Arriving, ClientAccept, Connected, Connect, DeviceAdd, DeviceVersionInput, Idle
  <2>3. ASSUME NEW e \in Devices, Working(e) PROVE Stuck'
    <3>1. main' = main /\ device_list_mutex' = device_list_mutex
      BY <2>3 DEF Working, WorkerLockClients, WorkerSetVisible, WorkerNotify, WorkerCount, WorkerDone
    <3>2. ASSUME NEW d \in Devices, worker[d] = "clients", e # d \/ main # "again"
          PROVE  worker'[d] = "clients"
      <4>1. client_list_mutex = d
        BY <3>2 DEF Basic, Owners
      <4>2. ~WorkerSetVisible(e)
        BY <2>1 DEF WorkerSetVisible
      <4>3. worker[e] \in {"notify", "append"} => client_list_mutex = e
        BY DEF Basic, Owners
      <4>4. worker[e] \notin {"notify", "append"} \/ e = d
        BY <4>1, <4>3
      <4> QED BY <2>3, <3>2, <4>2, <4>4
           DEF Working, WorkerLockClients, WorkerNotify, WorkerCount, WorkerDone, Basic, TypeOK
    <3> QED BY <3>1, <3>2 DEF Stuck
  <2>4. CASE UNCHANGED vars
    BY <2>4 DEF vars, Stuck
  <2> QED BY <2>2, <2>3, <2>4 DEF Next
<1> QED BY <1>1, BasicAlways, PTL DEF Spec, StuckForGood
=============================================================================
