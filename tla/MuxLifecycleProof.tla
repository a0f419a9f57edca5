------------------------- MODULE MuxLifecycleProof --------------------------
(***************************************************************************)
(* The safety properties of MuxLifecycle, for every number of clients,     *)
(* devices, source ports and requests.                                     *)
(*                                                                         *)
(* The invariant is LInv.  ClientsMatchConnections and                     *)
(* ShutdownLeavesNothing are inductive with the types; they need find_sport*)
(* to return a port that is free (FindSportFree).  DeviceToldOfTeardown is *)
(* not: a RST taken from the pipe ends a connection without an answer to   *)
(* the device, so it needs Stale, that more than that RST is under way.    *)
(* A handler that tears connections down is an instance of Torn, with the  *)
(* set of them, and of WireKept, WireTaken or WireSent.                    *)
(***************************************************************************)
EXTENDS MuxLifecycle, FiniteSetTheorems, SequenceTheorems, WellFoundedInduction, TLAPS

-----------------------------------------------------------------------------
\* The part of TypeOK that the rest needs.
Types ==
  /\ pc \in {"poll", "usb", "clients", "drain", "exited"}
  /\ cstate \in [Clients -> ClientStates]
  /\ connect_device \in [Clients -> Devices \cup {NoDevice}]
  /\ dstate \in [Devices -> DevStates] /\ next_sport \in [Devices -> Ports]
  /\ state \in [Conns -> ConnStates] /\ client \in [Conns -> Clients \cup {NoClient}]
  /\ remote \in [Conns -> {"CLOSED", "SYN", "OPEN"}] /\ lost \subseteq Conns
  /\ toHost \in [Devices -> Seq([sport : Ports, flags : Flags])]
  /\ inq \in [Clients -> Seq(Asked)] /\ asked \in [Clients -> Nat]

\* A RST under way from a connection that is open on the device is that of an
\* earlier one, and what the open one has sent comes after it.
Stale ==
  \A k \in Conns : remote[k] = "OPEN" =>
    \A i \in 1..Len(toHost[k[1]]) :
      toHost[k[1]][i].sport = k[2] /\ toHost[k[1]][i].flags = "RST" =>
        \E j \in (i + 1)..Len(toHost[k[1]]) :
          toHost[k[1]][j].sport = k[2] /\ toHost[k[1]][j].flags # "RST"

Wire == DeviceToldOfTeardown /\ Stale

\* The inductive invariant.
LInv == Types /\ ClientsMatchConnections /\ Wire /\ ShutdownLeavesNothing

-----------------------------------------------------------------------------
(***************************************************************************)
(* find_sport.                                                             *)
(***************************************************************************)
LEMMA Smallest ==
  ASSUME NEW T, T \subseteq Nat, T # {}
  PROVE  \E x \in T : \A y \in T : x <= y
<1>1. \E x \in T : \A y \in T : ~ (<<y, x>> \in OpToRel(<, Nat))
  BY WFMin, NatLessThanWellFounded
<1>2. PICK x \in T : \A y \in T : ~ (<<y, x>> \in OpToRel(<, Nat))
  BY <1>1
<1>3. \A y \in T : ~ (y < x)
  BY <1>2 DEF OpToRel
<1> QED BY <1>3

\* A remainder is below the number of ports.
LEMMA InPorts == ASSUME NEW n \in Int PROVE n % PortMod \in Ports
<1> USE LifeAssumption
<1> QED BY DEF Ports

LEMMA NextFreeIsFree ==
  ASSUME NEW d \in Devices, next_sport[d] \in Ports, FreePorts(d) # {}
  PROVE  NextFree(d) \in FreePorts(d)
<1> DEFINE r(p) == (p - next_sport[d]) % PortMod
           T == {r(p) : p \in FreePorts(d)}
<1>1. \A p \in FreePorts(d) : r(p) \in Nat
  BY InPorts DEF FreePorts, Ports
<1>2. T \subseteq Nat /\ T # {}
  BY <1>1
<1>3. PICK x \in T : \A y \in T : x <= y
  BY <1>2, Smallest
<1>4. \E p \in FreePorts(d) : \A q \in FreePorts(d) : r(p) <= r(q)
  BY <1>3
<1> QED BY <1>4 DEF NextFree

\* A device that has fewer connections than usable ports has a port free.
LEMMA SomeFree ==
  ASSUME NEW d \in Devices, ~(Cardinality(OfDev(d)) >= PortMod - 1)
  PROVE  FreePorts(d) # {}
<1> USE LifeAssumption
<1> SUFFICES ASSUME FreePorts(d) = {} PROVE FALSE
  OBVIOUS
<1> DEFINE f == [p \in Ports |-> <<d, p>>]
<1>1. OfDev(d) = {<<d, p>> : p \in Ports}
  <2>1. \A p \in Ports : <<d, p>> \in Open
    BY DEF FreePorts
  <2>2. \A k \in Open : k \in Devices \X Ports
    BY DEF Open, Conns
  <2>3. \A k \in OfDev(d) : k = <<d, k[2]>> /\ k[2] \in Ports
    BY <2>2 DEF OfDev
  <2> QED BY <2>1, <2>3 DEF OfDev
<1>2. f \in Bijection(Ports, OfDev(d))
  BY <1>1 DEF Bijection, Injection, IsInjective, Surjection
<1>3. ExistsBijection(Ports, OfDev(d))
  BY <1>2 DEF ExistsBijection
<1>4. IsFiniteSet(Ports) /\ Cardinality(Ports) = PortMod
  <2>1. IsFiniteSet(Ports) /\ Cardinality(Ports) = IF 0 > PortMod - 1 THEN 0 ELSE (PortMod - 1) - 0 + 1
    BY FS_Interval DEF Ports
  <2> QED BY <2>1
<1>5. Cardinality(OfDev(d)) = PortMod
  BY <1>3, <1>4, FS_Bijection
<1> QED BY <1>5

LEMMA FindSportFree ==
  ASSUME NEW d \in Devices, next_sport[d] \in Ports
  PROVE  /\ FindSport(d).sport \in Ports /\ FindSport(d).next \in Ports
         /\ FindSport(d).sport # 0 => <<d, FindSport(d).sport>> \notin Open
<1> USE LifeAssumption
<1>1. CASE Cardinality(OfDev(d)) >= PortMod - 1
  BY <1>1 DEF FindSport, Ports
<1>2. CASE ~(Cardinality(OfDev(d)) >= PortMod - 1)
  <2>1. NextFree(d) \in FreePorts(d)
    BY <1>2, SomeFree, NextFreeIsFree
  <2>2. (NextFree(d) + 1) % PortMod \in Ports
    BY <2>1, InPorts DEF FreePorts, Ports
  <2> QED BY <1>2, <2>1, <2>2 DEF FindSport, FreePorts
<1> QED BY <1>1, <1>2

-----------------------------------------------------------------------------
(***************************************************************************)
(* Connections that go: what every handler but those that set one up does  *)
(* to clients and connections, K being the connections it tears down.      *)
(***************************************************************************)
Bound == {"CONNECTING1", "CONNECTING2", "CONNECTED"}

\* The clients of K are let go of; another keeps its place, or moves where it has no
\* connection, or from CONNECTING2 into its tunnel.
LetGo(K) ==
  \A c \in Clients :
    IF \E k \in K : client[k] = c
      THEN cstate'[c] \notin Bound
      ELSE /\ \/ cstate'[c] = cstate[c]
              \/ cstate[c] \notin Bound /\ cstate'[c] \notin Bound
              \/ cstate[c] = "CONNECTING2" /\ cstate'[c] = "CONNECTED"
           /\ cstate'[c] \in Bound => connect_device'[c] = connect_device[c]

Gone(K) ==
  \A k \in Conns : /\ state'[k] = IF k \in K THEN "NONE" ELSE state[k]
                   /\ k \notin K => client'[k] = client[k]

LEMMA GoneOpen == ASSUME NEW K, Gone(K) PROVE Open' = Open \ K
BY DEF Gone, Open, Conns

LEMMA Torn ==
  ASSUME Types, ClientsMatchConnections, NEW K \in SUBSET Open, Gone(K), LetGo(K),
         \A k \in Open \ K : dstate'[k[1]] = "ACTIVE"
  PROVE  /\ ClientsMatchConnections'
         /\ ShutdownLeavesNothing /\ pc' = pc => ShutdownLeavesNothing'
<1>1. Open' = Open \ K
  BY GoneOpen
<1>2. \A k \in Open : k \in Conns /\ k[1] \in Devices /\ client[k] \in Clients
  BY DEF Open, Conns, ClientsMatchConnections
<1>3. \A k \in Open \ K : client'[k] = client[k] /\ state'[k] = state[k]
  BY <1>2 DEF Gone
<1>4. \A k \in Open \ K : ~ \E l \in K : client[l] = client[k]
  BY <1>2 DEF ClientsMatchConnections
<1>5. \A k \in Open \ K :
        /\ \/ cstate'[client[k]] = cstate[client[k]]
           \/ cstate[client[k]] = "CONNECTING2" /\ cstate'[client[k]] = "CONNECTED"
        /\ connect_device'[client[k]] = connect_device[client[k]]
  <2> TAKE k \in Open \ K
  <2>1. cstate[client[k]] \in Bound
    BY <1>2 DEF ClientsMatchConnections, Bound, Open, Types, ConnStates
  <2> QED BY <1>2, <1>4, <2>1 DEF LetGo, Bound
<1>6. \A k \in Open' :
        /\ dstate'[k[1]] = "ACTIVE"
        /\ client'[k] \in Clients
        /\ connect_device'[client'[k]] = k[1]
        /\ state'[k] = "CONNECTING" => cstate'[client'[k]] = "CONNECTING1"
        /\ state'[k] = "CONNECTED"  => cstate'[client'[k]] \in {"CONNECTING2", "CONNECTED"}
  BY <1>1, <1>2, <1>3, <1>5 DEF ClientsMatchConnections
<1>7. \A k, l \in Open' : client'[k] = client'[l] => k = l
  BY <1>1, <1>3 DEF ClientsMatchConnections
<1>8. \A c \in Clients : cstate'[c] \in Bound => cstate[c] \in Bound /\ ~ \E k \in K : client[k] = c
  BY DEF LetGo, Bound
<1>9. \A c \in Clients : cstate'[c] \in Bound => \E k \in Open' : client'[k] = c
  <2> SUFFICES ASSUME NEW c \in Clients, cstate'[c] \in Bound PROVE \E k \in Open' : client'[k] = c
    OBVIOUS
  <2>1. PICK k \in Open : client[k] = c
    BY <1>8 DEF ClientsMatchConnections, Bound
  <2> QED BY <1>1, <1>3, <1>8, <2>1
<1>10. ClientsMatchConnections'
  BY <1>6, <1>7, <1>9 DEF ClientsMatchConnections, Bound
<1>11. ASSUME ShutdownLeavesNothing, pc' = pc PROVE ShutdownLeavesNothing'
  BY <1>1, <1>8, <1>11 DEF ShutdownLeavesNothing, Bound
<1> QED BY <1>10, <1>11

\* Nothing of this changes.
LEMMA TornNone ==
  ASSUME Types, ClientsMatchConnections,
         UNCHANGED <<state, client, connect_device>>, LetGo({}),
         \A d \in Devices : dstate[d] = "ACTIVE" => dstate'[d] = "ACTIVE"
  PROVE  /\ ClientsMatchConnections'
         /\ ShutdownLeavesNothing /\ pc' = pc => ShutdownLeavesNothing'
<1>1. Gone({})
  BY DEF Gone
<1>2. \A k \in Open \ {} : dstate'[k[1]] = "ACTIVE"
  BY DEF Open, Conns, ClientsMatchConnections
<1> QED BY <1>1, <1>2, Torn

-----------------------------------------------------------------------------
(***************************************************************************)
(* The device's end.                                                       *)
(***************************************************************************)

\* A handler that takes nothing from the pipe.
WireHeld ==
  /\ toHost' = toHost
  /\ \A k \in Conns : remote'[k] = "OPEN" =>
       /\ remote[k] = "OPEN"
       /\ k \in lost => k \in lost'
       /\ state'[k] = "NONE" => state[k] = "NONE" \/ k \in lost'

LEMMA WireKept == ASSUME Wire, WireHeld PROVE Wire'
<1>1. DeviceToldOfTeardown'
  BY DEF Wire, WireHeld, DeviceToldOfTeardown, Pending
<1>2. Stale'
  BY DEF Wire, WireHeld, Stale
<1> QED BY <1>1, <1>2 DEF Wire

\* Segments as they are numbered once the first of them has been taken.
LEMMA TailAt ==
  ASSUME NEW S, NEW q \in Seq(S), q # <<>>
  PROVE  /\ Tail(q) \in Seq(S) /\ Head(q) = q[1] /\ Head(q) \in S
         /\ Len(Tail(q)) = Len(q) - 1 /\ Len(q) \in Nat \ {0}
         /\ \A i \in 1..Len(Tail(q)) : Tail(q)[i] = q[i + 1]
BY HeadTailProperties

\* device_tcp_input with a segment for k: the other connections are left alone; k is
\* closed on the device or the RST for it lost, or else k stays, or the segment was a
\* RST.
SegmentTaken(d, k) ==
  /\ toHost[d] # <<>> /\ toHost' = [toHost EXCEPT ![d] = Tail(@)]
  /\ k = <<d, Head(toHost[d]).sport>>
  /\ \A l \in Conns \ {k} : /\ remote'[l] = remote[l]
                            /\ l \in lost => l \in lost'
                            /\ state'[l] = "NONE" => state[l] = "NONE"
  /\ \/ remote'[k] = "CLOSED"
     \/ remote'[k] = remote[k] /\ k \in lost'
     \/ /\ remote'[k] = remote[k] /\ (k \in lost => k \in lost')
        /\ Head(toHost[d]).flags = "RST" \/ state'[k] # "NONE"

LEMMA WireTaken ==
  ASSUME Types, Wire, NEW d \in Devices, NEW k \in Conns, SegmentTaken(d, k)
  PROVE  Wire'
<1> USE DEF SegmentTaken
<1> DEFINE S == [sport : Ports, flags : Flags]
<1>1. /\ Tail(toHost[d]) \in Seq(S) /\ Head(toHost[d]) = toHost[d][1]
      /\ Len(Tail(toHost[d])) = Len(toHost[d]) - 1 /\ Len(toHost[d]) \in Nat \ {0}
      /\ \A i \in 1..Len(Tail(toHost[d])) : Tail(toHost[d])[i] = toHost[d][i + 1]
  <2>1. toHost[d] \in Seq(S)
    BY DEF Types
  <2> QED BY <2>1, TailAt
<1>2. toHost'[d] = Tail(toHost[d]) /\ \A e \in Devices \ {d} : toHost'[e] = toHost[e]
  BY DEF Types
<1>3. /\ Len(toHost'[d]) = Len(toHost[d]) - 1 /\ Len(toHost[d]) \in Nat \ {0}
      /\ Head(toHost[d]) = toHost[d][1]
      /\ \A i \in 1..Len(toHost'[d]) : toHost'[d][i] = toHost[d][i + 1]
  BY <1>1, <1>2
<1>4. \A l \in Conns : l[1] \in Devices /\ l = <<l[1], l[2]>>
  BY DEF Conns
<1> HIDE DEF S
<1> DEFINE p == toHost'[d]
           q == toHost[d]
<1>q. /\ Len(p) = Len(q) - 1 /\ Len(q) \in Nat \ {0} /\ Head(toHost[d]) = q[1]
      /\ \A i \in 1..Len(p) : p[i] = q[i + 1]
  BY <1>3
<1>p. \A l \in Conns : l[1] = d => toHost[l[1]] = q /\ toHost'[l[1]] = p
  OBVIOUS
<1>o. \A l \in Conns : l[1] # d => toHost'[l[1]] = toHost[l[1]]
  BY <1>2, <1>4
<1>k. k[1] = d /\ k[2] = q[1].sport
  BY <1>q
<1> HIDE DEF p, q
<1>5. DeviceToldOfTeardown'
  <2> SUFFICES ASSUME NEW l \in Conns, remote'[l] = "OPEN", state'[l] = "NONE", l \notin lost'
               PROVE  Pending(l)'
    BY DEF DeviceToldOfTeardown
  <2>1. CASE l[1] # d
    <3>1. Pending(l)
      BY <1>k, <2>1 DEF Wire, DeviceToldOfTeardown
    <3> QED BY <1>o, <2>1, <3>1 DEF Pending
  <2>2. CASE l[1] = d
    <3>1. \E i \in 2..Len(q) : q[i].sport = l[2] /\ q[i].flags # "RST"
      <4>1. CASE l # k
        <5>1. PICK i \in 1..Len(q) : q[i].sport = l[2] /\ q[i].flags # "RST"
          BY <1>p, <2>2, <4>1 DEF Wire, DeviceToldOfTeardown, Pending
        <5>2. i # 1
          BY <1>4, <1>k, <2>2, <4>1, <5>1
        <5> QED BY <1>q, <5>1, <5>2
      <4>2. CASE l = k
        <5>1. remote[k] = "OPEN" /\ q[1].flags = "RST" /\ 1 \in 1..Len(q)
          BY <1>q, <4>2
        <5>2. \E j \in (1 + 1)..Len(q) : q[j].sport = k[2] /\ q[j].flags # "RST"
          BY <1>p, <1>k, <5>1 DEF Wire, Stale
        <5> QED BY <4>2, <5>2
      <4> QED BY <4>1, <4>2
    <3>2. \E i \in 1..Len(p) : p[i].sport = l[2] /\ p[i].flags # "RST"
      <4>1. PICK i \in 2..Len(q) : q[i].sport = l[2] /\ q[i].flags # "RST"
        BY <3>1
      <4>2. i - 1 \in 1..Len(p) /\ p[i - 1] = q[i]
        BY <1>q, <4>1
      <4> QED BY <4>1, <4>2
    <3>3. toHost'[l[1]] = p
      BY <1>p, <2>2
    <3> QED BY <3>2, <3>3 DEF Pending
  <2> QED BY <2>1, <2>2
<1>6. Stale'
  <2> SUFFICES ASSUME NEW l \in Conns, remote'[l] = "OPEN"
               PROVE  \A i \in 1..Len(toHost'[l[1]]) :
                        toHost'[l[1]][i].sport = l[2] /\ toHost'[l[1]][i].flags = "RST" =>
                          \E j \in (i + 1)..Len(toHost'[l[1]]) :
                            toHost'[l[1]][j].sport = l[2] /\ toHost'[l[1]][j].flags # "RST"
    BY DEF Stale
  <2>0. remote[l] = "OPEN"
    OBVIOUS
  <2>1. CASE l[1] # d
    BY <1>o, <2>0, <2>1 DEF Wire, Stale
  <2>2. CASE l[1] = d
    <3>1. \A i \in 1..Len(q) : q[i].sport = l[2] /\ q[i].flags = "RST" =>
            \E j \in (i + 1)..Len(q) : q[j].sport = l[2] /\ q[j].flags # "RST"
      <4>1. toHost[l[1]] = q
        BY <1>p, <2>2
      <4>2. \A i \in 1..Len(toHost[l[1]]) :
              toHost[l[1]][i].sport = l[2] /\ toHost[l[1]][i].flags = "RST" =>
                \E j \in (i + 1)..Len(toHost[l[1]]) :
                  toHost[l[1]][j].sport = l[2] /\ toHost[l[1]][j].flags # "RST"
        BY <2>0 DEF Wire, Stale
      <4> QED BY <4>1, <4>2
    <3>2. ASSUME NEW i \in 1..Len(p), p[i].sport = l[2], p[i].flags = "RST"
          PROVE  \E j \in (i + 1)..Len(p) : p[j].sport = l[2] /\ p[j].flags # "RST"
      <4>1. i + 1 \in 1..Len(q) /\ q[i + 1].sport = l[2] /\ q[i + 1].flags = "RST"
        BY <1>q, <3>2
      <4>2. PICK j \in ((i + 1) + 1)..Len(q) : q[j].sport = l[2] /\ q[j].flags # "RST"
        BY <3>1, <4>1
      <4>3. j - 1 \in (i + 1)..Len(p) /\ p[j - 1] = q[j]
        BY <1>q, <4>2
      <4> QED BY <4>2, <4>3
    <3>3. toHost'[l[1]] = p
      BY <1>p, <2>2
    <3> QED BY <3>2, <3>3
  <2> QED BY <2>1, <2>2
<1> QED BY <1>5, <1>6 DEF Wire

\* The device sends a segment with flags f for k, and has k open only if it is not a
\* RST.
LEMMA WireSent ==
  ASSUME Types, Wire, NEW k \in Conns, NEW f \in Flags,
         toHost' = [toHost EXCEPT ![k[1]] = Append(@, [sport |-> k[2], flags |-> f])],
         \A l \in Conns \ {k} : remote'[l] = remote[l],
         remote'[k] = "OPEN" => f # "RST",
         UNCHANGED <<state, lost>>
  PROVE  /\ Wire'
         /\ toHost' \in [Devices -> Seq([sport : Ports, flags : Flags])]
<1> DEFINE S == [sport : Ports, flags : Flags]
           m == [sport |-> k[2], flags |-> f]
<1>1. k[1] \in Devices /\ k[2] \in Ports /\ m \in S
  BY DEF Conns
<1>2. \A l \in Conns : l[1] \in Devices /\ l = <<l[1], l[2]>>
  BY DEF Conns
<1>3. toHost[k[1]] \in Seq(S) /\ toHost'[k[1]] = Append(toHost[k[1]], m)
  BY <1>1 DEF Types
<1>4. /\ Len(toHost'[k[1]]) = Len(toHost[k[1]]) + 1 /\ Len(toHost[k[1]]) \in Nat
      /\ toHost'[k[1]] \in Seq(S)
      /\ \A i \in 1..Len(toHost[k[1]]) : toHost'[k[1]][i] = toHost[k[1]][i]
      /\ toHost'[k[1]][Len(toHost[k[1]]) + 1] = m
  <2> HIDE DEF S, m
  <2> QED BY <1>1, <1>3, AppendProperties
<1>t. toHost' \in [Devices -> Seq(S)]
  <2> HIDE DEF S
  <2>1. toHost \in [Devices -> Seq(S)]
    BY DEF Types, S
  <2> QED BY <1>3, <1>4, <2>1
<1> DEFINE p == toHost'[k[1]]
           q == toHost[k[1]]
<1>q. /\ Len(p) = Len(q) + 1 /\ Len(q) \in Nat
      /\ \A i \in 1..Len(q) : p[i] = q[i]
      /\ p[Len(p)].sport = k[2] /\ p[Len(p)].flags = f
  BY <1>4
<1>p. \A l \in Conns : l[1] = k[1] => toHost[l[1]] = q /\ toHost'[l[1]] = p
  OBVIOUS
<1>o. \A l \in Conns : l[1] # k[1] => toHost'[l[1]] = toHost[l[1]]
  BY <1>2 DEF Types
<1> HIDE DEF p, q, S, m
<1>5. DeviceToldOfTeardown'
  <2> SUFFICES ASSUME NEW l \in Conns, remote'[l] = "OPEN", state'[l] = "NONE", l \notin lost'
               PROVE  Pending(l)'
    BY DEF DeviceToldOfTeardown
  <2>1. CASE l[1] # k[1]
    <3>1. Pending(l)
      BY <2>1 DEF Wire, DeviceToldOfTeardown
    <3> QED BY <1>o, <2>1, <3>1 DEF Pending
  <2>2. CASE l[1] = k[1]
    <3>1. \E i \in 1..Len(p) : p[i].sport = l[2] /\ p[i].flags # "RST"
      <4>1. CASE l # k
        <5>1. PICK i \in 1..Len(q) : q[i].sport = l[2] /\ q[i].flags # "RST"
          BY <1>p, <2>2, <4>1 DEF Wire, DeviceToldOfTeardown, Pending
        <5> QED BY <1>q, <5>1
      <4>2. CASE l = k
        <5>1. Len(p) \in 1..Len(p) /\ f # "RST"
          BY <1>q, <4>2
        <5> QED BY <1>q, <4>2, <5>1
      <4> QED BY <4>1, <4>2
    <3>2. toHost'[l[1]] = p
      BY <1>p, <2>2
    <3> QED BY <3>1, <3>2 DEF Pending
  <2> QED BY <2>1, <2>2
<1>6. Stale'
  <2> SUFFICES ASSUME NEW l \in Conns, remote'[l] = "OPEN"
               PROVE  \A i \in 1..Len(toHost'[l[1]]) :
                        toHost'[l[1]][i].sport = l[2] /\ toHost'[l[1]][i].flags = "RST" =>
                          \E j \in (i + 1)..Len(toHost'[l[1]]) :
                            toHost'[l[1]][j].sport = l[2] /\ toHost'[l[1]][j].flags # "RST"
    BY DEF Stale
  <2>1. CASE l[1] # k[1]
    BY <1>o, <2>1 DEF Wire, Stale
  <2>2. CASE l[1] = k[1]
    <3>1. ASSUME NEW i \in 1..Len(p), p[i].sport = l[2], p[i].flags = "RST"
          PROVE  \E j \in (i + 1)..Len(p) : p[j].sport = l[2] /\ p[j].flags # "RST"
      <4>1. CASE l = k
        <5>1. i # Len(p)
          BY <1>q, <3>1, <4>1
        <5>2. Len(p) \in (i + 1)..Len(p) /\ f # "RST"
          BY <1>q, <3>1, <4>1, <5>1
        <5> QED BY <1>q, <4>1, <5>2
      <4>2. CASE l # k
        <5>1. l[2] # k[2]
          BY <1>2, <2>2, <4>2
        <5>2. i \in 1..Len(q) /\ q[i].sport = l[2] /\ q[i].flags = "RST"
          BY <1>q, <3>1, <5>1
        <5>3. PICK j \in (i + 1)..Len(q) : q[j].sport = l[2] /\ q[j].flags # "RST"
          <6>1. toHost[l[1]] = q /\ remote[l] = "OPEN"
            BY <1>p, <2>2, <4>2
          <6>2. i \in 1..Len(toHost[l[1]]) /\ toHost[l[1]][i].sport = l[2]
                /\ toHost[l[1]][i].flags = "RST"
            BY <5>2, <6>1
          <6>3. \E j \in (i + 1)..Len(toHost[l[1]]) :
                  toHost[l[1]][j].sport = l[2] /\ toHost[l[1]][j].flags # "RST"
            BY <6>1, <6>2 DEF Wire, Stale
          <6> QED BY <6>1, <6>3
        <5>4. j \in (i + 1)..Len(p) /\ p[j] = q[j]
          BY <1>q, <5>2, <5>3
        <5> QED BY <5>3, <5>4
      <4> QED BY <4>1, <4>2
    <3>2. toHost'[l[1]] = p
      BY <1>p, <2>2
    <3> QED BY <3>1, <3>2
  <2> QED BY <2>1, <2>2
<1> QED BY <1>5, <1>6, <1>t DEF Wire, S

-----------------------------------------------------------------------------
(***************************************************************************)
(* What the handlers share.                                                *)
(***************************************************************************)

\* The variables of LInv, but for the loop's place in its turn.
objects == <<cstate, connect_device, dstate, next_sport, state, client, remote, lost,
             toHost, inq, asked>>

\* No step but Shutdown enters the last part of the run.
Onward == pc' = pc \/ pc' \notin {"drain", "exited"}

LEMMA Settled ==
  ASSUME LInv, Types', Wire', Onward, NEW K \in SUBSET Open, Gone(K), LetGo(K),
         \A k \in Open \ K : dstate'[k[1]] = "ACTIVE"
  PROVE  LInv'
<1>1. ClientsMatchConnections' /\ (pc' = pc => ShutdownLeavesNothing')
  BY Torn DEF LInv
<1>2. pc' \notin {"drain", "exited"} => ShutdownLeavesNothing'
  BY DEF ShutdownLeavesNothing
<1> QED BY <1>1, <1>2 DEF LInv, Onward

LEMMA Quiet ==
  ASSUME LInv, Types', Onward, UNCHANGED <<state, client, connect_device, wireVars>>,
         LetGo({}), \A d \in Devices : dstate[d] = "ACTIVE" => dstate'[d] = "ACTIVE"
  PROVE  LInv'
<1>1. ClientsMatchConnections' /\ (pc' = pc => ShutdownLeavesNothing')
  BY TornNone DEF LInv
<1>2. pc' \notin {"drain", "exited"} => ShutdownLeavesNothing'
  BY DEF ShutdownLeavesNothing
<1>3. Wire'
  <2>1. WireHeld
    BY DEF WireHeld, wireVars
  <2> QED BY <2>1, WireKept DEF LInv
<1> QED BY <1>1, <1>2, <1>3 DEF LInv, Onward

LEMMA Same ==
  ASSUME LInv, UNCHANGED objects, Onward, pc' \in {"poll", "usb", "clients", "drain", "exited"}
  PROVE  LInv'
<1>1. Types'
  BY DEF LInv, Types, objects
<1>2. LetGo({})
  BY DEF LetGo, objects
<1> QED BY <1>1, <1>2, Quiet DEF objects, wireVars

LEMMA Fault == ASSUME LInv, NEW f, Undefined(f) PROVE LInv'
<1>1. UNCHANGED <<pc, objects>>
  BY DEF Undefined, objects, loopVars, clientVars, devVars, connVars, wireVars, appVars
<1> QED BY <1>1, Same DEF Onward, LInv, Types

\* connection_teardown and client_close: their clients are let go of.
LEMMA TearsDown ==
  ASSUME LInv, NEW K \in SUBSET Open,
         DropConns(K), FreeClients(Closed(K)), cstate' = CstateAfter(K)
  PROVE  /\ Gone(K) /\ LetGo(K)
         /\ state' \in [Conns -> ConnStates] /\ client' \in [Conns -> Clients \cup {NoClient}]
         /\ cstate' \in [Clients -> ClientStates]
         /\ connect_device' \in [Clients -> Devices \cup {NoDevice}]
<1> USE DEF LInv
<1>1. Gone(K)
  BY DEF DropConns, Gone
<1>2. \A k \in K : /\ k \in Conns /\ state[k] \in {"CONNECTING", "CONNECTED"}
                   /\ state[k] = "CONNECTING" => cstate[client[k]] = "CONNECTING1"
  BY DEF Open, Types, ConnStates, ClientsMatchConnections
<1>3. LetGo(K)
  <2> SUFFICES ASSUME NEW c \in Clients
               PROVE  IF \E k \in K : client[k] = c
                        THEN cstate'[c] \notin Bound
                        ELSE cstate'[c] = cstate[c] /\ connect_device'[c] = connect_device[c]
    BY DEF LetGo
  <2>1. CASE \E k \in K : client[k] = c
    <3>1. c \in Closed(K) \/ c \in Refused(K)
      BY <1>2, <2>1 DEF Closed, Refused
    <3> QED BY <2>1, <3>1 DEF CstateAfter, Bound
  <2>2. CASE ~ \E k \in K : client[k] = c
    <3>1. c \notin Closed(K) /\ c \notin Refused(K)
      BY <2>2 DEF Closed, Refused
    <3> QED BY <2>2, <3>1 DEF CstateAfter, FreeClients, Types
  <2> QED BY <2>1, <2>2
<1>4. /\ state' \in [Conns -> ConnStates]
      /\ client' \in [Conns -> Clients \cup {NoClient}]
  BY DEF DropConns, Types, ConnStates
<1>5. cstate' \in [Clients -> ClientStates]
  BY DEF CstateAfter, Types, ClientStates
<1>6. connect_device' \in [Clients -> Devices \cup {NoDevice}]
  BY DEF FreeClients, Types
<1> QED BY <1>1, <1>3, <1>4, <1>5, <1>6

\* A RST for each of K: no connection is opened on the device, and one of K that is
\* still open there is one whose RST failed.
LEMMA Reset ==
  ASSUME LInv, NEW K \in SUBSET Conns, SendRst(K)
  PROVE  /\ remote' \in [Conns -> {"CLOSED", "SYN", "OPEN"}] /\ lost' \subseteq Conns
         /\ lost \subseteq lost'
         /\ \A k \in Conns : remote'[k] = "CLOSED" \/ remote'[k] = remote[k]
         /\ \A k \in Conns \ K : remote'[k] = remote[k]
         /\ \A k \in K : remote'[k] = "CLOSED" \/ (remote'[k] = remote[k] /\ k \in lost')
<1>1. PICK L \in SUBSET K :
        /\ lost' = lost \cup L
        /\ remote' = [k \in Conns |-> IF k \in K \ L THEN "CLOSED" ELSE remote[k]]
  BY DEF SendRst
<1>2. remote' \in [Conns -> {"CLOSED", "SYN", "OPEN"}]
  BY <1>1 DEF LInv, Types
<1>3. lost' \subseteq Conns
  BY <1>1 DEF LInv, Types
<1> QED BY <1>1, <1>2, <1>3

\* Connections that are torn down with a RST each, outside device_tcp_input.
LEMMA WireReset ==
  ASSUME LInv, NEW K \in SUBSET Open, Gone(K), SendRst(K), toHost' = toHost
  PROVE  Wire'
<1>1. K \subseteq Conns
  BY DEF Open
<1>2. WireHeld
  BY <1>1, Reset DEF WireHeld, Gone
<1> QED BY <1>2, WireKept DEF LInv

-----------------------------------------------------------------------------
(***************************************************************************)
(* The initial state.                                                      *)
(***************************************************************************)
LEMMA InitHolds == ASSUME Init PROVE LInv
<1>1. \A k \in Conns : remote[k] = "CLOSED" /\ state[k] = "NONE"
  BY DEF Init
<1>2. \A c \in Clients : cstate[c] = "NEW"
  BY DEF Init
<1>3. Open = {}
  BY <1>1 DEF Open
<1>4. Types
  <2>1. 1 \in Ports
    BY LifeAssumption DEF Ports
  <2>2. <<>> \in Seq([sport : Ports, flags : Flags]) /\ <<>> \in Seq(Asked)
    OBVIOUS
  <2> QED BY <2>1, <2>2 DEF Init, Types, ClientStates, DevStates, ConnStates
<1>5. Wire
  BY <1>1 DEF Wire, DeviceToldOfTeardown, Stale
<1>6. ClientsMatchConnections /\ ShutdownLeavesNothing
  BY <1>2, <1>3 DEF ClientsMatchConnections, ShutdownLeavesNothing
<1> QED BY <1>4, <1>5, <1>6 DEF LInv

-----------------------------------------------------------------------------
(***************************************************************************)
(* The client's socket.                                                    *)
(***************************************************************************)
LEMMA AcceptKeeps == ASSUME LInv, NEW c \in Clients, ClientAccept(c) PROVE LInv'
<1> USE DEF ClientAccept, loopVars, devVars, connVars, wireVars, appVars
<1>1. Types'
  BY DEF LInv, Types, ClientStates
<1>2. LetGo({})
  BY DEF LetGo, Bound, LInv, Types
<1> QED BY <1>1, <1>2, Quiet DEF Onward

LEMMA AsksKeeps ==
  ASSUME LInv, NEW c \in Clients, NEW m \in Commands, ClientAsks(c, m) PROVE LInv'
<1> DEFINE counts == m.op \notin {"MALFORMED", "OVERSIZE"}
           tag    == IF counts THEN asked[c] + 1 ELSE 0
           r      == [op |-> m.op, dev |-> m.dev, tag |-> tag]
<1>1. m \in Command
  BY LifeAssumption
<1>2. asked[c] \in Nat /\ asked[c] + 1 \in Nat /\ inq[c] \in Seq(Asked)
  BY DEF LInv, Types
<1>3. r \in Asked
  <2>1. tag \in Nat
    BY <1>2
  <2> HIDE DEF tag
  <2> QED BY <1>1, <2>1 DEF Command, Asked
<1>4. inq' = [inq EXCEPT ![c] = Append(@, r)] /\ asked' \in [Clients -> Nat]
  BY <1>2 DEF ClientAsks, LInv, Types
<1>5. inq' \in [Clients -> Seq(Asked)]
  <2> HIDE DEF r
  <2>1. Append(inq[c], r) \in Seq(Asked)
    BY <1>2, <1>3
  <2> QED BY <1>4, <2>1 DEF LInv, Types
<1>6. UNCHANGED <<pc, cstate, connect_device, dstate, next_sport, state, client, wireVars>>
  BY DEF ClientAsks, loopVars, clientVars, devVars, connVars
<1>7. Types'
  BY <1>4, <1>5, <1>6 DEF LInv, Types, wireVars
<1>8. LetGo({})
  BY <1>6 DEF LetGo
<1> QED BY <1>6, <1>7, <1>8, Quiet DEF Onward

LEMMA HangsUpKeeps == ASSUME LInv, NEW c \in Clients, ClientHangsUp(c) PROVE LInv'
<1>1. UNCHANGED <<pc, objects>>
  BY DEF ClientHangsUp, objects, loopVars, clientVars, devVars, connVars, wireVars
<1> QED BY <1>1, Same DEF Onward, LInv, Types

\* client_close: a client that waits for or uses a connection has it in ConnsOf.
LEMMA CloseKeeps ==
  ASSUME LInv, NEW c \in Clients, ClientClose(c) PROVE LInv'
<1> DEFINE K == ConnsOf(c)
<1>1. CASE cstate[c] = "CONNECTING2" /\ K # {}
  BY <1>1, Fault DEF ClientClose
<1>2. CASE ~(cstate[c] = "CONNECTING2" /\ K # {})
  <2>1. /\ DropConns(K) /\ SendRst(K) /\ FreeClients({c})
        /\ cstate' = [cstate EXCEPT ![c] = "FREED"]
        /\ UNCHANGED <<pc, dstate, next_sport, toHost, inq, asked>>
    BY <1>2 DEF ClientClose, devVars, appVars
  <2>2. K \in SUBSET Open /\ K \in SUBSET Conns
    BY DEF ConnsOf, Open
  <2>3. Gone(K)
    BY <2>1 DEF DropConns, Gone
  <2>4. LetGo(K)
    <3> SUFFICES ASSUME NEW b \in Clients
                 PROVE  IF \E k \in K : client[k] = b
                          THEN cstate'[b] \notin Bound
                          ELSE /\ \/ cstate'[b] = cstate[b]
                                  \/ cstate[b] \notin Bound /\ cstate'[b] \notin Bound
                                  \/ cstate[b] = "CONNECTING2" /\ cstate'[b] = "CONNECTED"
                               /\ cstate'[b] \in Bound => connect_device'[b] = connect_device[b]
      BY DEF LetGo
    <3>1. CASE b # c
      <4>1. ~ \E k \in K : client[k] = b
        BY <3>1 DEF ConnsOf
      <4> QED BY <2>1, <3>1, <4>1 DEF FreeClients, LInv, Types
    <3>2. CASE b = c
      <4>1. cstate'[b] = "FREED"
        BY <2>1, <3>2 DEF LInv, Types
      <4>2. cstate[b] \in Bound => \E k \in K : client[k] = b
        BY <3>2 DEF LInv, ClientsMatchConnections, ConnsOf, Bound
      <4> QED BY <4>1, <4>2 DEF Bound
    <3> QED BY <3>1, <3>2
  <2>5. /\ state' \in [Conns -> ConnStates]
        /\ client' \in [Conns -> Clients \cup {NoClient}]
    BY <2>1 DEF DropConns, LInv, Types, ConnStates
  <2>6. /\ cstate' \in [Clients -> ClientStates]
        /\ connect_device' \in [Clients -> Devices \cup {NoDevice}]
    BY <2>1 DEF FreeClients, LInv, Types, ClientStates
  <2>7. remote' \in [Conns -> {"CLOSED", "SYN", "OPEN"}] /\ lost' \subseteq Conns
    BY <2>1, <2>2, Reset
  <2>8. Types'
    BY <2>1, <2>5, <2>6, <2>7 DEF LInv, Types
  <2>9. Wire'
    BY <2>1, <2>2, <2>3, WireReset
  <2>10. \A k \in Open \ K : dstate'[k[1]] = "ACTIVE"
    BY <2>1 DEF LInv, ClientsMatchConnections
  <2> QED BY <2>1, <2>2, <2>3, <2>4, <2>8, <2>9, <2>10, Settled DEF Onward
<1> QED BY <1>1, <1>2

\* Connections torn down with a RST by a handler that changes nothing else.
LEMMA AbandonKeeps ==
  ASSUME LInv, NEW K \in SUBSET Open, Teardown(K), SendRst(K),
         UNCHANGED <<dstate, next_sport, toHost, inq, asked>>,
         pc' \in {"poll", "usb", "clients", "drain", "exited"}
  PROVE  Types' /\ Wire' /\ ClientsMatchConnections' /\ (Onward => LInv')
<1>1. DropConns(K) /\ FreeClients(Closed(K)) /\ cstate' = CstateAfter(K)
  BY DEF Teardown
<1>2. K \in SUBSET Conns
  BY DEF Open
<1>3. Types'
  BY <1>1, <1>2, TearsDown, Reset DEF LInv, Types
<1>4. Gone(K) /\ LetGo(K)
  BY <1>1, TearsDown
<1>5. Wire'
  BY <1>4, WireReset
<1>6. \A k \in Open \ K : dstate'[k[1]] = "ACTIVE"
  BY DEF LInv, ClientsMatchConnections
<1>7. ClientsMatchConnections'
  BY <1>4, <1>6, Torn DEF LInv
<1>8. Onward => LInv'
  BY <1>3, <1>4, <1>5, <1>6, Settled
<1> QED BY <1>3, <1>5, <1>7, <1>8

LEMMA StartKeeps ==
  ASSUME LInv, NEW c \in Clients, NEW d \in Devices, NEW tag, StartConnect(c, d, tag),
         cstate[c] = "COMMAND", dstate[d] = "ACTIVE", pc = "clients", pc' = pc,
         inq' \in [Clients -> Seq(Asked)], asked' = asked
  PROVE  LInv'
<1> DEFINE found == FindSport(d)
           k     == <<d, found.sport>>
<1>1. /\ found.sport \in Ports /\ found.next \in Ports
      /\ found.sport # 0 => k \notin Open
  <2>1. next_sport[d] \in Ports
    BY DEF LInv, Types
  <2> QED BY <2>1, FindSportFree
<1>2. k \in Conns
  BY <1>1 DEF Conns
<1>3. next_sport' = [next_sport EXCEPT ![d] = found.next] /\ UNCHANGED <<dstate, toHost>>
  BY DEF StartConnect
<1>4. next_sport' \in [Devices -> Ports]
  <2> HIDE DEF found
  <2> QED BY <1>1, <1>3 DEF LInv, Types
<1>5. CASE UNCHANGED <<cstate, connect_device, connVars, remote, lost>>
  <2>1. Types'
    BY <1>3, <1>4, <1>5 DEF LInv, Types, connVars
  <2>2. LetGo({})
    BY <1>5 DEF LetGo
  <2> QED BY <1>3, <1>5, <2>1, <2>2, Quiet DEF Onward, connVars, wireVars
<1>6. CASE /\ found.sport # 0
           /\ state' = [state EXCEPT ![k] = "CONNECTING"]
           /\ client' = [client EXCEPT ![k] = c]
           /\ remote' = [remote EXCEPT ![k] = "SYN"] /\ lost' = lost \ {k}
           /\ connect_device' = [connect_device EXCEPT ![c] = d]
           /\ cstate' = [cstate EXCEPT ![c] = "CONNECTING1"]
  <2>0. k \notin Open /\ k[1] = d
    BY <1>1, <1>6
  <2> HIDE DEF found, k
  <2>1. /\ state'[k] = "CONNECTING" /\ client'[k] = c /\ remote'[k] = "SYN"
        /\ cstate'[c] = "CONNECTING1" /\ connect_device'[c] = d
        /\ \A l \in Conns \ {k} : /\ state'[l] = state[l] /\ client'[l] = client[l]
                                   /\ remote'[l] = remote[l]
        /\ \A b \in Clients \ {c} : /\ cstate'[b] = cstate[b]
                                     /\ connect_device'[b] = connect_device[b]
    BY <1>2, <1>6 DEF LInv, Types
  <2>2. Types'
    BY <1>2, <1>3, <1>4, <1>6 DEF LInv, Types, ConnStates, ClientStates
  <2>3. Open' = Open \cup {k}
    BY <1>2, <2>1 DEF Open
  <2>4. \A l \in Open : l \in Conns \ {k} /\ client[l] \in Clients \ {c}
    <3>1. \A l \in Open : l \in Conns /\ state[l] \in {"CONNECTING", "CONNECTED"}
      BY DEF Open, LInv, Types, ConnStates
    <3> QED BY <2>0, <3>1 DEF LInv, ClientsMatchConnections
  <2>5. ClientsMatchConnections'
    <3>1. \A l \in Open' :
            /\ dstate'[l[1]] = "ACTIVE"
            /\ client'[l] \in Clients
            /\ connect_device'[client'[l]] = l[1]
            /\ state'[l] = "CONNECTING" => cstate'[client'[l]] = "CONNECTING1"
            /\ state'[l] = "CONNECTED"  => cstate'[client'[l]] \in {"CONNECTING2", "CONNECTED"}
      <4> SUFFICES ASSUME NEW l \in Open'
                   PROVE /\ dstate'[l[1]] = "ACTIVE"
                         /\ client'[l] \in Clients
                         /\ connect_device'[client'[l]] = l[1]
                         /\ state'[l] = "CONNECTING" => cstate'[client'[l]] = "CONNECTING1"
                         /\ state'[l] = "CONNECTED"  => cstate'[client'[l]] \in {"CONNECTING2", "CONNECTED"}
        OBVIOUS
      <4>1. CASE l = k
        BY <1>3, <2>0, <2>1, <4>1
      <4>2. CASE l # k
        <5>1. l \in Open
          BY <2>3, <4>2
        <5>2. l \in Conns \ {k} /\ client[l] \in Clients \ {c}
          BY <2>4, <5>1
        <5>3. /\ state'[l] = state[l] /\ client'[l] = client[l]
              /\ cstate'[client[l]] = cstate[client[l]]
              /\ connect_device'[client[l]] = connect_device[client[l]]
          BY <2>1, <5>2
        <5>4. /\ dstate[l[1]] = "ACTIVE" /\ connect_device[client[l]] = l[1]
              /\ state[l] = "CONNECTING" => cstate[client[l]] = "CONNECTING1"
              /\ state[l] = "CONNECTED"  => cstate[client[l]] \in {"CONNECTING2", "CONNECTED"}
          BY <5>1 DEF LInv, ClientsMatchConnections
        <5> QED BY <1>3, <5>2, <5>3, <5>4
      <4> QED BY <4>1, <4>2
    <3>2. \A l, n \in Open' : client'[l] = client'[n] => l = n
      BY <2>1, <2>3, <2>4 DEF LInv, ClientsMatchConnections
    <3>3. ASSUME NEW b \in Clients, cstate'[b] \in Bound PROVE \E l \in Open' : client'[l] = b
      <4>1. CASE b = c
        BY <2>1, <2>3, <4>1
      <4>2. CASE b # c
        <5>1. PICK l \in Open : client[l] = b
          BY <2>1, <3>3, <4>2 DEF LInv, ClientsMatchConnections, Bound
        <5> QED BY <2>1, <2>3, <2>4, <5>1
      <4> QED BY <4>1, <4>2
    <3> QED BY <3>1, <3>2, <3>3 DEF ClientsMatchConnections, Bound
  <2>6. Wire'
    <3>1. WireHeld
      BY <1>3, <1>6, <2>1 DEF WireHeld
    <3> QED BY <3>1, WireKept DEF LInv
  <2>7. ShutdownLeavesNothing'
    BY DEF ShutdownLeavesNothing
  <2> QED BY <2>2, <2>5, <2>6, <2>7 DEF LInv
<1>7. \/ UNCHANGED <<cstate, connect_device, connVars, remote, lost>>
      \/ /\ found.sport # 0
         /\ state' = [state EXCEPT ![k] = "CONNECTING"]
         /\ client' = [client EXCEPT ![k] = c]
         /\ remote' = [remote EXCEPT ![k] = "SYN"] /\ lost' = lost \ {k}
         /\ connect_device' = [connect_device EXCEPT ![c] = d]
         /\ cstate' = [cstate EXCEPT ![c] = "CONNECTING1"]
  BY DEF StartConnect
<1> QED BY <1>5, <1>6, <1>7

LEMMA SendKeeps == ASSUME LInv, NEW c \in Clients, ProcessSend(c) PROVE LInv'
<1>1. CASE capp[c] = "CLOSED"
  BY <1>1, CloseKeeps DEF ProcessSend
<1>2. CASE capp[c] # "CLOSED"
  <2>1. /\ \/ cstate' = cstate
           \/ /\ cstate[c] = "CONNECTING2"
              /\ cstate' = [cstate EXCEPT ![c] = "CONNECTED"]
        /\ UNCHANGED <<pc, connect_device, dstate, next_sport, state, client, wireVars, inq, asked>>
    BY <1>2 DEF ProcessSend, LInv, Types, devVars, connVars
  <2>2. Types'
    BY <2>1 DEF LInv, Types, ClientStates, wireVars
  <2>3. LetGo({})
    BY <2>1 DEF LetGo, LInv, Types
  <2> QED BY <2>1, <2>2, <2>3, Quiet DEF Onward
<1> QED BY <1>1, <1>2

LEMMA RecvKeeps ==
  ASSUME LInv, NEW c \in Clients, ProcessRecv(c), pc = "clients" PROVE LInv'
<1>1. CASE inq[c] = <<>> \/ cstate[c] = "CONNECTING2" \/ Head(inq[c]).op = "OVERSIZE"
  BY <1>1, CloseKeeps DEF ProcessRecv
<1>2. CASE ~(inq[c] = <<>> \/ cstate[c] = "CONNECTING2" \/ Head(inq[c]).op = "OVERSIZE")
  <2> DEFINE m == Head(inq[c])
  <2>1. Tail(inq[c]) \in Seq(Asked) /\ m \in Asked
    <3>1. inq[c] \in Seq(Asked) /\ inq[c] # <<>>
      BY <1>2 DEF LInv, Types
    <3> QED BY <3>1, TailAt
  <2>2. \/ Undefined("use_after_free")
        \/ Undefined("uninitialised")
        \/ /\ cstate[c] = "COMMAND"
           /\ Execute(c, m)
           /\ inq' = [inq EXCEPT ![c] = Tail(@)]
           /\ UNCHANGED <<pc, asked>>
    BY <1>2 DEF ProcessRecv
  <2>3. CASE Undefined("use_after_free") \/ Undefined("uninitialised")
    BY <2>3, Fault
  <2>4. CASE /\ cstate[c] = "COMMAND"
             /\ Execute(c, m)
             /\ inq' = [inq EXCEPT ![c] = Tail(@)]
             /\ UNCHANGED <<pc, asked>>
    <3>1. inq' \in [Clients -> Seq(Asked)]
      BY <2>1, <2>4 DEF LInv, Types
    <3>2. CASE /\ UNCHANGED <<connect_device, devVars, connVars, wireVars>>
               /\ \/ cstate' = cstate
                  \/ cstate' = [cstate EXCEPT ![c] = "LISTEN"]
      <4>1. Types'
        BY <2>4, <3>1, <3>2 DEF LInv, Types, ClientStates, devVars, connVars, wireVars
      <4>2. LetGo({})
        BY <2>4, <3>2 DEF LetGo, Bound, LInv, Types
      <4> QED BY <2>4, <3>2, <4>1, <4>2, Quiet DEF Onward, devVars, connVars
    <3>3. CASE /\ m.op = "CONNECT" /\ dstate[m.dev] = "ACTIVE"
               /\ StartConnect(c, m.dev, m.tag)
      <4>1. m.dev \in Devices
        BY <2>1, <3>3 DEF Asked, Ops
      <4> HIDE DEF m
      <4> QED BY <2>4, <3>1, <3>3, <4>1, StartKeeps
    <3>4. \/ /\ UNCHANGED <<connect_device, devVars, connVars, wireVars>>
             /\ \/ cstate' = cstate
                \/ cstate' = [cstate EXCEPT ![c] = "LISTEN"]
          \/ /\ m.op = "CONNECT" /\ dstate[m.dev] = "ACTIVE"
             /\ StartConnect(c, m.dev, m.tag)
      <4> HIDE DEF m
      <4> QED BY <2>4 DEF Execute, clientVars
    <3> QED BY <3>2, <3>3, <3>4
  <2> QED BY <2>2, <2>3, <2>4
<1> QED BY <1>1, <1>2

LEMMA TunnelKeeps == ASSUME LInv, NEW c \in Clients, DeviceClientProcess(c) PROVE LInv'
<1>1. UNCHANGED <<pc, dstate, next_sport, toHost, inq, asked>>
  BY DEF DeviceClientProcess, devVars, appVars
<1>2. CASE UNCHANGED <<clientVars, connVars, remote, lost>>
  <2>1. UNCHANGED objects
    BY <1>1, <1>2 DEF objects, clientVars, connVars
  <2> QED BY <1>1, <2>1, Same DEF Onward, LInv, Types
<1>3. CASE \E k \in ConnsOf(c) : Abandon(k)
  <2>1. PICK k \in ConnsOf(c) : Teardown({k}) /\ SendRst({k})
    BY <1>3 DEF Abandon
  <2>2. {k} \in SUBSET Open
    BY DEF ConnsOf
  <2>3. pc' \in {"poll", "usb", "clients", "drain", "exited"}
    BY <1>1 DEF LInv, Types
  <2> QED BY <1>1, <2>1, <2>2, <2>3, AbandonKeeps DEF Onward
<1> QED BY <1>2, <1>3 DEF DeviceClientProcess

LEMMA ProcessKeeps == ASSUME LInv, NEW c \in Clients, ClientProcess(c) PROVE LInv'
<1>1. CASE UNCHANGED <<pc, fault, clientVars, devVars, connVars, wireVars, appVars>>
  <2>1. UNCHANGED <<pc, objects>>
    BY <1>1 DEF objects, clientVars, devVars, connVars, wireVars, appVars
  <2> QED BY <2>1, Same DEF Onward, LInv, Types
<1> QED BY <1>1, TunnelKeeps, RecvKeeps, SendKeeps DEF ClientProcess

-----------------------------------------------------------------------------
(***************************************************************************)
(* The USB side and the device.                                            *)
(***************************************************************************)
LEMMA AddKeeps == ASSUME LInv, NEW d \in Devices, DeviceAdd(d) PROVE LInv'
<1>1. UNCHANGED <<pc, cstate, connect_device, next_sport, state, client, wireVars, inq, asked>>
  BY DEF DeviceAdd, loopVars, clientVars, connVars, appVars
<1>2. Types' /\ \A e \in Devices : dstate[e] = "ACTIVE" => dstate'[e] = "ACTIVE"
  BY <1>1 DEF DeviceAdd, LInv, Types, DevStates, wireVars
<1>3. LetGo({})
  BY <1>1 DEF LetGo
<1> QED BY <1>1, <1>2, <1>3, Quiet DEF Onward

LEMMA VersionKeeps == ASSUME LInv, NEW d \in Devices, DeviceVersionInput(d) PROVE LInv'
<1>1. UNCHANGED <<pc, cstate, connect_device, next_sport, state, client, wireVars, inq, asked>>
  BY DEF DeviceVersionInput, loopVars, clientVars, connVars, appVars
<1>2. Types' /\ \A e \in Devices : dstate[e] = "ACTIVE" => dstate'[e] = "ACTIVE"
  BY <1>1 DEF DeviceVersionInput, LInv, Types, DevStates, wireVars
<1>3. LetGo({})
  BY <1>1 DEF LetGo
<1> QED BY <1>1, <1>2, <1>3, Quiet DEF Onward

LEMMA WorkerKeeps == ASSUME LInv, NEW d \in Devices, WorkerDone(d) PROVE LInv'
<1>1. UNCHANGED <<pc, objects>>
  BY DEF WorkerDone, objects, loopVars, connVars, wireVars, appVars
<1> QED BY <1>1, Same DEF Onward, LInv, Types

LEMMA TimeoutKeeps == ASSUME LInv, NEW k \in Conns, CheckTimeouts(k) PROVE LInv'
<1>1. /\ Teardown({k}) /\ SendRst({k})
      /\ UNCHANGED <<pc, dstate, next_sport, toHost, inq, asked>>
  BY DEF CheckTimeouts, Abandon, loopVars, devVars, appVars
<1>2. {k} \in SUBSET Open
  BY DEF CheckTimeouts, Open
<1>3. pc' \in {"poll", "usb", "clients", "drain", "exited"}
  BY <1>1 DEF LInv, Types
<1> QED BY <1>1, <1>2, <1>3, AbandonKeeps DEF Onward

\* The two steps of the device's end of a port: a segment goes out, and the end stays
\* or becomes open only if that is no RST.
LEMMA EmitKeeps ==
  ASSUME LInv, NEW k \in Conns, NEW f \in Flags, DevEmits(k, f), NEW r \in {"CLOSED", "OPEN"},
         remote' = [remote EXCEPT ![k] = r], r = "OPEN" => f # "RST"
  PROVE  LInv'
<1>1. UNCHANGED <<pc, cstate, connect_device, dstate, next_sport, state, client, lost, inq, asked>>
  BY DEF DevEmits, loopVars, clientVars, devVars, connVars, appVars
<1>2. toHost' = [toHost EXCEPT ![k[1]] = Append(@, [sport |-> k[2], flags |-> f])]
  BY DEF DevEmits
<1>3. remote'[k] = r /\ \A l \in Conns \ {k} : remote'[l] = remote[l]
  BY DEF LInv, Types
<1>4. Wire' /\ toHost' \in [Devices -> Seq([sport : Ports, flags : Flags])]
  BY <1>1, <1>2, <1>3, WireSent DEF LInv
<1>5. Types'
  BY <1>1, <1>4 DEF LInv, Types
<1>6. LetGo({}) /\ Gone({})
  BY <1>1 DEF LetGo, Gone
<1>7. \A l \in Open \ {} : dstate'[l[1]] = "ACTIVE"
  BY <1>1 DEF LInv, ClientsMatchConnections
<1> QED BY <1>1, <1>4, <1>5, <1>6, <1>7, Settled DEF Onward

LEMMA DeviceKeeps == ASSUME LInv, NEW k \in Conns, DevAnswers(k) \/ DevSends(k) PROVE LInv'
<1>1. CASE DevAnswers(k)
  <2>1. CASE DevEmits(k, "SYNACK") /\ remote' = [remote EXCEPT ![k] = "OPEN"]
    BY <2>1, EmitKeeps DEF Flags
  <2>2. CASE \E f \in {"RST", "FIN"} : DevEmits(k, f) /\ remote' = [remote EXCEPT ![k] = "CLOSED"]
    BY <2>2, EmitKeeps DEF Flags
  <2> QED BY <1>1, <2>1, <2>2 DEF DevAnswers
<1>2. CASE DevSends(k)
  <2>1. CASE DevEmits(k, "ACK") /\ UNCHANGED remote
    <3>1. remote' = [remote EXCEPT ![k] = "OPEN"]
      BY <1>2, <2>1 DEF DevSends, LInv, Types
    <3> QED BY <2>1, <3>1, EmitKeeps DEF Flags
  <2>2. CASE \E f \in {"RST", "FIN"} : DevEmits(k, f) /\ remote' = [remote EXCEPT ![k] = "CLOSED"]
    BY <2>2, EmitKeeps DEF Flags
  <2> QED BY <1>2, <2>1, <2>2 DEF DevSends
<1> QED BY <1>1, <1>2

\* The SYN|ACK: the connection and its client move together.
LEMMA UpKeeps ==
  ASSUME LInv, NEW k \in Conns, ConnectionUp(k), state[k] = "CONNECTING", Types', Wire',
         UNCHANGED <<pc, dstate>>
  PROVE  LInv'
<1> DEFINE c == client[k]
<1>1. /\ k \in Open /\ c \in Clients /\ cstate[c] = "CONNECTING1"
      /\ connect_device[c] = k[1] /\ dstate[k[1]] = "ACTIVE"
  BY DEF Open, LInv, ClientsMatchConnections
<1>2. /\ state'[k] = "CONNECTED" /\ cstate'[c] = "CONNECTING2"
      /\ UNCHANGED <<client, connect_device>>
      /\ \A l \in Conns \ {k} : state'[l] = state[l]
      /\ \A b \in Clients \ {c} : cstate'[b] = cstate[b]
  BY <1>1 DEF ConnectionUp, LInv, Types
<1>3. Open' = Open
  BY <1>1, <1>2 DEF Open
<1>4. \A l \in Open : l # k => l \in Conns \ {k} /\ client[l] \in Clients \ {c}
  BY <1>1 DEF Open, LInv, ClientsMatchConnections
<1>5. \A l \in Open' :
        /\ dstate'[l[1]] = "ACTIVE"
        /\ client'[l] \in Clients
        /\ connect_device'[client'[l]] = l[1]
        /\ state'[l] = "CONNECTING" => cstate'[client'[l]] = "CONNECTING1"
        /\ state'[l] = "CONNECTED"  => cstate'[client'[l]] \in {"CONNECTING2", "CONNECTED"}
  BY <1>1, <1>2, <1>3, <1>4 DEF LInv, ClientsMatchConnections
<1>6. \A l, n \in Open' : client'[l] = client'[n] => l = n
  BY <1>2, <1>3 DEF LInv, ClientsMatchConnections
<1>7. \A b \in Clients : cstate'[b] \in Bound => \E l \in Open' : client'[l] = b
  BY <1>1, <1>2, <1>3 DEF LInv, ClientsMatchConnections, Bound
<1>8. ClientsMatchConnections'
  BY <1>5, <1>6, <1>7 DEF ClientsMatchConnections, Bound
<1>9. ShutdownLeavesNothing'
  BY <1>1 DEF LInv, ShutdownLeavesNothing
<1> QED BY <1>8, <1>9 DEF LInv

LEMMA InputKeeps == ASSUME LInv, NEW d \in Devices, TcpInput(d) PROVE LInv'
<1> DEFINE m == Head(toHost[d])
           k == <<d, m.sport>>
<1>1. m \in [sport : Ports, flags : Flags]
      /\ Tail(toHost[d]) \in Seq([sport : Ports, flags : Flags]) /\ toHost[d] # <<>>
  <2>1. toHost[d] \in Seq([sport : Ports, flags : Flags]) /\ toHost[d] # <<>>
    BY DEF TcpInput, LInv, Types
  <2> QED BY <2>1, TailAt
<1>2. k \in Conns /\ {k} \in SUBSET Conns
  BY <1>1 DEF Conns
<1>3. CASE Undefined("use_after_free") \/ Undefined("null_dereference")
  BY <1>3, Fault
<1>4. CASE /\ toHost' = [toHost EXCEPT ![d] = Tail(@)]
           /\ UNCHANGED <<loopVars, devVars, appVars>>
           /\ \/ /\ state[k] = "NONE" /\ remote' = [remote EXCEPT ![k] = "CLOSED"]
                 /\ UNCHANGED <<clientVars, connVars, lost>>
              \/ /\ state[k] # "NONE" \/ m.flags = "RST"
                 /\ UNCHANGED <<clientVars, connVars, remote, lost>>
              \/ /\ state[k] = "CONNECTING" /\ ConnectionUp(k)
              \/ /\ state[k] # "NONE" /\ Abandon(k)
              \/ /\ state[k] # "NONE" /\ m.flags = "RST"
                 /\ Teardown({k}) /\ UNCHANGED <<remote, lost>>
  <2>1. /\ toHost' \in [Devices -> Seq([sport : Ports, flags : Flags])]
        /\ UNCHANGED <<pc, dstate, next_sport, inq, asked>>
    BY <1>1, <1>4 DEF LInv, Types, loopVars, devVars, appVars
  <2>m. k = <<d, Head(toHost[d]).sport>> /\ m = Head(toHost[d])
    OBVIOUS
  <2>t. Types /\ Wire
    BY DEF LInv
  <2>h. toHost[d] # <<>> /\ toHost' = [toHost EXCEPT ![d] = Tail(@)]
    BY <1>1, <1>4
  <2> HIDE DEF m, k
  <2>o. Onward
    BY <2>1 DEF Onward
  \* A step that takes nothing from the list of connections.
  <2>q. ASSUME UNCHANGED <<clientVars, connVars>>, Wire',
               remote' \in [Conns -> {"CLOSED", "SYN", "OPEN"}], lost' \subseteq Conns
        PROVE  LInv'
    <3>1. UNCHANGED <<cstate, connect_device, state, client>>
      BY <2>q DEF clientVars, connVars
    <3>2. Types'
      BY <2>1, <2>q, <3>1 DEF LInv, Types
    <3>3. LetGo({}) /\ Gone({})
      BY <3>1 DEF LetGo, Gone
    <3>4. \A l \in Open \ {} : dstate'[l[1]] = "ACTIVE"
      BY <2>1 DEF LInv, ClientsMatchConnections
    <3> QED BY <2>o, <2>q, <3>2, <3>3, <3>4, Settled
  <2>2. CASE /\ state[k] = "NONE" /\ remote' = [remote EXCEPT ![k] = "CLOSED"]
             /\ UNCHANGED <<clientVars, connVars, lost>>
    <3>1. /\ remote' \in [Conns -> {"CLOSED", "SYN", "OPEN"}] /\ lost' \subseteq Conns
          /\ \A l \in Conns \ {k} : remote'[l] = remote[l] /\ (l \in lost => l \in lost')
          /\ remote'[k] = "CLOSED"
      BY <1>2, <2>2 DEF LInv, Types
    <3>2. SegmentTaken(d, k)
      BY <2>h, <2>m, <2>2, <3>1 DEF SegmentTaken, connVars
    <3>3. Wire'
      BY <1>2, <2>t, <3>2, WireTaken
    <3> QED BY <2>q, <2>2, <3>1, <3>3
  <2>3. CASE /\ state[k] # "NONE" \/ m.flags = "RST"
             /\ UNCHANGED <<clientVars, connVars, remote, lost>>
    <3>0. SegmentTaken(d, k)
      BY <2>h, <2>m, <2>3 DEF SegmentTaken, connVars
    <3>1. Wire'
      BY <1>2, <2>t, <3>0, WireTaken
    <3>2. remote' \in [Conns -> {"CLOSED", "SYN", "OPEN"}] /\ lost' \subseteq Conns
      BY <2>3 DEF LInv, Types
    <3> QED BY <2>q, <2>3, <3>1, <3>2
  <2>4. CASE state[k] = "CONNECTING" /\ ConnectionUp(k)
    <3>1. /\ state' = [state EXCEPT ![k] = "CONNECTED"]
          /\ cstate' = [cstate EXCEPT ![client[k]] = "CONNECTING2"]
          /\ UNCHANGED <<client, connect_device, remote, lost>>
      BY <2>4 DEF ConnectionUp
    <3>2. Types'
      BY <1>2, <2>1, <3>1 DEF LInv, Types, ConnStates, ClientStates
    <3>3. state'[k] # "NONE" /\ \A l \in Conns \ {k} : state'[l] = state[l]
      BY <1>2, <3>1 DEF LInv, Types
    <3>4. SegmentTaken(d, k)
      BY <2>h, <2>m, <3>1, <3>3 DEF SegmentTaken
    <3>5. Wire'
      BY <1>2, <2>t, <3>4, WireTaken
    <3> QED BY <1>2, <2>1, <2>4, <3>2, <3>5, UpKeeps
  <2>5. ASSUME state[k] # "NONE", Teardown({k}),
               remote' \in [Conns -> {"CLOSED", "SYN", "OPEN"}], lost' \subseteq Conns,
               \A l \in Conns \ {k} : remote'[l] = remote[l] /\ (l \in lost => l \in lost'),
               \/ remote'[k] = "CLOSED"
               \/ remote'[k] = remote[k] /\ k \in lost'
               \/ /\ remote'[k] = remote[k] /\ (k \in lost => k \in lost')
                  /\ Head(toHost[d]).flags = "RST" \/ state'[k] # "NONE"
        PROVE  LInv'
    <3>1. {k} \in SUBSET Open
      BY <1>2, <2>5 DEF Open
    <3>2. DropConns({k}) /\ FreeClients(Closed({k})) /\ cstate' = CstateAfter({k})
      BY <2>5 DEF Teardown
    <3>3. Types' /\ Gone({k}) /\ LetGo({k})
      BY <2>1, <2>5, <3>1, <3>2, TearsDown DEF LInv, Types
    <3>4. \A l \in Conns \ {k} : /\ remote'[l] = remote[l]
                                 /\ l \in lost => l \in lost'
                                 /\ state'[l] = "NONE" => state[l] = "NONE"
      BY <2>5, <3>3 DEF Gone
    <3>5. SegmentTaken(d, k)
      BY <2>h, <2>m, <2>5, <3>4 DEF SegmentTaken
    <3>6. Wire'
      BY <1>2, <2>t, <3>5, WireTaken
    <3>7. \A l \in Open \ {k} : dstate'[l[1]] = "ACTIVE"
      BY <2>1 DEF LInv, ClientsMatchConnections
    <3> QED BY <2>o, <3>1, <3>3, <3>6, <3>7, Settled
  <2>6. CASE state[k] # "NONE" /\ Abandon(k)
    <3>1. Teardown({k}) /\ SendRst({k})
      BY <2>6 DEF Abandon
    <3> QED BY <1>2, <2>5, <2>6, <3>1, Reset
  <2>7. CASE /\ state[k] # "NONE" /\ m.flags = "RST"
             /\ Teardown({k}) /\ UNCHANGED <<remote, lost>>
    BY <2>5, <2>7, <2>m DEF LInv, Types
  <2> QED BY <1>4, <2>2, <2>3, <2>4, <2>6, <2>7 DEF k, m
<1> QED
  <2> HIDE DEF m, k
  <2>1. k = <<d, Arrives(d).sport>> /\ m = Arrives(d)
    BY DEF k, m, Arrives
  <2> QED BY <1>3, <1>4, <2>1 DEF TcpInput, EndsConnection

LEMMA RemoveKeeps == ASSUME LInv, NEW d \in Devices, DeviceRemove(d) PROVE LInv'
<1> DEFINE K == OfDev(d)
<1>1. CASE Undefined("self_deadlock")
  BY <1>1, Fault
<1>2. CASE ~Undefined("self_deadlock")
  <2>1. /\ DropConns(K) /\ FreeClients(Closed(K)) /\ cstate' = CstateAfter(K)
        /\ dstate' = [dstate EXCEPT ![d] = "FREED"]
        /\ remote' = [k \in Conns |-> IF k[1] = d THEN "CLOSED" ELSE remote[k]]
        /\ toHost' = [toHost EXCEPT ![d] = <<>>]
        /\ UNCHANGED <<pc, next_sport, lost, inq, asked>>
    BY <1>2 DEF DeviceRemove, loopVars, appVars
  <2>2. K \in SUBSET Open
    BY DEF OfDev
  <2>3. <<>> \in Seq([sport : Ports, flags : Flags])
    OBVIOUS
  <2>4. Types' /\ Gone(K) /\ LetGo(K)
    BY <2>1, <2>2, <2>3, TearsDown DEF LInv, Types, DevStates
  <2>5. \A k \in Open \ K : dstate'[k[1]] = "ACTIVE"
    BY <2>1 DEF OfDev, Open, Conns, LInv, Types, ClientsMatchConnections
  <2>6. \A k \in Conns : remote'[k] = "OPEN" =>
          /\ remote[k] = "OPEN" /\ toHost'[k[1]] = toHost[k[1]]
          /\ state'[k] = state[k]
    BY <2>1, <2>4 DEF Gone, OfDev, Conns, LInv, Types
  <2>7. DeviceToldOfTeardown'
    BY <2>1, <2>6 DEF LInv, Wire, DeviceToldOfTeardown, Pending
  <2>8. Stale'
    BY <2>6 DEF LInv, Wire, Stale
  <2> QED BY <2>1, <2>2, <2>4, <2>5, <2>7, <2>8, Settled DEF Onward, Wire
<1> QED BY <1>1, <1>2

-----------------------------------------------------------------------------
(***************************************************************************)
(* The loop.                                                               *)
(***************************************************************************)
LEMMA TurnKeeps == ASSUME LInv, Poll \/ UsbDone \/ TurnDone PROVE LInv'
<1>1. UNCHANGED objects /\ pc' \in {"usb", "clients", "poll"}
  BY DEF Poll, UsbDone, TurnDone, objects, clientVars, devVars, connVars, wireVars, appVars
<1> QED BY <1>1, Same DEF Onward

LEMMA ShutdownKeeps == ASSUME LInv, Shutdown PROVE LInv'
<1>1. /\ Teardown(Open) /\ SendRst(Open) /\ pc' = "drain"
      /\ UNCHANGED <<dstate, next_sport, toHost, inq, asked>>
  BY DEF Shutdown, devVars, appVars
<1>2. Types' /\ Wire' /\ ClientsMatchConnections'
  BY <1>1, AbandonKeeps
<1>3. Open' = {}
  <2>1. Gone(Open)
    BY <1>1 DEF Teardown, DropConns, Gone
  <2> QED BY <2>1, GoneOpen
<1>4. ShutdownLeavesNothing'
  BY <1>2, <1>3 DEF ShutdownLeavesNothing, ClientsMatchConnections
<1> QED BY <1>2, <1>4 DEF LInv

LEMMA ExitKeeps == ASSUME LInv, Exit PROVE LInv'
<1>1. CASE Undefined("self_deadlock")
  BY <1>1, Fault
<1>2. CASE ~Undefined("self_deadlock")
  <2>1. /\ pc = "drain" /\ pc' = "exited"
        /\ cstate' = [c \in Clients |-> IF Live(c) THEN "FREED" ELSE cstate[c]]
        /\ dstate' = [d \in Devices |-> IF dstate[d] = "NEW" THEN "NEW" ELSE "FREED"]
        /\ FreeClients(Clients) /\ DropConns(Conns)
        /\ UNCHANGED <<next_sport, wireVars, inq, asked>>
    BY <1>2 DEF Exit, appVars
  <2>2. Types'
    BY <2>1 DEF LInv, Types, FreeClients, DropConns, ClientStates, DevStates, ConnStates, wireVars
  <2>3. \A k \in Conns : state'[k] = "NONE" /\ state[k] = "NONE"
    BY <2>1 DEF DropConns, LInv, ShutdownLeavesNothing, Open
  <2>4. Open' = {} /\ \A c \in Clients : cstate'[c] \notin Bound
    BY <2>1, <2>3 DEF Open, Live, Bound
  <2>5. Wire'
    <3>1. WireHeld
      BY <2>1, <2>3 DEF WireHeld, wireVars
    <3> QED BY <3>1, WireKept DEF LInv
  <2>6. ClientsMatchConnections' /\ ShutdownLeavesNothing'
    BY <2>4 DEF ClientsMatchConnections, ShutdownLeavesNothing, Bound
  <2> QED BY <2>2, <2>5, <2>6 DEF LInv
<1> QED BY <1>1, <1>2

-----------------------------------------------------------------------------
(***************************************************************************)
(* The theorems.                                                           *)
(***************************************************************************)
LEMMA StepKeeps == ASSUME LInv, [Next]_vars PROVE LInv'
<1>1. ASSUME UNCHANGED vars PROVE LInv'
  <2>1. UNCHANGED <<pc, objects>>
    BY <1>1 DEF vars, objects, loopVars, clientVars, devVars, connVars, wireVars, appVars
  <2> QED BY <2>1, Same DEF Onward, LInv, Types
<1>2. ASSUME NEW c \in Clients, ClientSide(c) PROVE LInv'
  BY <1>2, AcceptKeeps, ProcessKeeps, HangsUpKeeps, AsksKeeps DEF ClientSide
<1>3. ASSUME NEW d \in Devices, DeviceSide(d) PROVE LInv'
  BY <1>3, AddKeeps, VersionKeeps, InputKeeps, RemoveKeeps, WorkerKeeps DEF DeviceSide
<1>4. ASSUME NEW k \in Conns, ConnSide(k) PROVE LInv'
  BY <1>4, TimeoutKeeps, DeviceKeeps DEF ConnSide
<1>5. ASSUME Loop PROVE LInv'
  BY <1>5, TurnKeeps, ShutdownKeeps, ExitKeeps DEF Loop
<1> QED BY <1>1, <1>2, <1>3, <1>4, <1>5 DEF Next

LEMMA LInvHolds == Spec => []LInv
<1>1. Init => LInv
  BY InitHolds
<1>2. LInv /\ [Next]_vars => LInv'
  BY StepKeeps
<1> QED BY <1>1, <1>2, PTL DEF Spec

\* client_close, device_remove, connection_teardown and device_start_connect keep the
\* two halves of every connection in step, for any number of clients, devices, ports
\* and requests: none is left with a pointer to a structure that has been freed.
THEOREM ConnectionsMatch == Spec => []ClientsMatchConnections
<1>1. LInv => ClientsMatchConnections
  BY DEF LInv
<1> QED BY <1>1, LInvHolds, PTL

\* Whichever way connection_teardown is reached, and however often find_sport gives a
\* source port out again, the device learns that its half of a connection is of no
\* more use: a RST has gone out, could not be sent, or will answer what is under way.
THEOREM DeviceTold == Spec => []DeviceToldOfTeardown
<1>1. LInv => DeviceToldOfTeardown
  BY DEF LInv, Wire
<1> QED BY <1>1, LInvHolds, PTL

\* After device_kill_connections no handler sets up a connection or finds a client
\* bound to one, so that usb_shutdown, device_shutdown and client_shutdown tear none
\* down while they hold device_list_mutex.
THEOREM NothingAfterKill == Spec => []ShutdownLeavesNothing
<1>1. LInv => ShutdownLeavesNothing
  BY DEF LInv
<1> QED BY <1>1, LInvHolds, PTL

-----------------------------------------------------------------------------
(***************************************************************************)
(* What a waiting client waits for.  AnswerToCome is inductive with the    *)
(* types: a handler either leaves a connection that is being set up, its   *)
(* SYN and what is under way alone (CallsKept), or ends the wait.          *)
(***************************************************************************)

\* What is being set up afterwards has just sent its SYN or was being set up before.
CallsKept ==
  \A k \in Conns : state'[k] = "CONNECTING" =>
    \/ remote'[k] = "SYN"
    \/ /\ state[k] = "CONNECTING" /\ remote'[k] = remote[k]
       /\ toHost'[k[1]] = toHost[k[1]]

LEMMA CallsStay == ASSUME AnswerToCome, CallsKept PROVE AnswerToCome'
BY DEF AnswerToCome, CallsKept

\* Connections that are dropped wait for nothing any more.
LEMMA CallsDropped ==
  ASSUME LInv, AnswerToCome, NEW K \in SUBSET Conns, DropConns(K), SendRst(K), toHost' = toHost
  PROVE  AnswerToCome'
<1>1. \A k \in Conns \ K : remote'[k] = remote[k]
  BY Reset
<1>2. CallsKept
  BY <1>1 DEF CallsKept, DropConns
<1> QED BY <1>2, CallsStay

LEMMA CallsAbandoned ==
  ASSUME LInv, AnswerToCome, NEW k \in Conns, Abandon(k), toHost' = toHost
  PROVE  AnswerToCome'
BY CallsDropped DEF Abandon, Teardown

LEMMA CallsClosed ==
  ASSUME LInv, AnswerToCome, NEW c \in Clients, ClientClose(c) PROVE AnswerToCome'
<1>1. CASE cstate[c] = "CONNECTING2" /\ ConnsOf(c) # {}
  BY <1>1, CallsStay DEF ClientClose, Undefined, connVars, wireVars, CallsKept
<1>2. CASE ~(cstate[c] = "CONNECTING2" /\ ConnsOf(c) # {})
  <2>1. ConnsOf(c) \in SUBSET Conns
    BY DEF ConnsOf, Open
  <2> QED BY <1>2, <2>1, CallsDropped DEF ClientClose
<1> QED BY <1>1, <1>2

LEMMA CallsStarted ==
  ASSUME LInv, AnswerToCome, NEW c \in Clients, NEW d \in Devices, NEW tag, StartConnect(c, d, tag)
  PROVE  AnswerToCome'
<1> DEFINE k == <<d, FindSport(d).sport>>
<1>1. \/ UNCHANGED <<connVars, remote>>
      \/ /\ state' = [state EXCEPT ![k] = "CONNECTING"]
         /\ remote' = [remote EXCEPT ![k] = "SYN"]
  BY DEF StartConnect
<1>2. UNCHANGED toHost
  BY DEF StartConnect
<1> HIDE DEF k
<1>3. CallsKept
  BY <1>1, <1>2 DEF CallsKept, connVars, LInv, Types
<1> QED BY <1>3, CallsStay

LEMMA CallsReceived ==
  ASSUME LInv, AnswerToCome, NEW c \in Clients, ProcessRecv(c) PROVE AnswerToCome'
<1> DEFINE m == Head(inq[c])
<1>1. CASE inq[c] = <<>> \/ cstate[c] = "CONNECTING2" \/ m.op = "OVERSIZE"
  BY <1>1, CallsClosed DEF ProcessRecv
<1>2. CASE ~(inq[c] = <<>> \/ cstate[c] = "CONNECTING2" \/ m.op = "OVERSIZE")
  <2>1. \/ \E f : Undefined(f)
        \/ Execute(c, m)
    BY <1>2 DEF ProcessRecv
  <2>2. CASE \E f : Undefined(f)
    BY <2>2, CallsStay DEF Undefined, connVars, wireVars, CallsKept
  <2>3. CASE Execute(c, m)
    <3>1. inq[c] \in Seq(Asked)
      BY DEF LInv, Types
    <3>2. m \in Asked
      BY <1>2, <3>1
    <3>3. CASE m.op = "CONNECT" /\ StartConnect(c, m.dev, m.tag)
      <4>1. m.dev \in Devices
        BY <3>2, <3>3 DEF Asked, Ops
      <4> QED BY <3>3, <4>1, CallsStarted
    <3>4. CASE UNCHANGED <<connVars, wireVars>>
      BY <3>4, CallsStay DEF connVars, wireVars, CallsKept
    <3> QED BY <2>3, <3>3, <3>4 DEF Execute
  <2> QED BY <2>1, <2>2, <2>3
<1> QED BY <1>1, <1>2

LEMMA CallsProcessed ==
  ASSUME LInv, AnswerToCome, NEW c \in Clients, ClientProcess(c) PROVE AnswerToCome'
<1>1. CASE ProcessRecv(c)
  BY <1>1, CallsReceived
<1>2. CASE ProcessSend(c)
  <2>1. CASE ClientClose(c)
    BY <2>1, CallsClosed
  <2>2. CASE UNCHANGED <<connVars, wireVars>>
    BY <2>2, CallsStay DEF connVars, wireVars, CallsKept
  <2> QED BY <1>2, <2>1, <2>2 DEF ProcessSend
<1>3. CASE DeviceClientProcess(c)
  <2>1. toHost' = toHost
    BY <1>3 DEF DeviceClientProcess
  <2>2. CASE UNCHANGED <<connVars, remote>>
    BY <2>1, <2>2, CallsStay DEF connVars, CallsKept
  <2>3. CASE \E k \in ConnsOf(c) : Abandon(k)
    BY <2>1, <2>3, CallsAbandoned DEF ConnsOf, Open
  <2> QED BY <1>3, <2>2, <2>3 DEF DeviceClientProcess
<1>4. CASE UNCHANGED <<connVars, wireVars>>
  BY <1>4, CallsStay DEF connVars, wireVars, CallsKept
<1> QED BY <1>1, <1>2, <1>3, <1>4 DEF ClientProcess

\* A segment that is not for k leaves k's own under way.
LEMMA CallsTail ==
  ASSUME LInv, NEW d \in Devices, toHost[d] # <<>>,
         toHost' = [toHost EXCEPT ![d] = Tail(@)],
         NEW k \in Conns, k # <<d, Head(toHost[d]).sport>>,
         \E i \in 1..Len(toHost[k[1]]) : toHost[k[1]][i].sport = k[2]
  PROVE  \E i \in 1..Len(toHost'[k[1]]) : toHost'[k[1]][i].sport = k[2]
<1>0. k[1] \in Devices /\ k = <<k[1], k[2]>>
  BY DEF Conns
<1>1. CASE k[1] # d
  BY <1>0, <1>1 DEF LInv, Types
<1>2. CASE k[1] = d
  <2> DEFINE q == toHost[d]
  <2>1. q \in Seq([sport : Ports, flags : Flags]) /\ q # <<>> /\ toHost'[d] = Tail(q)
    BY DEF LInv, Types
  <2> HIDE DEF q
  <2>2. PICK i \in 1..Len(q) : q[i].sport = k[2]
    BY <1>2 DEF q
  <2>3. /\ Head(q) = q[1] /\ Len(Tail(q)) = Len(q) - 1 /\ Len(q) \in Nat \ {0}
        /\ \A j \in 1..Len(Tail(q)) : Tail(q)[j] = q[j + 1]
    BY <2>1, TailAt
  <2>4. i # 1
    BY <1>0, <1>2, <2>2, <2>3 DEF q
  <2>5. i - 1 \in 1..Len(Tail(q)) /\ Tail(q)[i - 1] = q[i]
    BY <2>2, <2>3, <2>4
  <2> QED BY <1>2, <2>1, <2>2, <2>5
<1> QED BY <1>1, <1>2

\* device_tcp_input ends the wait of the connection whose segment it takes.
LEMMA CallsTaken ==
  ASSUME LInv, AnswerToCome, NEW d \in Devices, TcpInput(d) PROVE AnswerToCome'
<1> DEFINE m == Head(toHost[d])
           k == <<d, m.sport>>
<1>1. toHost[d] # <<>> /\ m \in [sport : Ports, flags : Flags]
  <2>1. toHost[d] \in Seq([sport : Ports, flags : Flags]) /\ toHost[d] # <<>>
    BY DEF TcpInput, LInv, Types
  <2> QED BY <2>1, TailAt
<1>2. k \in Conns
  BY <1>1 DEF Conns
<1>3. CASE Undefined("use_after_free") \/ Undefined("null_dereference")
  BY <1>3, CallsStay DEF Undefined, connVars, wireVars, CallsKept
<1>4. CASE ~(Undefined("use_after_free") \/ Undefined("null_dereference"))
  <2>1. toHost' = [toHost EXCEPT ![d] = Tail(@)]
    BY <1>4 DEF TcpInput
  <2>2. \/ /\ state[k] = "NONE" /\ remote' = [remote EXCEPT ![k] = "CLOSED"]
           /\ UNCHANGED connVars
        \/ state[k] # "CONNECTING" /\ UNCHANGED <<connVars, remote>>
        \/ ConnectionUp(k)
        \/ Abandon(k)
        \/ Teardown({k}) /\ UNCHANGED remote
    BY <1>4 DEF TcpInput, Arrives, EndsConnection
  <2>3. {k} \in SUBSET Conns
    BY <1>2
  <2> HIDE DEF m, k
  <2>4. state'[k] # "CONNECTING"
    BY <1>2, <2>2 DEF connVars, ConnectionUp, Abandon, Teardown, DropConns, LInv, Types
  <2>5. \A l \in Conns \ {k} : state'[l] = state[l] /\ remote'[l] = remote[l]
    BY <2>2, <2>3, Reset DEF connVars, ConnectionUp, Abandon, Teardown, DropConns, LInv, Types
  <2>6. \A l \in Conns : l # k =>
          ((\E i \in 1..Len(toHost[l[1]]) : toHost[l[1]][i].sport = l[2]) =>
            \E i \in 1..Len(toHost'[l[1]]) : toHost'[l[1]][i].sport = l[2])
    BY <1>1, <2>1, CallsTail DEF k, m
  <2> QED BY <2>4, <2>5, <2>6 DEF AnswerToCome
<1> QED BY <1>3, <1>4

\* The device answers its SYN with a segment for the same port.
LEMMA CallsAnswered ==
  ASSUME LInv, AnswerToCome, NEW k \in Conns, NEW f, DevEmits(k, f), NEW r,
         remote' = [remote EXCEPT ![k] = r]
  PROVE  AnswerToCome'
<1> DEFINE q == toHost[k[1]]
           g == [sport |-> k[2], flags |-> f]
<1>0. k[1] \in Devices /\ state' = state
  BY DEF Conns, DevEmits, connVars
<1>1. q \in Seq([sport : Ports, flags : Flags])
  BY <1>0 DEF LInv, Types
<1>2. /\ toHost'[k[1]] = Append(q, g)
      /\ \A d \in Devices \ {k[1]} : toHost'[d] = toHost[d]
  BY <1>0 DEF DevEmits, LInv, Types
<1>3. /\ Len(q) \in Nat /\ Len(Append(q, g)) = Len(q) + 1
      /\ \A i \in 1..Len(q) : Append(q, g)[i] = q[i]
      /\ Append(q, g)[Len(q) + 1] = g
  BY <1>1
<1>4. \A l \in Conns \ {k} : remote'[l] = remote[l]
  BY DEF LInv, Types
<1>5. g.sport = k[2]
  OBVIOUS
<1>6. Len(q) + 1 \in 1..Len(toHost'[k[1]]) /\ toHost'[k[1]][Len(q) + 1].sport = k[2]
  <2> HIDE DEF q, g
  <2> QED BY <1>2, <1>3, <1>5
<1>7. \A l \in Conns \ {k} :
        (\E i \in 1..Len(toHost[l[1]]) : toHost[l[1]][i].sport = l[2]) =>
          \E i \in 1..Len(toHost'[l[1]]) : toHost'[l[1]][i].sport = l[2]
  <2> SUFFICES ASSUME NEW l \in Conns \ {k}, NEW i \in 1..Len(toHost[l[1]]),
                      toHost[l[1]][i].sport = l[2]
               PROVE  \E j \in 1..Len(toHost'[l[1]]) : toHost'[l[1]][j].sport = l[2]
    OBVIOUS
  <2>1. l[1] \in Devices
    BY DEF Conns
  <2>2. CASE l[1] = k[1]
    <3>1. i \in 1..Len(Append(q, g)) /\ Append(q, g)[i].sport = l[2]
      BY <1>3, <2>2
    <3> HIDE DEF q, g
    <3> QED BY <1>2, <2>2, <3>1
  <2>3. CASE l[1] # k[1]
    BY <1>2, <2>1, <2>3
  <2> QED BY <2>2, <2>3
<1> QED BY <1>0, <1>4, <1>6, <1>7 DEF AnswerToCome

LEMMA CallsDevice ==
  ASSUME LInv, AnswerToCome, NEW k \in Conns, DevAnswers(k) \/ DevSends(k) PROVE AnswerToCome'
<1>1. PICK f \in Flags : DevEmits(k, f) /\ \E r : remote' = [remote EXCEPT ![k] = r]
  <2>1. UNCHANGED remote => remote' = [remote EXCEPT ![k] = remote[k]]
    BY DEF LInv, Types
  <2> QED BY <2>1 DEF DevAnswers, DevSends, Flags
<1> QED BY <1>1, CallsAnswered

LEMMA CallsStep == ASSUME LInv, AnswerToCome, [Next]_vars PROVE AnswerToCome'
<1>1. CASE UNCHANGED <<connVars, wireVars>>
  BY <1>1, CallsStay DEF connVars, wireVars, CallsKept
<1>2. ASSUME NEW c \in Clients, ClientSide(c) PROVE AnswerToCome'
  BY <1>1, <1>2, CallsProcessed DEF ClientSide, ClientAccept, ClientHangsUp, ClientAsks
<1>3. ASSUME NEW d \in Devices, DeviceSide(d) PROVE AnswerToCome'
  <2>1. CASE DeviceRemove(d)
    <3>1. CASE Undefined("self_deadlock")
      BY <1>1, <3>1 DEF Undefined
    <3>2. CASE ~Undefined("self_deadlock")
      <4>1. /\ DropConns(OfDev(d))
            /\ remote' = [k \in Conns |-> IF k[1] = d THEN "CLOSED" ELSE remote[k]]
            /\ toHost' = [toHost EXCEPT ![d] = <<>>]
        BY <2>1, <3>2 DEF DeviceRemove
      <4>2. CallsKept
        BY <4>1 DEF CallsKept, DropConns, OfDev, Open, Conns, LInv, Types
      <4> QED BY <4>2, CallsStay
    <3> QED BY <3>1, <3>2
  <2> QED BY <1>1, <1>3, <2>1, CallsTaken DEF DeviceSide, DeviceAdd, DeviceVersionInput, WorkerDone
<1>4. ASSUME NEW k \in Conns, ConnSide(k) PROVE AnswerToCome'
  BY <1>4, CallsDevice, CallsAbandoned DEF ConnSide, CheckTimeouts
<1>5. ASSUME Loop PROVE AnswerToCome'
  <2>1. CASE Shutdown
    <3>1. Open \in SUBSET Conns
      BY DEF Open
    <3> QED BY <2>1, <3>1, CallsDropped DEF Shutdown, Teardown
  <2>2. CASE Exit
    <3>1. CASE Undefined("self_deadlock")
      BY <1>1, <3>1 DEF Undefined
    <3>2. CASE ~Undefined("self_deadlock")
      BY <2>2, <3>2, CallsStay DEF Exit, DropConns, CallsKept
    <3> QED BY <3>1, <3>2
  <2> QED BY <1>1, <1>5, <2>1, <2>2 DEF Loop, Poll, UsbDone, TurnDone
<1> QED BY <1>1, <1>2, <1>3, <1>4, <1>5 DEF Next, vars

\* No client of start_connect waits for something that will not come: whatever the other
\* clients, the ports used again and the shutdown do, its SYN or a segment for its port
\* is still under way.
THEOREM AnswerStillToCome == Spec => []AnswerToCome
<1>1. Init => AnswerToCome
  BY DEF Init, AnswerToCome
<1>2. LInv /\ AnswerToCome /\ [Next]_vars => AnswerToCome'
  BY CallsStep
<1> QED BY <1>1, <1>2, LInvHolds, PTL DEF Spec
=============================================================================
