-------------------------- MODULE UsbTransportProof --------------------------
(***************************************************************************)
(* Proofs about UsbTransport and MuxReassembly, for any number of devices, *)
(* of receive loops and of transmit transfers.                             *)
(*                                                                         *)
(* TransfersOwned and MuxHasUsb need each other: a device that is not in   *)
(* the list is sent nothing because it has no mux_device, and it has none  *)
(* because usb_disconnect is reached with the mux_device gone.             *)
(*                                                                         *)
(* The packet buffer is followed transfer by transfer: a buffer that has   *)
(* the first i transfers of a packet (Gathered) has the first i + 1 after  *)
(* the next, or hands the packet on.  That this is so for any number of    *)
(* transfers and of packets is by a smallest counterexample (SmallestOf).  *)
(***************************************************************************)
EXTENDS UsbTransport, WellFoundedInduction, TLAPS

-----------------------------------------------------------------------------
PlaceTypes ==
  /\ stage \in {"run", "down"}
  /\ pc \in {"poll", "events", "discover", "walk", "wait", "off"}
  /\ todo \subseteq Devices /\ closing \in Devices \cup {NoDevice}
  /\ closing # NoDevice <=> pc = "wait"

BusTypes ==
  /\ phys \in [Devices -> {"away", "here", "gone"}]
  /\ events \subseteq {"ARRIVED", "LEFT"} \X Devices
  /\ mode \in {"poll", "hotplug", "manual", "blind"} /\ devlist_failures \in 0..(MaxFailures + 1)
  /\ fault \in {"none", "double_free"}

ListTypes ==
  /\ device_list \subseteq Devices /\ alive \subseteq device_list /\ revived \subseteq alive
  /\ mux \in [Devices -> {"NONE", "INIT", "ACTIVE", "REFUSED"}]

TransferTypes ==
  /\ rx \in [Devices -> RxState] /\ tx \in [Devices -> TxState]
  /\ \A d \in Devices : RxCount(d) <= NUM_RX_LOOPS

Owned == TransfersOwned /\ MuxHasUsb
UInv  == PlaceTypes /\ BusTypes /\ ListTypes /\ TransferTypes /\ Owned

LEMMA UInvInitially == ASSUME Init PROVE UInv
<1> USE UsbAssumption
<1>1. PlaceTypes /\ BusTypes /\ ListTypes
  BY DEF Init, PlaceTypes, BusTypes, ListTypes
<1>2. \A d \in Devices : rx[d] = NoRx /\ tx[d] = NoTx /\ mux[d] = "NONE"
  BY DEF Init
<1>3. TransferTypes
  BY <1>2 DEF Init, TransferTypes, RxCount, RxState, TxState, Loops, NoRx, NoTx
<1>4. Owned
  BY <1>2 DEF Owned, TransfersOwned, MuxHasUsb, RxCount, TxCount, NoRx, NoTx
<1> QED BY <1>1, <1>3, <1>4 DEF UInv

\* A transfer that is counted belongs to a device of the list.
LEMMA CountedIsOwned ==
  ASSUME TransferTypes, TransfersOwned, NEW d \in Devices,
         \/ \E k \in {"fly", "cancelled", "again", "lost"} : rx[d][k] > 0
         \/ \E k \in {"fly", "freed"} : tx[d][k] > 0
  PROVE  d \in device_list
<1> SUFFICES ASSUME d \notin device_list PROVE FALSE
  OBVIOUS
<1>1. RxCount(d) = 0 /\ TxCount(d) = 0
  BY DEF TransfersOwned
<1>2. /\ rx[d].fly \in Nat /\ rx[d].cancelled \in Nat /\ rx[d].again \in Nat /\ rx[d].lost \in Nat
      /\ tx[d].fly \in Nat /\ tx[d].freed \in Nat
  BY UsbAssumption DEF TransferTypes, RxState, TxState, Loops
<1>3. rx[d].fly = 0 /\ rx[d].cancelled = 0 /\ rx[d].again = 0 /\ rx[d].lost = 0
  <2>1. rx[d].fly + rx[d].cancelled + rx[d].again + rx[d].lost = 0
    BY <1>1 DEF RxCount
  <2>2. \A w, x, y, z \in Nat : w + x + y + z = 0 => w = 0 /\ x = 0 /\ y = 0 /\ z = 0
    OBVIOUS
  <2> QED BY ONLY <1>2, <2>1, <2>2
<1>4. tx[d].fly = 0 /\ tx[d].freed = 0
  BY <1>1, <1>2 DEF TxCount
<1> QED BY <1>3, <1>4

\* Whatever usb_send does, the transfers stay counted.
LEMMA SentCounted ==
  ASSUME TransferTypes, NEW d \in Devices, NEW t \in SendResults(d)
  PROVE  t \in TxState
<1>1. tx[d] \in TxState
  BY DEF TransferTypes
<1>2. PICK n \in {0, 1, 2} : t = tx[d] \/ t = [tx[d] EXCEPT !.fly = @ + n] \/ t = [tx[d] EXCEPT !.freed = @ + n]
  BY DEF SendResults
<1> QED BY <1>1, <1>2 DEF TxState

\* A step that sends to, or removes, a device of the list.
LEMMA SendKeeps ==
  ASSUME TransferTypes, NEW d \in Devices, NEW t \in SendResults(d), d \in device_list,
         tx' = [tx EXCEPT ![d] = t], rx' = rx, device_list' = device_list
  PROVE  TransferTypes' /\ (TransfersOwned => TransfersOwned')
<1>1. t \in TxState
  BY SentCounted
<1>2. \A e \in Devices : RxCount(e)' = RxCount(e)
  BY DEF RxCount
<1>3. \A e \in Devices : e # d => TxCount(e)' = TxCount(e)
  BY DEF TxCount, TransferTypes
<1> QED BY <1>1, <1>2, <1>3 DEF TransferTypes, TransfersOwned

-----------------------------------------------------------------------------
(***************************************************************************)
(* Callbacks of transfers.                                                 *)
(***************************************************************************)
LEMMA TxKeeps ==
  ASSUME UInv, NEW d \in Devices, TxDone(d)
  PROVE  UInv'
<1> USE DEF UInv
<1>1. PICK k \in {"fly", "freed"}, ok \in BOOLEAN : TxCallback(d, k, ok)
  BY DEF TxDone
<1>2. CASE k = "freed"
  <2>1. Undefined("double_free")
    BY <1>1, <1>2 DEF TxCallback
  <2>2. UNCHANGED <<phys, events, mode, devlist_failures, device_list, alive, revived, rx, tx, mux,
                    stage, pc, todo, closing>> /\ fault' = "double_free"
    BY <2>1 DEF Undefined, busVars, listVars, xferVars, runVars
  <2>3. PlaceTypes' /\ BusTypes' /\ ListTypes'
    BY <2>2 DEF PlaceTypes, BusTypes, ListTypes
  <2>4. TransferTypes' /\ Owned'
    BY <2>2 DEF TransferTypes, Owned, TransfersOwned, MuxHasUsb, RxCount, TxCount
  <2> QED BY <2>3, <2>4
<1>3. CASE k = "fly"
  <2>1. /\ tx[d].fly > 0 /\ tx' = [tx EXCEPT ![d].fly = @ - 1]
        /\ alive' \subseteq alive /\ revived' \subseteq alive'
        /\ UNCHANGED <<phys, events, mode, devlist_failures, device_list, rx, mux,
                       stage, pc, todo, closing, fault>>
    BY <1>1, <1>3 DEF TxCallback, busVars, runVars
  <2>2. PlaceTypes' /\ BusTypes' /\ ListTypes'
    BY <2>1 DEF PlaceTypes, BusTypes, ListTypes
  <2>3. d \in device_list
    BY <2>1, CountedIsOwned DEF Owned
  <2>4. tx' \in [Devices -> TxState]
    BY <2>1 DEF TransferTypes, TxState
  <2>5. TransferTypes'
    BY <2>1, <2>4 DEF TransferTypes, RxCount
  <2>6. \A e \in Devices : e # d => tx'[e] = tx[e]
    BY <2>1 DEF TransferTypes
  <2>7. Owned'
    BY <2>1, <2>3, <2>6 DEF Owned, TransfersOwned, MuxHasUsb, RxCount, TxCount
  <2> QED BY <2>2, <2>5, <2>7
<1> QED BY <1>2, <1>3

\* A receive transfer changes its kind or leaves the collection.
LEMMA RxMoves ==
  ASSUME TransferTypes, NEW d \in Devices, NEW k \in {"fly", "cancelled", "again"}, rx[d][k] > 0,
         \/ rx' = [rx EXCEPT ![d] = Resubmitted(d, k)]
         \/ rx' = [rx EXCEPT ![d][k] = @ - 1]
  PROVE  /\ rx' \in [Devices -> RxState]
         /\ \A e \in Devices : RxCount(e)' <= NUM_RX_LOOPS
         /\ \A e \in Devices : e # d => rx'[e] = rx[e]
<1> DEFINE r == [rx[d] EXCEPT ![k] = @ - 1]
<1>1. /\ rx[d] \in RxState /\ NUM_RX_LOOPS \in Nat
      /\ rx[d].fly + rx[d].cancelled + rx[d].again + rx[d].lost <= NUM_RX_LOOPS
  BY UsbAssumption DEF TransferTypes, RxCount
<1>2. r \in RxState /\ r.fly + r.cancelled + r.again + r.lost + 1 <= NUM_RX_LOOPS
  BY <1>1 DEF RxState, Loops
<1>3. \A x \in {"fly", "again", "lost"} :
        LET s == [r EXCEPT ![x] = @ + 1]
        IN  s \in RxState /\ s.fly + s.cancelled + s.again + s.lost <= NUM_RX_LOOPS
  <2> HIDE DEF r
  <2> QED BY <1>1, <1>2 DEF RxState, Loops
<1>4. PICK s \in RxState : rx' = [rx EXCEPT ![d] = s] /\ s.fly + s.cancelled + s.again + s.lost <= NUM_RX_LOOPS
  <2>1. CASE rx' = [rx EXCEPT ![d] = Resubmitted(d, k)]
    <3>1. \E x \in {"fly", "again", "lost"} : Resubmitted(d, k) = [r EXCEPT ![x] = @ + 1]
      BY DEF Resubmitted
    <3> QED BY <2>1, <1>3, <3>1
  <2>2. CASE rx' = [rx EXCEPT ![d][k] = @ - 1]
    <3>1. rx' = [rx EXCEPT ![d] = r]
      BY <2>2
    <3>2. r.fly + r.cancelled + r.again + r.lost <= NUM_RX_LOOPS
      <4> HIDE DEF r
      <4> QED BY <1>1, <1>2 DEF RxState, Loops
    <3> QED BY <1>2, <3>1, <3>2
  <2> QED BY <2>1, <2>2
<1>5. rx'[d] = s /\ \A e \in Devices : e # d => rx'[e] = rx[e]
  BY <1>4 DEF TransferTypes
<1>6. \A e \in Devices : RxCount(e)' <= NUM_RX_LOOPS
  BY <1>4, <1>5 DEF TransferTypes, RxCount
<1>7. rx' \in [Devices -> RxState]
  BY <1>4 DEF TransferTypes
<1> QED BY <1>5, <1>6, <1>7

\* What device_data_input does to the mux_device and to the transmit transfers.
LEMMA InputKeeps ==
  ASSUME UInv, NEW d \in Devices, d \in device_list, DataInput(d), closing' = closing,
         device_list' = device_list
  PROVE  /\ mux' \in [Devices -> {"NONE", "INIT", "ACTIVE", "REFUSED"}]
         /\ tx' \in [Devices -> TxState]
         /\ \A e \in Devices : e # d => tx'[e] = tx[e]
         /\ MuxHasUsb'
<1> USE DEF UInv
<1>1. CASE UNCHANGED <<mux, tx>>
  BY <1>1 DEF ListTypes, TransferTypes, Owned, MuxHasUsb
<1>2. CASE mux[d] = "INIT" /\ mux' = [mux EXCEPT ![d] = "REFUSED"] /\ UNCHANGED tx
  BY <1>2 DEF ListTypes, TransferTypes, Owned, MuxHasUsb
<1>3. CASE /\ mux[d] \in {"INIT", "ACTIVE"} /\ mux' = [mux EXCEPT ![d] = "ACTIVE"]
           /\ \E t \in SendResults(d) : tx' = [tx EXCEPT ![d] = t]
  <2>1. PICK t \in SendResults(d) : tx' = [tx EXCEPT ![d] = t]
    BY <1>3
  <2>2. t \in TxState
    BY SentCounted
  <2> QED BY <1>3, <2>1, <2>2 DEF ListTypes, TransferTypes, Owned, MuxHasUsb
<1> QED BY <1>1, <1>2, <1>3 DEF DataInput

LEMMA RxKeeps ==
  ASSUME UInv, NEW d \in Devices, RxDone(d)
  PROVE  UInv'
<1> USE DEF UInv
<1>1. PICK k \in {"fly", "cancelled", "again"} : RxData(d, k) \/ RxFails(d, k)
  BY DEF RxDone, RxEnds
<1>2. /\ rx[d][k] > 0 /\ alive' \subseteq alive /\ revived' \subseteq alive'
      /\ UNCHANGED <<phys, events, mode, devlist_failures, device_list, stage, pc, todo, closing, fault>>
      /\ rx' = [rx EXCEPT ![d] = Resubmitted(d, k)] \/ rx' = [rx EXCEPT ![d][k] = @ - 1]
  BY <1>1 DEF RxData, RxFails, ListTypes, busVars, listVars, runVars
<1>3. d \in device_list
  BY <1>2, CountedIsOwned DEF Owned
<1>4. /\ mux' \in [Devices -> {"NONE", "INIT", "ACTIVE", "REFUSED"}]
      /\ tx' \in [Devices -> TxState]
      /\ \A e \in Devices : e # d => tx'[e] = tx[e]
      /\ MuxHasUsb'
  <2>1. CASE RxData(d, k)
    BY <2>1, <1>2, <1>3, InputKeeps DEF RxData
  <2>2. CASE RxFails(d, k)
    BY <2>2, <1>2 DEF RxFails, ListTypes, TransferTypes, Owned, MuxHasUsb
  <2> QED BY <1>1, <2>1, <2>2
<1>5. /\ rx' \in [Devices -> RxState]
      /\ \A e \in Devices : RxCount(e)' <= NUM_RX_LOOPS
      /\ \A e \in Devices : e # d => rx'[e] = rx[e]
  BY <1>2, RxMoves
<1>6. PlaceTypes' /\ BusTypes' /\ ListTypes'
  BY <1>2, <1>4 DEF PlaceTypes, BusTypes, ListTypes
<1>7. TransferTypes'
  BY <1>4, <1>5 DEF TransferTypes
<1>8. TransfersOwned'
  BY <1>2, <1>3, <1>4, <1>5 DEF Owned, TransfersOwned, RxCount, TxCount
<1> QED BY <1>4, <1>6, <1>7, <1>8 DEF Owned

-----------------------------------------------------------------------------
(***************************************************************************)
(* Devices come and go.                                                    *)
(***************************************************************************)
\* usb_device_add, while no device is being disconnected or for one it knows.
LEMMA AddKeeps ==
  ASSUME UInv, NEW d \in Devices, closing' = closing,
         (AddNew(d) /\ closing = NoDevice) \/ AddKnown(d) \/ AddFails(d)
  PROVE  ListTypes' /\ TransferTypes' /\ Owned'
<1> USE DEF UInv
<1>1. CASE AddKnown(d) \/ AddFails(d)
  <2>1. UNCHANGED <<device_list, rx, tx, mux>> /\ alive' \subseteq alive \cup (device_list \cap {d})
       /\ revived' \subseteq alive'
    BY <1>1 DEF AddKnown, AddFails, ListTypes, listVars, xferVars
  <2>2. ListTypes'
    BY <2>1 DEF ListTypes
  <2>3. TransferTypes' /\ Owned'
    BY <2>1 DEF TransferTypes, Owned, TransfersOwned, MuxHasUsb, RxCount, TxCount
  <2> QED BY <2>2, <2>3
<1>2. CASE AddNew(d) /\ closing = NoDevice
  <2>1. PICK n \in 0..NUM_RX_LOOPS : rx' = [rx EXCEPT ![d] = [NoRx EXCEPT !.fly = n]]
    BY <1>2 DEF AddNew
  <2>2. /\ device_list' = device_list \cup {d} /\ alive' = alive \cup {d} /\ revived' = revived
        /\ mux' = [mux EXCEPT ![d] = "INIT"]
        /\ tx' = [tx EXCEPT ![d] = [NoTx EXCEPT !.fly = 1]]
    BY <1>2 DEF AddNew
  <2>3. ListTypes'
    BY <2>2 DEF ListTypes
  <2>4. /\ rx' \in [Devices -> RxState] /\ tx' \in [Devices -> TxState]
        /\ \A e \in Devices : e # d => rx'[e] = rx[e] /\ tx'[e] = tx[e]
    BY <2>1, <2>2, UsbAssumption DEF TransferTypes, RxState, TxState, Loops, NoRx, NoTx
  <2>5. rx'[d] = [NoRx EXCEPT !.fly = n]
    BY <2>1 DEF TransferTypes
  <2>6. RxCount(d)' <= NUM_RX_LOOPS
    BY <2>5, UsbAssumption DEF RxCount, NoRx
  <2>7. TransferTypes'
    BY <2>4, <2>6 DEF TransferTypes, RxCount
  <2>8. TransfersOwned'
    BY <2>2, <2>4 DEF Owned, TransfersOwned, RxCount, TxCount
  <2>9. MuxHasUsb'
    BY <1>2, <2>2, UsbAssumption DEF ListTypes, Owned, MuxHasUsb
  <2> QED BY <2>3, <2>7, <2>8, <2>9 DEF Owned
<1> QED BY <1>1, <1>2

\* device_remove of a device of the list.
LEMMA RemoveKeeps ==
  ASSUME UInv, NEW d \in Devices, d \in device_list, mux' = MuxRemoved(d), rx' = rx,
         device_list' = device_list,
         \E t \in AfterRemove(d) : tx' = [tx EXCEPT ![d] = t]
  PROVE  /\ mux' \in [Devices -> {"NONE", "INIT", "ACTIVE", "REFUSED"}]
         /\ TransferTypes' /\ TransfersOwned'
<1> USE DEF UInv
<1>1. mux' \in [Devices -> {"NONE", "INIT", "ACTIVE", "REFUSED"}]
  BY DEF MuxRemoved, ListTypes
<1>2. PICK t \in SendResults(d) : tx' = [tx EXCEPT ![d] = t]
  BY DEF AfterRemove, SendResults
<1> QED BY <1>1, <1>2, SendKeeps DEF Owned

LEMMA HotplugKeeps ==
  ASSUME UInv, NEW d \in Devices, Hotplug(d)
  PROVE  UInv'
<1> USE DEF UInv
<1>1. CASE HotplugArrived(d)
  <2>1. /\ UNCHANGED <<phys, mode, devlist_failures, stage, pc, todo, closing, fault>>
        /\ events' \subseteq events
    BY <1>1 DEF HotplugArrived, runVars
  <2>2. PlaceTypes' /\ BusTypes'
    BY <2>1 DEF PlaceTypes, BusTypes
  <2>3. CASE mode = "hotplug"
    <3>1. AddKnown(d) \/ AddFails(d)
      BY <1>1, <2>3 DEF HotplugArrived
    <3> QED BY <2>1, <2>2, <3>1, AddKeeps
  <2>4. CASE mode # "hotplug"
    <3>1. UNCHANGED <<device_list, alive, revived, rx, tx, mux, closing>>
      BY <1>1, <2>1, <2>4 DEF HotplugArrived, listVars, xferVars
    <3>2. ListTypes' /\ TransferTypes' /\ Owned'
      BY <3>1 DEF ListTypes, TransferTypes, Owned, TransfersOwned, MuxHasUsb, RxCount, TxCount
    <3> QED BY <2>2, <3>2
  <2> QED BY <2>3, <2>4
<1>2. CASE HotplugLeft(d)
  <2>1. /\ UNCHANGED <<phys, mode, devlist_failures, device_list, rx, stage, pc, todo, closing, fault>>
        /\ events' \subseteq events /\ alive' \subseteq alive /\ revived' \subseteq alive'
    BY <1>2 DEF HotplugLeft, ListTypes, listVars, runVars
  <2>2. PlaceTypes' /\ BusTypes'
    BY <2>1 DEF PlaceTypes, BusTypes
  <2>3. CASE d \in device_list
    <3>1. mux' = MuxRemoved(d) /\ \E t \in AfterRemove(d) : tx' = [tx EXCEPT ![d] = t]
      BY <1>2, <2>3 DEF HotplugLeft
    <3>2. /\ mux' \in [Devices -> {"NONE", "INIT", "ACTIVE", "REFUSED"}]
          /\ TransferTypes' /\ TransfersOwned'
      BY <2>1, <2>3, <3>1, RemoveKeeps
    <3>3. MuxHasUsb'
      BY <2>1, <3>1 DEF MuxRemoved, ListTypes, Owned, MuxHasUsb
    <3>4. ListTypes'
      BY <2>1, <3>2 DEF ListTypes
    <3> QED BY <2>2, <3>2, <3>3, <3>4 DEF Owned
  <2>4. CASE d \notin device_list
    <3>1. UNCHANGED <<alive, revived, mux, tx>>
      BY <1>2, <2>4 DEF HotplugLeft
    <3>2. ListTypes' /\ TransferTypes' /\ Owned'
      BY <2>1, <3>1 DEF ListTypes, TransferTypes, Owned, TransfersOwned, MuxHasUsb, RxCount, TxCount
    <3> QED BY <2>2, <3>2
  <2> QED BY <2>3, <2>4
<1> QED BY <1>1, <1>2 DEF Hotplug

LEMMA BusKeeps ==
  ASSUME UInv, NEW d \in Devices, Attach(d) \/ Detach(d)
  PROVE  UInv'
<1> USE DEF UInv
<1>1. UNCHANGED <<mode, devlist_failures, device_list, alive, revived, rx, tx, mux, stage, pc, todo, closing, fault>>
  BY DEF Attach, Detach, listVars, xferVars, runVars
<1>2. phys' \in [Devices -> {"away", "here", "gone"}] /\ events' \subseteq {"ARRIVED", "LEFT"} \X Devices
  BY DEF Attach, Detach, Notice, BusTypes
<1>3. PlaceTypes' /\ BusTypes' /\ ListTypes'
  BY <1>1, <1>2 DEF PlaceTypes, BusTypes, ListTypes
<1>4. TransferTypes' /\ Owned'
  BY <1>1 DEF TransferTypes, Owned, TransfersOwned, MuxHasUsb, RxCount, TxCount
<1> QED BY <1>3, <1>4

LEMMA SendPacketKeeps ==
  ASSUME UInv, NEW d \in Devices, SendPacket(d)
  PROVE  UInv'
<1> USE DEF UInv
<1>1. /\ mux[d] = "ACTIVE"
      /\ UNCHANGED <<phys, events, mode, devlist_failures, device_list, alive, revived, rx, mux,
                     stage, pc, todo, closing, fault>>
  BY DEF SendPacket, busVars, listVars, runVars
<1>2. PICK t \in SendResults(d) : tx' = [tx EXCEPT ![d] = t]
  BY DEF SendPacket
<1>3. d \in device_list
  BY <1>1 DEF Owned, MuxHasUsb
<1>4. TransferTypes' /\ TransfersOwned'
  BY <1>1, <1>2, <1>3, SendKeeps DEF Owned
<1>5. PlaceTypes' /\ BusTypes' /\ ListTypes' /\ MuxHasUsb'
  BY <1>1 DEF PlaceTypes, BusTypes, ListTypes, Owned, MuxHasUsb
<1> QED BY <1>4, <1>5 DEF Owned

-----------------------------------------------------------------------------
(***************************************************************************)
(* The thread.                                                             *)
(***************************************************************************)
\* Its steps that touch no transfer and no mux_device.
LEMMA LoopKeeps ==
  ASSUME UInv, Wake \/ EventsDone \/ DiscoverDone \/ WalkDone \/ Stop \/ Discovery
  PROVE  UInv'
<1> USE DEF UInv, Goto, GoDown
<1>1. UNCHANGED <<phys, mode, device_list, rx, tx, mux, closing, fault>>
      /\ alive' \subseteq alive /\ revived' \subseteq alive' /\ events' \subseteq events
  BY DEF Wake, EventsDone, DiscoverDone, WalkDone, Stop, Discovery, Discover, DiscoverFails,
         ListTypes, busVars, listVars, xferVars, runVars
<1>2. pc # "wait" /\ pc' \in {"poll", "events", "discover", "walk", "off"}
  BY DEF Wake, EventsDone, DiscoverDone, WalkDone, Stop, Discovery, Discover, DiscoverFails, Due, runVars, PlaceTypes
<1>3. todo' \subseteq Devices /\ stage' \in {"run", "down"}
  BY DEF Wake, EventsDone, DiscoverDone, WalkDone, Stop, Discovery, Discover, DiscoverFails, runVars, PlaceTypes, ListTypes
<1>4. devlist_failures' \in 0..(MaxFailures + 1)
  BY UsbAssumption DEF Wake, EventsDone, DiscoverDone, WalkDone, Stop, Discovery, Discover, DiscoverFails, BusTypes
<1>5. PlaceTypes' /\ BusTypes' /\ ListTypes'
  BY <1>1, <1>2, <1>3, <1>4 DEF PlaceTypes, BusTypes, ListTypes
<1>6. TransferTypes' /\ Owned'
  BY <1>1 DEF TransferTypes, Owned, TransfersOwned, MuxHasUsb, RxCount, TxCount
<1> QED BY <1>5, <1>6

LEMMA DiscoverAddKeeps ==
  ASSUME UInv, NEW d \in Devices, DiscoverAdd(d)
  PROVE  UInv'
<1> USE DEF UInv
<1>1. /\ pc = "discover" /\ pc' = pc /\ todo' \subseteq todo
      /\ UNCHANGED <<phys, events, mode, devlist_failures, stage, closing, fault>>
  BY DEF DiscoverAdd, Goto, busVars
<1>2. AddNew(d) \/ AddKnown(d) \/ AddFails(d)
  BY DEF DiscoverAdd, UsbDeviceAdd
<1>3. closing = NoDevice
  BY <1>1 DEF PlaceTypes
<1>4. ListTypes' /\ TransferTypes' /\ Owned'
  BY <1>1, <1>2, <1>3, AddKeeps
<1>5. PlaceTypes' /\ BusTypes'
  BY <1>1 DEF PlaceTypes, BusTypes
<1> QED BY <1>4, <1>5

\* usb_disconnect begins: the mux_device goes and the receive transfers are cancelled.
LEMMA DisconnectKeeps ==
  ASSUME UInv, NEW d \in Devices, Disconnect(d)
  PROVE  UInv'
<1> USE DEF UInv
<1>1. /\ pc = "walk" /\ pc' = "wait" /\ closing' = d /\ todo' \subseteq todo
      /\ UNCHANGED <<phys, events, mode, devlist_failures, device_list, alive, revived, stage, fault>>
      /\ mux' = [mux EXCEPT ![d] = "NONE"]
      /\ rx' = [rx EXCEPT ![d] = Cancelled(d)]
  BY DEF Disconnect, Removing, MuxRemoved, busVars, listVars
<1>2. PICK t \in AfterRemove(d) : tx' = [tx EXCEPT ![d] = t]
  BY DEF Disconnect, Removing
<1>3. PlaceTypes' /\ BusTypes' /\ ListTypes'
  BY <1>1, UsbAssumption DEF PlaceTypes, BusTypes, ListTypes
<1>4. closing = NoDevice
  BY <1>1 DEF PlaceTypes
<1>5. MuxHasUsb'
  BY <1>1, <1>4 DEF Owned, MuxHasUsb, ListTypes
<1>6. /\ t \in TxState
      /\ d \notin device_list => t = tx[d]
  <2>1. tx[d] \in SendResults(d)
    BY DEF SendResults
  <2>2. t \in SendResults(d)
    BY <1>2, <2>1 DEF AfterRemove
  <2>3. mux[d] # "ACTIVE" => t = tx[d]
    BY <1>2 DEF AfterRemove
  <2> QED BY <2>2, <2>3, SentCounted DEF Owned, MuxHasUsb
<1>7. /\ tx' \in [Devices -> TxState]
      /\ \A e \in Devices : e # d => tx'[e] = tx[e] /\ rx'[e] = rx[e]
      /\ d \notin device_list => tx'[d] = tx[d]
  BY <1>1, <1>2, <1>6 DEF TransferTypes
<1>8. /\ Cancelled(d) \in RxState
      /\ Cancelled(d).fly + Cancelled(d).cancelled + Cancelled(d).again + Cancelled(d).lost <= RxCount(d)
      /\ RxCount(d) \in Nat /\ NUM_RX_LOOPS \in Nat
      /\ Cancelled(d).fly + Cancelled(d).cancelled + Cancelled(d).again + Cancelled(d).lost \in Nat
  <2>1. rx[d] \in RxState
    BY DEF TransferTypes
  <2>2. NUM_RX_LOOPS \in Nat
    BY UsbAssumption
  <2>3. PICK f, c, a, l \in Loops : rx[d].fly = f /\ rx[d].cancelled = c /\ rx[d].again = a /\ rx[d].lost = l
    BY <2>1 DEF RxState
  <2>4. /\ Cancelled(d).fly = 0 /\ Cancelled(d).cancelled = f
        /\ Cancelled(d).again = a /\ Cancelled(d).lost = l
    BY <2>1, <2>3 DEF Cancelled, RxState
  <2>5. f \in Nat /\ c \in Nat /\ a \in Nat /\ l \in Nat /\ 0 \in Loops
    BY <2>2 DEF Loops
  <2>6. Cancelled(d) \in RxState
    BY <2>1, <2>5 DEF Cancelled, RxState
  <2>7. RxCount(d) = f + c + a + l
    BY <2>3 DEF RxCount
  <2>8. Cancelled(d).fly + Cancelled(d).cancelled + Cancelled(d).again + Cancelled(d).lost = 0 + f + a + l
    BY <2>4
  <2>9. \A w, x, y, z \in Nat : 0 + w + y + z <= w + x + y + z /\ 0 + w + y + z \in Nat /\ w + x + y + z \in Nat
    OBVIOUS
  <2>10. 0 + f + a + l <= f + c + a + l /\ 0 + f + a + l \in Nat /\ f + c + a + l \in Nat
    BY ONLY <2>5, <2>9
  <2>11. /\ Cancelled(d).fly + Cancelled(d).cancelled + Cancelled(d).again + Cancelled(d).lost <= RxCount(d)
         /\ Cancelled(d).fly + Cancelled(d).cancelled + Cancelled(d).again + Cancelled(d).lost \in Nat
         /\ RxCount(d) \in Nat
    BY ONLY <2>7, <2>8, <2>10, Zenon
  <2> QED BY <2>2, <2>6, <2>11
<1>9. rx' \in [Devices -> RxState] /\ rx'[d] = Cancelled(d)
  BY <1>1, <1>8 DEF TransferTypes
<1>10. RxCount(d)' <= RxCount(d) /\ RxCount(d)' \in Nat
  BY <1>8, <1>9 DEF RxCount
<1>11. TransferTypes'
  <2>1. RxCount(d)' <= NUM_RX_LOOPS
    <3>1. \A x, y, z \in Nat : x <= y /\ y <= z => x <= z
      OBVIOUS
    <3> QED BY <1>8, <1>10, <3>1 DEF TransferTypes
  <2> QED BY <1>7, <1>9, <2>1 DEF TransferTypes, RxCount
<1>12. TransfersOwned'
  <2>1. ASSUME d \notin device_list PROVE RxCount(d)' = 0 /\ TxCount(d)' = 0
    <3>1. RxCount(d) = 0 /\ TxCount(d) = 0
      BY <2>1 DEF Owned, TransfersOwned
    <3>2. \A x \in Nat : x <= 0 => x = 0
      OBVIOUS
    <3>3. RxCount(d)' = 0
      BY <1>10, <3>1, <3>2
    <3>4. TxCount(d)' = TxCount(d)
      BY <1>7, <2>1 DEF TxCount
    <3> QED BY <3>1, <3>3, <3>4
  <2>2. \A e \in Devices : e # d => RxCount(e)' = RxCount(e) /\ TxCount(e)' = TxCount(e)
    BY <1>7 DEF RxCount, TxCount
  <2> QED BY <1>1, <2>1, <2>2 DEF Owned, TransfersOwned
<1> QED BY <1>3, <1>5, <1>11, <1>12 DEF Owned

\* usb_disconnect ends: every transfer of the device has been called back.
LEMMA DisconnectDoneKeeps ==
  ASSUME UInv, DisconnectDone
  PROVE  UInv'
<1> USE DEF UInv
<1>1. /\ pc = "wait" /\ pc' = "walk" /\ closing' = NoDevice
      /\ device_list' = device_list \ {closing} /\ alive' = alive \ {closing}
      /\ revived' = revived \ {closing}
      /\ RxCount(closing) = 0 /\ TxCount(closing) = 0
      /\ UNCHANGED <<phys, events, mode, devlist_failures, rx, tx, mux, stage, todo, fault>>
  BY DEF DisconnectDone, CalledBack, busVars, xferVars
<1>2. PlaceTypes' /\ BusTypes' /\ ListTypes'
  BY <1>1 DEF PlaceTypes, BusTypes, ListTypes
<1>3. \A e \in Devices : RxCount(e)' = RxCount(e) /\ TxCount(e)' = TxCount(e)
  BY <1>1 DEF RxCount, TxCount
<1>4. TransferTypes' /\ TransfersOwned'
  BY <1>1, <1>3 DEF TransferTypes, Owned, TransfersOwned
<1>5. MuxHasUsb'
  BY <1>1, UsbAssumption DEF Owned, MuxHasUsb
<1> QED BY <1>2, <1>4, <1>5 DEF Owned

-----------------------------------------------------------------------------
LEMMA UInvKept == UInv /\ [Next]_vars => UInv'
<1> SUFFICES ASSUME UInv, [Next]_vars PROVE UInv'
  OBVIOUS
<1>1. CASE Next
  <2>1. CASE Thread \/ Stop \/ Discovery
    BY <2>1, LoopKeeps, DisconnectDoneKeeps, DisconnectKeeps, DiscoverAddKeeps DEF Thread
  <2>2. CASE \E d \in Devices : \/ SendPacket(d) \/ TxDone(d) \/ RxDone(d) \/ Hotplug(d)
                                \/ Attach(d) \/ Detach(d)
    BY <2>2, SendPacketKeeps, TxKeeps, RxKeeps, HotplugKeeps, BusKeeps
  <2> QED BY <1>1, <2>1, <2>2 DEF Next
<1>2. CASE UNCHANGED vars
  <2>1. UNCHANGED <<phys, events, mode, devlist_failures, device_list, alive, revived, rx, tx, mux,
                    stage, pc, todo, closing, fault>>
    BY <1>2 DEF vars, busVars, listVars, xferVars, runVars
  <2>2. PlaceTypes' /\ BusTypes' /\ ListTypes'
    BY <2>1 DEF UInv, PlaceTypes, BusTypes, ListTypes
  <2>3. TransferTypes' /\ Owned'
    BY <2>1 DEF UInv, TransferTypes, Owned, TransfersOwned, MuxHasUsb, RxCount, TxCount
  <2> QED BY <2>2, <2>3 DEF UInv
<1> QED BY <1>1, <1>2

\* UInv holds throughout: what the rest of this module draws from.
THEOREM UsbInvariant == Spec => []UInv
<1> QED BY UInvInitially, UInvKept, PTL DEF Spec

\* The lists, the transfers and the place of the thread keep their types; in
\* particular a device never has more than NUM_RX_LOOPS transfers in rx_xfers.
THEOREM TypeCorrect == Spec => []TypeOK
<1>1. UInv => TypeOK
  BY DEF UInv, PlaceTypes, BusTypes, ListTypes, TransferTypes, TypeOK
<1> QED BY <1>1, UsbInvariant, PTL

\* No transfer outlives the usb_device its callback writes to (usb.c:74-112).
THEOREM TransfersAreOwned == Spec => []TransfersOwned
<1>1. UInv => TransfersOwned
  BY DEF UInv, Owned
<1> QED BY <1>1, UsbInvariant, PTL

\* No mux_device outlives its usb_device, or is there while it is taken apart,
\* whether the hotplug callback, the reaping or the shutdown removes it.
THEOREM MuxAlwaysHasUsb == Spec => []MuxHasUsb
<1>1. UInv => MuxHasUsb
  BY DEF UInv, Owned
<1> QED BY <1>1, UsbInvariant, PTL

-----------------------------------------------------------------------------
(***************************************************************************)
(* What usb_disconnect waits for: only cancelled transfers and those that  *)
(* rx_callback submitted meanwhile (AllCancelled), and never more of them  *)
(* than there were (NothingAdded), because the device's mux_device is gone.*)
(***************************************************************************)

\* A receive callback takes a transfer away and puts it where its device's state says.
LEMMA RxCallback ==
  ASSUME UInv, AllCancelled, NEW d \in Devices, RxDone(d)
  PROVE  /\ AllCancelled' /\ closing' = closing
         /\ \A e \in Devices : RxCount(e)' <= RxCount(e)
<1> USE DEF UInv
<1>1. PICK k \in {"fly", "cancelled", "again"} : RxData(d, k) \/ RxFails(d, k)
  BY DEF RxDone, RxEnds
<1>2. /\ rx[d][k] > 0 /\ closing' = closing
      /\ rx' = [rx EXCEPT ![d] = Resubmitted(d, k)] \/ rx' = [rx EXCEPT ![d][k] = @ - 1]
  BY <1>1 DEF RxData, RxFails, runVars
<1>3. rx[d] \in RxState
  BY DEF TransferTypes
<1>4. PICK f, c, a, l \in Nat : rx[d].fly = f /\ rx[d].cancelled = c /\ rx[d].again = a /\ rx[d].lost = l
  BY <1>3, UsbAssumption DEF RxState, Loops
<1> DEFINE r == [rx[d] EXCEPT ![k] = @ - 1]
<1>5. /\ rx[d][k] \in Nat
      /\ r.fly = (IF k = "fly" THEN f - 1 ELSE f)
      /\ r.cancelled = (IF k = "cancelled" THEN c - 1 ELSE c)
      /\ r.again = (IF k = "again" THEN a - 1 ELSE a) /\ r.lost = l
      /\ DOMAIN r = {"fly", "cancelled", "again", "lost"}
  BY <1>3, <1>4 DEF RxState
<1>6. \A e \in Devices : e # d => rx'[e] = rx[e]
  BY <1>2, RxMoves
<1>7. IF d = closing THEN f = 0 ELSE c = 0 /\ a = 0
  BY <1>4 DEF AllCancelled
<1>8. k # "fly" => d = closing
  BY <1>2, <1>4, <1>7
<1>9. k = "fly" => d # closing
  BY <1>2, <1>4, <1>7
<1>10. PICK s \in {r, [r EXCEPT !.fly = @ + 1], [r EXCEPT !.again = @ + 1], [r EXCEPT !.lost = @ + 1]} :
         /\ rx'[d] = s
         /\ s = [r EXCEPT !.fly = @ + 1] => d # closing
         /\ s = [r EXCEPT !.again = @ + 1] => d = closing
  <2>1. CASE rx' = [rx EXCEPT ![d] = Resubmitted(d, k)]
    <3>1. rx'[d] = Resubmitted(d, k)
      BY <2>1 DEF TransferTypes
    <3>2. CASE phys[d] # "here"
      <4>1. Resubmitted(d, k) = [r EXCEPT !.lost = @ + 1]
        BY <3>2 DEF Resubmitted
      <4> HIDE DEF r
      <4>2. [r EXCEPT !.lost = @ + 1] # [r EXCEPT !.fly = @ + 1] /\ [r EXCEPT !.lost = @ + 1] # [r EXCEPT !.again = @ + 1]
        BY <1>4, <1>5
      <4> QED BY <3>1, <4>1, <4>2
    <3>3. CASE phys[d] = "here" /\ closing = d
      <4>1. Resubmitted(d, k) = [r EXCEPT !.again = @ + 1]
        BY <3>3 DEF Resubmitted
      <4> HIDE DEF r
      <4>2. [r EXCEPT !.again = @ + 1] # [r EXCEPT !.fly = @ + 1]
        BY <1>4, <1>5
      <4> QED BY <3>1, <3>3, <4>1, <4>2
    <3>4. CASE phys[d] = "here" /\ closing # d
      <4>1. Resubmitted(d, k) = [r EXCEPT !.fly = @ + 1]
        BY <3>4 DEF Resubmitted
      <4> HIDE DEF r
      <4>2. [r EXCEPT !.again = @ + 1] # [r EXCEPT !.fly = @ + 1]
        BY <1>4, <1>5
      <4> QED BY <3>1, <3>4, <4>1, <4>2
    <3> QED BY <3>2, <3>3, <3>4
  <2>2. CASE rx' = [rx EXCEPT ![d][k] = @ - 1]
    <3>1. rx'[d] = r
      BY <2>2 DEF TransferTypes
    <3> HIDE DEF r
    <3>2. r # [r EXCEPT !.fly = @ + 1] /\ r # [r EXCEPT !.again = @ + 1]
      BY <1>4, <1>5
    <3> QED BY <3>1, <3>2
  <2> QED BY <1>2, <2>1, <2>2
<1> HIDE DEF r
<1>11. IF d = closing THEN s.fly = 0 ELSE s.cancelled = 0 /\ s.again = 0
  BY <1>4, <1>5, <1>7, <1>8, <1>9, <1>10
<1>12. s.fly + s.cancelled + s.again + s.lost <= f + c + a + l
  BY <1>4, <1>5, <1>10
<1>13. RxCount(d)' <= RxCount(d)
  BY <1>4, <1>10, <1>12 DEF RxCount
<1>14. \A e \in Devices : e # d => RxCount(e)' = RxCount(e) /\ RxCount(e) \in Nat
  BY <1>6, UsbAssumption DEF RxCount, TransferTypes, RxState, Loops
<1>15. \A e \in Devices : RxCount(e)' <= RxCount(e)
  BY <1>13, <1>14
<1>16. AllCancelled'
  BY <1>2, <1>6, <1>10, <1>11 DEF AllCancelled
<1> QED BY <1>2, <1>15, <1>16

LEMMA CancelledKept == ASSUME UInv, AllCancelled, [Next]_vars PROVE AllCancelled'
<1> USE DEF UInv
<1>1. CASE UNCHANGED <<rx, closing>>
  BY <1>1 DEF AllCancelled
<1>2. ASSUME NEW d \in Devices, RxDone(d) PROVE AllCancelled'
  BY <1>2, RxCallback
<1>3. ASSUME NEW d \in Devices, DiscoverAdd(d) PROVE AllCancelled'
  <2>1. closing' = closing /\ closing = NoDevice
    BY <1>3 DEF DiscoverAdd, Goto, PlaceTypes
  <2>2. CASE AddNew(d)
    <3>1. PICK n \in 0..NUM_RX_LOOPS : rx' = [rx EXCEPT ![d] = [NoRx EXCEPT !.fly = n]]
      BY <2>2 DEF AddNew
    <3>2. rx'[d].cancelled = 0 /\ rx'[d].again = 0 /\ \A e \in Devices : e # d => rx'[e] = rx[e]
      BY <3>1 DEF TransferTypes, NoRx
    <3> QED BY <2>1, <3>2, UsbAssumption DEF AllCancelled
  <2>3. CASE UNCHANGED rx
    BY <1>1, <2>1, <2>3
  <2> QED BY <1>3, <2>2, <2>3 DEF DiscoverAdd, UsbDeviceAdd, AddKnown, AddFails, xferVars
<1>4. ASSUME NEW d \in Devices, Disconnect(d) PROVE AllCancelled'
  <2>1. closing' = d /\ closing = NoDevice /\ rx' = [rx EXCEPT ![d] = Cancelled(d)]
    BY <1>4 DEF Disconnect, PlaceTypes
  <2>2. rx'[d].fly = 0 /\ \A e \in Devices : e # d => rx'[e] = rx[e]
    BY <2>1 DEF TransferTypes, RxState, Cancelled
  <2> QED BY <2>1, <2>2, UsbAssumption DEF AllCancelled
<1>5. CASE DisconnectDone
  <2>1. RxCount(closing) = 0 /\ rx' = rx /\ closing' = NoDevice /\ closing \in Devices
    BY <1>5 DEF DisconnectDone, CalledBack, xferVars, PlaceTypes
  <2>2. rx[closing] \in RxState
    BY <2>1 DEF TransferTypes
  <2>3. PICK f, c, a, l \in Nat : /\ rx[closing].fly = f /\ rx[closing].cancelled = c
                                  /\ rx[closing].again = a /\ rx[closing].lost = l
    BY <2>2, UsbAssumption DEF RxState, Loops
  <2>4. f + c + a + l = 0
    BY <2>1, <2>3 DEF RxCount
  <2>5. \A w, x, y, z \in Nat : w + x + y + z = 0 => x = 0 /\ y = 0
    OBVIOUS
  <2>6. c = 0 /\ a = 0
    BY ONLY <2>4, <2>5
  <2> QED BY <2>1, <2>3, <2>6, UsbAssumption DEF AllCancelled
<1>6. CASE Wake \/ EventsDone \/ DiscoverDone \/ WalkDone \/ Stop \/ Discovery
  BY <1>1, <1>6 DEF Wake, EventsDone, DiscoverDone, WalkDone, Stop, Discovery, Discover, DiscoverFails,
                    Goto, GoDown, xferVars, runVars
<1>7. ASSUME NEW d \in Devices, SendPacket(d) \/ TxDone(d) \/ Hotplug(d) \/ Attach(d) \/ Detach(d)
      PROVE  AllCancelled'
  <2>1. UNCHANGED <<rx, closing>>
    BY <1>7 DEF SendPacket, TxDone, TxCallback, Undefined, Hotplug, HotplugArrived, HotplugLeft,
                AddKnown, AddFails, Attach, Detach, xferVars, runVars
  <2> QED BY <1>1, <2>1
<1>8. CASE UNCHANGED vars
  BY <1>1, <1>8 DEF vars, xferVars, runVars
<1> QED BY <1>2, <1>3, <1>4, <1>5, <1>6, <1>7, <1>8 DEF Next, Thread

\* libusb_cancel_transfer leaves no receive transfer of the device simply in flight, and
\* nothing puts one back while usb_disconnect waits: what may keep it waiting beyond the
\* callbacks libusb owes it is only what rx_callback has submitted again (usb.c:196-240).
THEOREM OnlyCancelledAreAwaited == Spec => []AllCancelled
<1>1. Init => AllCancelled
  BY UsbAssumption DEF Init, AllCancelled, NoRx
<1>2. UInv /\ AllCancelled /\ [Next]_vars => AllCancelled'
  BY CancelledKept
<1> QED BY <1>1, <1>2, UsbInvariant, PTL DEF Spec

\* No step adds to the transfers of the device that is being disconnected.
LEMMA NoneAdded ==
  ASSUME UInv, AllCancelled, [Next]_vars, NEW d \in Devices, d = closing
  PROVE  RxCount(d)' <= RxCount(d) /\ TxCount(d)' <= TxCount(d)
<1> USE DEF UInv
<1>0. pc = "wait" /\ RxCount(d) \in Nat /\ TxCount(d) \in Nat
  BY UsbAssumption DEF PlaceTypes, TransferTypes, RxState, TxState, Loops, RxCount, TxCount
<1>1. CASE UNCHANGED <<rx, tx>>
  BY <1>0, <1>1 DEF RxCount, TxCount
<1>m. mux[d] = "NONE"
  BY DEF Owned, MuxHasUsb
<1>2. ASSUME NEW e \in Devices, RxDone(e) PROVE RxCount(d)' <= RxCount(d) /\ TxCount(d)' <= TxCount(d)
  <2>1. RxCount(d)' <= RxCount(d)
    BY <1>2, RxCallback
  <2>2. tx'[d] = tx[d]
    BY <1>2, <1>m DEF RxDone, RxEnds, RxData, RxFails, DataInput, TransferTypes
  <2>3. TxCount(d)' = TxCount(d)
    BY <2>2 DEF TxCount
  <2> QED BY <1>0, <2>1, <2>3
<1>3. ASSUME NEW e \in Devices, TxDone(e) PROVE RxCount(d)' <= RxCount(d) /\ TxCount(d)' <= TxCount(d)
  <2>1. PICK k \in {"fly", "freed"}, ok \in BOOLEAN : TxCallback(e, k, ok)
    BY <1>3 DEF TxDone
  <2>2. CASE k = "freed"
    BY <1>1, <2>1, <2>2 DEF TxCallback, Undefined, xferVars
  <2>3. CASE k = "fly"
    <3>1. rx' = rx /\ tx' = [tx EXCEPT ![e].fly = @ - 1]
      BY <2>1, <2>3 DEF TxCallback
    <3>2. TxCount(d)' <= TxCount(d)
      BY <3>1, <1>0 DEF TxCount, TransferTypes, TxState
    <3>3. RxCount(d)' = RxCount(d)
      BY <3>1 DEF RxCount
    <3> QED BY <1>0, <3>2, <3>3
  <2> QED BY <2>2, <2>3
<1>4. ASSUME NEW e \in Devices, Hotplug(e) PROVE RxCount(d)' <= RxCount(d) /\ TxCount(d)' <= TxCount(d)
  <2>1. rx' = rx /\ tx'[d] = tx[d]
    BY <1>4, <1>m DEF Hotplug, HotplugArrived, HotplugLeft, AddKnown, AddFails, AfterRemove,
                      xferVars, TransferTypes
  <2> QED BY <1>0, <2>1 DEF RxCount, TxCount
<1>5. CASE DisconnectDone
  BY <1>1, <1>5 DEF DisconnectDone, xferVars
<1>6. ASSUME NEW e \in Devices, Attach(e) \/ Detach(e) PROVE RxCount(d)' <= RxCount(d) /\ TxCount(d)' <= TxCount(d)
  BY <1>1, <1>6 DEF Attach, Detach, xferVars
<1>7. CASE UNCHANGED vars
  BY <1>1, <1>7 DEF vars, xferVars
<1>8. /\ ~(Wake \/ EventsDone \/ DiscoverDone \/ WalkDone \/ Stop \/ Discovery)
      /\ \A e \in Devices : ~(Disconnect(e) \/ DiscoverAdd(e) \/ SendPacket(e))
  BY <1>0 DEF Wake, EventsDone, DiscoverDone, WalkDone, Stop, Discovery, Discover, DiscoverFails, Due,
              Disconnect, DiscoverAdd, SendPacket
<1> QED BY <1>2, <1>3, <1>4, <1>5, <1>6, <1>7, <1>8 DEF Next, Thread

\* While usb_disconnect runs libusb's event handling, neither the callbacks of the device's
\* own transfers nor its hotplug event give it more to wait for: device_remove comes first
\* (usb.c:74-112), so that data of the device finds nothing to answer with.
THEOREM WaitNeverGrows == Spec => NothingAdded
<1>1. UInv /\ AllCancelled /\ [Next]_vars =>
        [\A d \in Devices : d = closing =>
           RxCount(d)' <= RxCount(d) /\ TxCount(d)' <= TxCount(d)]_vars
  BY NoneAdded
<1> QED BY <1>1, UsbInvariant, OnlyCancelledAreAwaited, PTL DEF Spec, NothingAdded

-----------------------------------------------------------------------------
(***************************************************************************)
(* What has gone is found.                                                 *)
(***************************************************************************)

\* The walk of usb_shutdown has still to come to what it has not freed.  Until then,
\* where libusb tells of hotplug events: a device whose departure has been delivered
\* has no event before it in the queue to be revived by.
Noted ==
  /\ stage = "down" => pc \in {"walk", "wait", "off"} /\ device_list \subseteq todo \cup {closing}
  /\ pc = "off" => stage = "down" /\ todo = {}
  /\ Told /\ stage = "run" =>
       \A d \in Devices : Departed(d) =>
         <<"ARRIVED", d>> \notin events /\ mux[d] = "NONE" /\ d \notin alive \ revived

\* A step that gives no device a mux_device, and marks none alive.
Quiet ==
  /\ alive' \ revived' \subseteq alive \ revived
  /\ \A e \in Devices : mux[e] = "NONE" => mux'[e] = "NONE"

LEMMA NotedKept == ASSUME UInv, Noted, [Next]_vars PROVE Noted'
<1> USE DEF UInv, Told, Departed
<1>1. CASE UNCHANGED <<phys, events, mode, stage, pc, todo, closing, device_list>> /\ Quiet
  BY <1>1 DEF Noted, Quiet
<1>2. ASSUME NEW d \in Devices, TxDone(d) \/ RxDone(d) \/ SendPacket(d) PROVE Noted'
  <2>1. UNCHANGED <<phys, events, mode, stage, pc, todo, closing, device_list>>
    BY <1>2 DEF TxDone, TxCallback, Undefined, RxDone, RxEnds, RxData, RxFails, SendPacket,
                busVars, listVars, runVars
  <2>2. alive' \ revived' \subseteq alive \ revived
    BY <1>2 DEF TxDone, TxCallback, Undefined, RxDone, RxEnds, RxData, RxFails, SendPacket, listVars
  <2>3. \A e \in Devices : mux[e] = "NONE" => mux'[e] = "NONE"
    BY <1>2 DEF TxDone, TxCallback, Undefined, RxDone, RxEnds, RxData, RxFails, SendPacket,
                DataInput, ListTypes
  <2> QED BY <1>1, <2>1, <2>2, <2>3 DEF Quiet
<1>3. ASSUME NEW d \in Devices, HotplugArrived(d) PROVE Noted'
  <2>1. /\ Handling /\ <<"ARRIVED", d>> \in events /\ events' = events \ {<<"ARRIVED", d>>}
        /\ UNCHANGED <<phys, mode, stage, pc, todo, closing, device_list, mux>>
        /\ alive' \subseteq alive \cup {d} /\ revived \subseteq revived'
    BY <1>3 DEF HotplugArrived, AddKnown, AddFails, listVars, runVars
  <2>2. ASSUME NEW e \in Devices, Told', stage = "run", Departed(e)'
        PROVE  <<"ARRIVED", e>> \notin events' /\ mux'[e] = "NONE" /\ e \notin alive' \ revived'
    <3>1. Told /\ Departed(e)
      BY <2>1, <2>2
    <3>2. <<"ARRIVED", e>> \notin events /\ mux[e] = "NONE" /\ e \notin alive \ revived
      BY <2>2, <3>1 DEF Noted
    <3> QED BY <2>1, <3>2
  <2> QED BY <2>1, <2>2 DEF Noted
<1>4. ASSUME NEW d \in Devices, HotplugLeft(d) PROVE Noted'
  <2>1. /\ <<"ARRIVED", d>> \notin events /\ events' = events \ {<<"LEFT", d>>}
        /\ UNCHANGED <<phys, mode, stage, pc, todo, closing, device_list>>
        /\ alive' = alive \ {d} /\ revived' = revived \ {d}
    BY <1>4 DEF HotplugLeft, listVars, runVars, ListTypes
  <2>2. mux'[d] = "NONE" /\ \A e \in Devices : e # d => mux'[e] = mux[e]
    BY <1>4 DEF HotplugLeft, MuxRemoved, ListTypes, Owned, MuxHasUsb
  <2>3. ASSUME NEW e \in Devices, Told', stage = "run", Departed(e)'
        PROVE  <<"ARRIVED", e>> \notin events' /\ mux'[e] = "NONE" /\ e \notin alive' \ revived'
    <3>1. CASE e = d
      BY <2>1, <2>2, <3>1
    <3>2. CASE e # d
      BY <2>1, <2>2, <2>3, <3>2 DEF Noted
    <3> QED BY <3>1, <3>2
  <2> QED BY <2>1, <2>3 DEF Noted
<1>5. ASSUME NEW d \in Devices, Attach(d) \/ Detach(d) PROVE Noted'
  <2>1. UNCHANGED <<mode, stage, pc, todo, closing, device_list, alive, revived, mux>>
    BY <1>5 DEF Attach, Detach, listVars, runVars
  <2>2. ASSUME NEW e \in Devices, Told', stage = "run", Departed(e)'
        PROVE  <<"ARRIVED", e>> \notin events' /\ mux'[e] = "NONE" /\ e \notin alive' \ revived'
    <3>1. CASE Attach(d)
      <4>1. phys' = [phys EXCEPT ![d] = "here"] /\ events' = events \cup {<<"ARRIVED", d>>}
        BY <2>1, <2>2, <3>1 DEF Attach, Notice
      <4>2. e # d /\ Departed(e)
        BY <2>2, <4>1 DEF BusTypes
      <4> QED BY <2>1, <2>2, <4>1, <4>2 DEF Noted
    <3>2. CASE Detach(d)
      <4>1. phys' = [phys EXCEPT ![d] = "gone"] /\ events' = events \cup {<<"LEFT", d>>}
        BY <2>1, <2>2, <3>2 DEF Detach, Notice
      <4>2. e # d /\ Departed(e)
        BY <2>2, <4>1 DEF BusTypes
      <4> QED BY <2>1, <2>2, <4>1, <4>2 DEF Noted
    <3> QED BY <1>5, <3>1, <3>2
  <2> QED BY <2>1, <2>2 DEF Noted
<1>6. ASSUME NEW d \in Devices, DiscoverAdd(d) PROVE Noted'
  <2>1. /\ pc = "discover" /\ stage = "run"
        /\ UNCHANGED <<phys, events, mode, stage, pc, closing>>
    BY <1>6 DEF DiscoverAdd, Goto, busVars, Noted, PlaceTypes
  <2>2. \A e \in Devices : Departed(e) =>
          (mux[e] = "NONE" => mux'[e] = "NONE") /\ (e \notin alive \ revived => e \notin alive' \ revived')
    <3>1. CASE AddKnown(d)
      BY <3>1 DEF AddKnown
    <3>2. CASE AddFails(d)
      BY <3>2 DEF AddFails, listVars
    <3>3. CASE AddNew(d)
      BY <3>3 DEF AddNew, ListTypes
    <3> QED BY <1>6, <3>1, <3>2, <3>3 DEF DiscoverAdd, UsbDeviceAdd
  <2> QED BY <2>1, <2>2 DEF Noted
<1>7. ASSUME NEW d \in Devices, Disconnect(d) PROVE Noted'
  <2>1. PICK S \in SUBSET {e \in todo : ~ToGo(e)} : todo' = todo \ (S \cup {d})
    BY <1>7 DEF Disconnect
  <2>2. /\ pc = "walk" /\ pc' = "wait" /\ closing' = d /\ closing = NoDevice
        /\ UNCHANGED <<phys, events, mode, stage, device_list, alive, revived>>
        /\ mux' = [mux EXCEPT ![d] = "NONE"]
    BY <1>7 DEF Disconnect, Removing, MuxRemoved, busVars, listVars, PlaceTypes
  <2>3. stage = "down" => S = {}
    BY <2>1 DEF ToGo
  <2>4. stage = "down" => device_list' \subseteq todo' \cup {closing'}
    BY <2>1, <2>2, <2>3, UsbAssumption DEF Noted, ListTypes
  <2>5. \A e \in Devices : mux[e] = "NONE" => mux'[e] = "NONE"
    BY <2>2 DEF ListTypes
  <2> QED BY <2>2, <2>4, <2>5 DEF Noted
<1>8. CASE DisconnectDone
  <2>1. /\ pc = "wait" /\ pc' = "walk" /\ device_list' = device_list \ {closing}
        /\ alive' = alive \ {closing} /\ revived' = revived \ {closing}
        /\ UNCHANGED <<phys, events, mode, stage, todo, mux>>
    BY <1>8 DEF DisconnectDone, busVars
  <2> QED BY <2>1 DEF Noted
<1>9. CASE WalkDone
  <2>1. /\ pc = "walk" /\ \A d \in todo : ~ToGo(d)
        /\ pc' = (IF stage = "down" THEN "off" ELSE "poll") /\ todo' = {}
        /\ UNCHANGED <<phys, events, mode, stage, closing, device_list, alive, revived, mux>>
    BY <1>9 DEF WalkDone, Goto, busVars, listVars
  <2>2. stage = "down" => todo = {}
    BY <2>1 DEF ToGo
  <2> QED BY <2>1, <2>2 DEF Noted
<1>10. ASSUME NEW forced \in BOOLEAN, Wake \/ EventsDone \/ DiscoverDone \/ Discover(forced)
       PROVE  Noted'
  <2>1. /\ pc \in {"poll", "events", "discover"} /\ pc' \in {"events", "walk", "discover"}
        /\ UNCHANGED <<phys, events, mode, stage, closing, device_list, mux>>
        /\ alive' \ revived' \subseteq alive \ revived
    BY <1>10 DEF Wake, EventsDone, DiscoverDone, Discover, Due, Goto, busVars, listVars
  <2> QED BY <2>1 DEF Noted, PlaceTypes
<1>11. ASSUME NEW forced \in BOOLEAN, Stop \/ DiscoverFails(forced) PROVE Noted'
  <2>1. UNCHANGED <<phys, mode, device_list, alive, revived, mux>>
    BY <1>11 DEF Stop, DiscoverFails, listVars
  <2>2. CASE GoDown
    BY <2>1, <2>2 DEF GoDown, Noted
  <2>3. CASE UNCHANGED <<events, stage, pc, todo, closing>>
    BY <1>1, <2>1, <2>3 DEF Quiet
  <2> QED BY <1>11, <2>2, <2>3 DEF Stop, DiscoverFails, runVars
<1>12. CASE UNCHANGED vars
  BY <1>1, <1>12 DEF vars, busVars, listVars, runVars, Quiet
<1> QED BY <1>2, <1>3, <1>4, <1>5, <1>6, <1>7, <1>8, <1>9, <1>10, <1>11, <1>12
        DEF Next, Thread, Discovery, Hotplug

\* GoneIsFound: usb_hotplug_cb, reap_dead_devices and usb_shutdown between them miss no
\* device (usb.c), and nothing but a discovery from an old list revives one: the rest of
\* DeadIsReaped is that the walks are made and end.
THEOREM GoneIsAlwaysFound == Spec => []GoneIsFound
<1>1. Init => Noted
  BY DEF Init, Noted, Departed
<1>2. UInv /\ Noted /\ [Next]_vars => Noted'
  BY NotedKept
<1>3. UInv /\ Noted => GoneIsFound
  <2> SUFFICES ASSUME UInv, Noted PROVE GoneIsFound
    OBVIOUS
  <2>1. device_list \subseteq Devices /\ NoDevice \notin device_list
    BY UsbAssumption DEF UInv, ListTypes
  <2>2. pc = "off" => closing = NoDevice /\ todo = {}
    BY DEF UInv, PlaceTypes, Noted
  <2> QED BY <2>1, <2>2 DEF Noted, GoneIsFound
<1> QED BY <1>1, <1>2, <1>3, UsbInvariant, PTL DEF Spec

-----------------------------------------------------------------------------
(***************************************************************************)
(* The packet buffer.                                                      *)
(***************************************************************************)
\* device_data_input never writes beyond pktbuf, and what it hands on fits it and
\* is as long as its header says, whatever transfers arrive (device.c:729-774).
THEOREM GatherFits ==
  ASSUME NEW b, NEW c, b.len \in 0..DEV_MRU, c.len \in Nat
  PROVE  /\ Gather(b, c).buf.len \in 0..DEV_MRU
         /\ \A i \in 1..Len(Gather(b, c).out) :
              Gather(b, c).out[i].len \in 1..DEV_MRU /\ Gather(b, c).out[i].hdr = Gather(b, c).out[i].len
<1> USE ReassemblyAssumption
<1>1. CASE c.len = 0 \/ c.len > USB_MRU
  BY <1>1 DEF Gather, Keep
<1>2. CASE ~(c.len = 0 \/ c.len > USB_MRU) /\ b.len > 0
  <2>1. CASE b.len + c.len > DEV_MRU
    BY <1>2, <2>1 DEF Gather, Drop, Keep, Empty, Piece
  <2>2. CASE ~(b.len + c.len > DEV_MRU) /\ IsLast(b, c)
    <3>1. Gather(b, c) = Dispatch(Append2(b, c))
      BY <1>2, <2>2 DEF Gather
    <3>2. Append2(b, c).len \in 1..DEV_MRU
      BY <1>2, <2>2 DEF Append2, Piece
    <3> QED BY <3>1, <3>2 DEF Dispatch, Empty, Piece
  <2>3. CASE ~(b.len + c.len > DEV_MRU) /\ ~IsLast(b, c)
    BY <1>2, <2>3 DEF Gather, Keep, Append2, Piece
  <2> QED BY <2>1, <2>2, <2>3
<1>3. CASE ~(c.len = 0 \/ c.len > USB_MRU) /\ ~(b.len > 0)
  <2>1. CASE c.len = USB_MRU /\ c.len < c.hdr
    BY <1>3, <2>1 DEF Gather, Keep
  <2>2. CASE ~(c.len = USB_MRU /\ c.len < c.hdr)
    <3>1. Gather(b, c) = Dispatch(c) /\ c.len \in 1..DEV_MRU
      BY <1>3, <2>2 DEF Gather
    <3> QED BY <3>1 DEF Dispatch, Empty, Piece
  <2> QED BY <2>1, <2>2
<1> QED BY <1>1, <1>2, <1>3

\* A short transfer leaves nothing in the buffer, whatever was in it: the device and
\* the daemon agree again on where the next packet begins (device.c:738-753).
THEOREM ShortResyncs ==
  ASSUME NEW b, NEW c, b.len \in 0..DEV_MRU, c.len \in 1..(USB_MRU - 1)
  PROVE  Gather(b, c).buf = Empty
<1> USE ReassemblyAssumption
<1>1. c.len \in Nat /\ c.len > 0 /\ c.len < USB_MRU /\ IsLast(b, c)
  BY DEF IsLast
<1>2. CASE b.len > 0
  BY <1>1, <1>2 DEF Gather, Drop, Keep, Dispatch
<1>3. CASE ~(b.len > 0)
  BY <1>1, <1>3 DEF Gather, Dispatch
<1> QED BY <1>2, <1>3

\* The first m of the transfers c go through the packet buffer, which is buf[i] after
\* the i-th.
Fed(buf, c, m) == \A i \in 0..(m - 1) : buf[i + 1] = Gather(buf[i], c[i + 1]).buf

LEMMA FedAt ==
  ASSUME NEW buf, NEW c, NEW m, Fed(buf, c, m), NEW i \in 0..(m - 1)
  PROVE  buf[i + 1] = Gather(buf[i], c[i + 1]).buf
BY DEF Fed

\* The first transfer of a packet of n bytes, with its header.
Headed(p, n) == p = Piece(p.len, n, p.from)

LEMMA HeadedBy == ASSUME NEW p, NEW n, Headed(p, n) PROVE p.hdr = n
BY DEF Headed, Piece

\* A packet of n bytes that fits the buffer is sent in the k transfers after the first
\* s: all but the last are full, and the header is in the first.
Sent(c, s, n, k) ==
  /\ k \in Nat \ {0} /\ n \in 1..DEV_MRU
  /\ (k - 1) * USB_MRU < n /\ n <= k * USB_MRU
  /\ \A i \in 1..(k - 1) : c[s + i].len = USB_MRU
  /\ c[s + k].len = n - (k - 1) * USB_MRU
  /\ Headed(c[s + 1], n)

\* What the first i of the k transfers after the first s carry is from[i].
Carried(from, c, s, k) ==
  /\ from[1] = c[s + 1].from
  /\ \A i \in 1..(k - 1) : from[i + 1] = from[i] \o c[s + i + 1].from

\* One packet of n bytes is handed on, and these are they.
OnePacket(out, n, bytes) == out = <<Piece(n, n, bytes)>>

\* Nothing is handed on before the last of k transfers, and with it the packet.
Delivered(buf, c, s, n, k, bytes) ==
  /\ \A i \in 1..(k - 1) : Gather(buf[s + i - 1], c[s + i]).out = <<>>
  /\ OnePacket(Gather(buf[s + k - 1], c[s + k]).out, n, bytes)

\* After i transfers of a packet of n bytes the buffer has their bytes.
Gathered(b, i, n, bytes) == b.len = i * USB_MRU /\ b.hdr = n /\ b.from = bytes

LEMMA SmallestOf ==
  ASSUME NEW S, S \subseteq Nat, S # {}
  PROVE  \E i \in S : \A j \in S : i <= j
<1>1. \E i \in S : \A j \in S : ~ (<<j, i>> \in OpToRel(<, Nat))
  BY WFMin, NatLessThanWellFounded
<1>2. PICK i \in S : \A j \in S : ~ (<<j, i>> \in OpToRel(<, Nat))
  BY <1>1
<1>3. \A j \in S : ~ (j < i)
  BY <1>2 DEF OpToRel
<1> QED BY <1>3

\* Induction up to n, over a set instead of an operator.
LEMMA UpTo ==
  ASSUME NEW S, NEW n \in Nat, 0 \in S, \A i \in 0..(n - 1) : i \in S => i + 1 \in S
  PROVE  \A i \in 0..n : i \in S
<1> DEFINE Bad == {i \in 0..n : i \notin S}
<1> SUFFICES ASSUME Bad # {} PROVE FALSE
  OBVIOUS
<1>1. PICK i \in Bad : \A j \in Bad : i <= j
  <2>1. Bad \subseteq Nat
    OBVIOUS
  <2> HIDE DEF Bad
  <2> QED BY <2>1, SmallestOf
<1>2. i \in 1..n /\ i \notin S
  BY <1>1
<1>3. i - 1 \in 0..(n - 1) /\ (i - 1) + 1 = i /\ ~(i <= i - 1) /\ i - 1 \in 0..n
  BY <1>2
<1>4. i - 1 \in S
  BY <1>1, <1>3
<1> QED BY <1>2, <1>3, <1>4

LEMMA Multiples ==
  ASSUME NEW i \in Nat, NEW j \in Nat, NEW u \in Nat, i <= j
  PROVE  /\ i * u \in Nat /\ i * u <= j * u
         /\ (i + 1) * u = i * u + u
<1>1. PICK d \in Nat : j = i + d
  <2>1. j - i \in Nat /\ j = i + (j - i)
    OBVIOUS
  <2> QED BY <2>1
<1>2. (i + d) * u = i * u + d * u /\ i * u \in Nat /\ d * u \in Nat
  OBVIOUS
<1>3. i * u <= j * u
  BY <1>1, <1>2
<1>4. (i + 1) * u = i * u + u
  OBVIOUS
<1> QED BY <1>2, <1>3, <1>4

\* The first of several transfers.
LEMMA FirstPiece ==
  ASSUME NEW c, NEW s \in Nat, NEW n, NEW k, Sent(c, s, n, k), k > 1
  PROVE  /\ Gather(Empty, c[s + 1]).out = <<>>
         /\ Gathered(Gather(Empty, c[s + 1]).buf, 1, n, c[s + 1].from)
<1> USE ReassemblyAssumption
<1>1. c[s + 1].len = USB_MRU /\ c[s + 1].hdr = n /\ n \in Nat
  <2>1. 1 \in 1..(k - 1)
    BY DEF Sent
  <2>2. c[s + 1].len = USB_MRU /\ n \in Nat /\ Headed(c[s + 1], n)
    BY <2>1 DEF Sent
  <2> QED BY <2>2, HeadedBy
<1>2. USB_MRU < n
  <2>1. 1 \in Nat /\ k - 1 \in Nat /\ 1 <= k - 1
    BY DEF Sent
  <2>2. 1 * USB_MRU <= (k - 1) * USB_MRU
    BY <2>1, Multiples
  <2>3. (k - 1) * USB_MRU \in Nat /\ (k - 1) * USB_MRU < n
    BY <2>1, Multiples DEF Sent
  <2>4. 1 * USB_MRU = USB_MRU
    OBVIOUS
  <2> QED BY <1>1, <2>2, <2>3, <2>4
<1>3. Gather(Empty, c[s + 1]) = Keep(c[s + 1])
  BY <1>1, <1>2 DEF Gather, Empty, Piece
<1> QED BY <1>1, <1>3 DEF Keep, Gathered

\* One in the middle.
LEMMA NextPiece ==
  ASSUME NEW c, NEW s \in Nat, NEW n, NEW k, Sent(c, s, n, k),
         NEW i \in Nat, i > 0, i + 1 < k, NEW b, NEW bytes, Gathered(b, i, n, bytes)
  PROVE  /\ Gather(b, c[s + i + 1]).out = <<>>
         /\ Gathered(Gather(b, c[s + i + 1]).buf, i + 1, n, bytes \o c[s + i + 1].from)
<1> USE ReassemblyAssumption
<1> DEFINE p == c[s + i + 1]
<1>1. p.len = USB_MRU /\ n \in Nat /\ n <= DEV_MRU
  <2>1. i + 1 \in 1..(k - 1) /\ s + (i + 1) = s + i + 1
    BY DEF Sent
  <2>2. c[s + (i + 1)].len = USB_MRU /\ n \in Nat /\ n <= DEV_MRU
    BY <2>1 DEF Sent
  <2> QED BY <2>1, <2>2
<1>2. i * USB_MRU \in Nat /\ i * USB_MRU > 0 /\ (i + 1) * USB_MRU = i * USB_MRU + USB_MRU /\ (i + 1) * USB_MRU < n
  <2>1. i + 1 \in Nat /\ k - 1 \in Nat /\ i + 1 <= k - 1 /\ 1 \in Nat /\ 1 <= i
    BY DEF Sent
  <2>2. (i + 1) * USB_MRU <= (k - 1) * USB_MRU /\ (i + 1) * USB_MRU \in Nat
    BY <2>1, Multiples
  <2>3. (k - 1) * USB_MRU \in Nat /\ (k - 1) * USB_MRU < n
    BY <2>1, Multiples DEF Sent
  <2>4. i * USB_MRU \in Nat /\ (i + 1) * USB_MRU = i * USB_MRU + USB_MRU
    BY Multiples
  <2>5. 1 * USB_MRU <= i * USB_MRU /\ 1 * USB_MRU = USB_MRU
    BY <2>1, Multiples
  <2> QED BY <1>1, <2>2, <2>3, <2>4, <2>5
<1>3. b.len = i * USB_MRU /\ b.hdr = n /\ b.from = bytes
  BY DEF Gathered
<1> HIDE DEF p
<1>4. Gather(b, p) = Keep(Append2(b, p))
  <2> DEFINE m == i * USB_MRU
  <2>1. b.len = m /\ m \in Nat /\ m > 0 /\ m + USB_MRU < n
    BY <1>2, <1>3
  <2> HIDE DEF m
  <2> QED BY <1>1, <1>3, <2>1 DEF Gather, IsLast
<1>5. Gathered(Append2(b, p), i + 1, n, bytes \o p.from)
  BY <1>1, <1>2, <1>3 DEF Gathered, Append2, Piece
<1> QED BY <1>4, <1>5 DEF Keep, p

\* And the last.
LEMMA LastPiece ==
  ASSUME NEW c, NEW s \in Nat, NEW n, NEW k, Sent(c, s, n, k), k > 1,
         NEW b, NEW bytes, Gathered(b, k - 1, n, bytes)
  PROVE  /\ Gather(b, c[s + k]).buf = Empty
         /\ OnePacket(Gather(b, c[s + k]).out, n, bytes \o c[s + k].from)
<1> USE ReassemblyAssumption
<1> DEFINE p == c[s + k]
           m == (k - 1) * USB_MRU
<1>1. p.len = n - m /\ n \in Nat /\ n <= DEV_MRU /\ m < n /\ n <= k * USB_MRU
  BY DEF Sent
<1>2. m \in Nat /\ m > 0 /\ k * USB_MRU = m + USB_MRU
  <2>1. k - 1 \in Nat /\ 1 \in Nat /\ 1 <= k - 1 /\ (k - 1) + 1 = k
    BY DEF Sent
  <2>2. m \in Nat /\ ((k - 1) + 1) * USB_MRU = m + USB_MRU
    BY <2>1, Multiples
  <2>3. 1 * USB_MRU <= m /\ 1 * USB_MRU = USB_MRU
    BY <2>1, Multiples
  <2> QED BY <2>1, <2>2, <2>3
<1>3. b.len = m /\ b.hdr = n /\ b.from = bytes
  BY DEF Gathered
<1> HIDE DEF p, m
<1>4. p.len \in Nat /\ p.len > 0 /\ p.len <= USB_MRU /\ b.len + p.len = n
  BY <1>1, <1>2, <1>3
<1>5. Gather(b, p) = Dispatch(Append2(b, p))
  BY <1>1, <1>2, <1>3, <1>4 DEF Gather, IsLast
<1>6. Append2(b, p) = Piece(n, n, bytes \o p.from)
  BY <1>3, <1>4 DEF Append2
<1>7. Gather(b, p).buf = Empty /\ Gather(b, p).out = <<Append2(b, p)>>
  <2>1. Append2(b, p).hdr = n /\ Append2(b, p).len = n
    BY <1>6 DEF Piece
  <2> QED BY <1>5, <2>1 DEF Dispatch
<1> QED BY <1>6, <1>7 DEF p, OnePacket

\* A packet that fits the buffer and comes when it is empty is handed on whole, once,
\* with the last of its transfers, and leaves the buffer empty: also one that is a
\* multiple of the size of a transfer, and whatever its other transfers look like when
\* they are read as a header (device.c:729-767).
THEOREM GathersPacket ==
  ASSUME NEW buf, NEW c, NEW m \in Nat, Fed(buf, c, m), NEW s \in Nat, buf[s] = Empty,
         NEW n, NEW k, s + k <= m, Sent(c, s, n, k), NEW from, Carried(from, c, s, k)
  PROVE  /\ Delivered(buf, c, s, n, k, from[k])
         /\ buf[s + k] = Empty
<1> USE ReassemblyAssumption
<1>0. k \in Nat /\ k > 0
  BY DEF Sent
<1>1. CASE k = 1
  <2> DEFINE p == c[s + 1]
  <2>1. p.hdr = n /\ p.len = n /\ n \in Nat /\ n > 0 /\ n <= USB_MRU /\ p = Piece(n, n, p.from)
    <3>1. (1 - 1) * USB_MRU = 0 /\ 1 * USB_MRU = USB_MRU
      OBVIOUS
    <3>2. Headed(p, n) /\ p.len = n /\ n \in Nat /\ n > 0 /\ n <= USB_MRU
      BY <1>1, <3>1 DEF Sent
    <3> QED BY <3>2, HeadedBy DEF Headed
  <2>2. from[1] = p.from /\ buf[s + 1] = Gather(buf[s], p).buf
    <3>1. s \in 0..(m - 1)
      BY <1>0
    <3>2. buf[s + 1] = Gather(buf[s], c[s + 1]).buf
      BY <3>1, FedAt
    <3> QED BY <3>2 DEF Carried
  <2> HIDE DEF p
  <2>3. Gather(Empty, p) = Dispatch(p)
    BY <2>1 DEF Gather, Empty, Piece
  <2>4. Gather(buf[s], p).out = <<p>> /\ Gather(buf[s], p).buf = Empty
    BY <2>1, <2>3 DEF Dispatch
  <2>5. s + 1 - 1 = s /\ 1..(1 - 1) = {}
    OBVIOUS
  <2>6. OnePacket(Gather(buf[s], p).out, n, from[1])
    BY <2>1, <2>2, <2>4 DEF OnePacket
  <2> QED BY <1>1, <2>2, <2>4, <2>5, <2>6 DEF Delivered, p
<1>2. CASE k > 1
  <2> DEFINE Good(i) == /\ Gather(buf[s + i - 1], c[s + i]).out = <<>>
                        /\ Gathered(buf[s + i], i, n, from[i])
             S       == {i \in 0..(k - 1) : i = 0 \/ Good(i)}
  <2>1. Good(1)
    <3>0. s \in 0..(m - 1)
      BY <1>2, <1>0
    <3>1. s + 1 - 1 = s /\ buf[s + 1] = Gather(buf[s], c[s + 1]).buf
      <4>1. buf[s + 1] = Gather(buf[s], c[s + 1]).buf
        BY <3>0, FedAt
      <4> QED BY <4>1
    <3>2. from[1] = c[s + 1].from
      BY DEF Carried
    <3> QED BY <1>2, <3>1, <3>2, FirstPiece
  <2>2. ASSUME NEW i \in Nat, i > 0, i + 1 < k, Good(i) PROVE Good(i + 1)
    <3>1. /\ s + i \in Nat /\ s + (i + 1) = s + i + 1 /\ s + (i + 1) - 1 = s + i
          /\ buf[s + i + 1] = Gather(buf[s + i], c[s + i + 1]).buf
          /\ from[i + 1] = from[i] \o c[s + i + 1].from
      <4>1. /\ s + i \in 0..(m - 1) /\ s + (i + 1) = s + i + 1 /\ s + (i + 1) - 1 = s + i
            /\ i \in 1..(k - 1) /\ s + i \in Nat
        BY <2>2, <1>0
      <4>2. buf[(s + i) + 1] = Gather(buf[s + i], c[(s + i) + 1]).buf
        <5> DEFINE l == s + i
        <5>1. l \in 0..(m - 1)
          BY <4>1
        <5> HIDE DEF l
        <5>2. buf[l + 1] = Gather(buf[l], c[l + 1]).buf
          BY <5>1, FedAt
        <5> QED BY <5>2 DEF l
      <4>3. from[i + 1] = from[i] \o c[s + i + 1].from
        BY <4>1 DEF Carried
      <4> QED BY <4>1, <4>2, <4>3
    <3>2. Gathered(buf[s + i], i, n, from[i])
      BY <2>2
    <3>3. /\ Gather(buf[s + i], c[s + i + 1]).out = <<>>
          /\ Gathered(Gather(buf[s + i], c[s + i + 1]).buf, i + 1, n, from[i] \o c[s + i + 1].from)
      BY <2>2, <3>2, NextPiece
    <3> QED BY <3>1, <3>3
  <2>3. \A i \in 0..(k - 1) : i \in S
    <3> HIDE DEF Good
    <3>1. k - 1 \in Nat /\ 0 \in S
      BY <1>2, <1>0
    <3>2. ASSUME NEW i \in 0..(k - 1 - 1), i \in S PROVE i + 1 \in S
      <4>1. i \in Nat /\ i + 1 \in 0..(k - 1) /\ i + 1 < k
        BY <1>0, <3>2
      <4>2. CASE i = 0
        BY <2>1, <4>1, <4>2
      <4>3. CASE i # 0
        BY <2>2, <3>2, <4>1, <4>3
      <4> QED BY <4>2, <4>3
    <3> HIDE DEF S
    <3> QED BY <3>1, <3>2, UpTo
  <2>4. \A i \in 1..(k - 1) : Good(i)
    <3> HIDE DEF Good
    <3>1. \A i \in 1..(k - 1) : i \in 0..(k - 1) /\ i # 0
      BY <1>0
    <3> QED BY <2>3, <3>1
  <2>5. Gathered(buf[s + (k - 1)], k - 1, n, from[k - 1])
    <3>1. k - 1 \in 1..(k - 1)
      BY <1>2, <1>0
    <3> QED BY <2>4, <3>1
  <2>6. \A i \in 1..(k - 1) : Gather(buf[s + i - 1], c[s + i]).out = <<>>
    BY <2>4
  <2>7. /\ s + (k - 1) = s + k - 1 /\ s + k - 1 \in Nat /\ (s + k - 1) + 1 = s + k
        /\ k - 1 \in 1..(k - 1) /\ (k - 1) + 1 = k /\ s + (k - 1) + 1 = s + k
        /\ s + k - 1 \in 0..(m - 1)
    BY <1>0, <1>2
  <2>8. buf[s + k] = Gather(buf[s + k - 1], c[s + k]).buf /\ from[k] = from[k - 1] \o c[s + k].from
    <3>1. buf[(s + k - 1) + 1] = Gather(buf[s + k - 1], c[(s + k - 1) + 1]).buf
      BY <2>7 DEF Fed
    <3>2. from[(k - 1) + 1] = from[k - 1] \o c[s + (k - 1) + 1].from
      BY <2>7 DEF Carried
    <3> QED BY <2>7, <3>1, <3>2
  <2>9. /\ Gather(buf[s + k - 1], c[s + k]).buf = Empty
        /\ OnePacket(Gather(buf[s + k - 1], c[s + k]).out, n, from[k - 1] \o c[s + k].from)
    <3>1. Gathered(buf[s + k - 1], k - 1, n, from[k - 1])
      BY <2>5, <2>7
    <3> QED BY <1>2, <3>1, LastPiece
  <2> QED BY <2>6, <2>8, <2>9 DEF Delivered
<1> QED BY <1>0, <1>1, <1>2

\* The device sends one packet after another, the j-th in the k[j] transfers after the
\* first e[j], with the bytes from[j][k[j]].
Streams(c, e, n, k, from) ==
  /\ e[0] \in Nat
  /\ \A j \in Nat : /\ Sent(c, e[j], n[j], k[j]) /\ Carried(from[j], c, e[j], k[j])
                    /\ e[j + 1] = e[j] + k[j]

\* Nothing has come yet, or the last that came was a short transfer.
Resynced(buf, c, s) ==
  \/ buf[s] = Empty
  \/ s # 0 /\ buf[s - 1].len \in 0..DEV_MRU /\ c[s].len \in 1..(USB_MRU - 1)

\* From the beginning, and again from any short transfer on, whatever came before it,
\* every packet is handed on whole, once and in order (device.c:729-767).
THEOREM GathersStream ==
  ASSUME NEW buf, NEW c, \A m \in Nat : Fed(buf, c, m), NEW e, NEW n, NEW k, NEW from,
         Streams(c, e, n, k, from), Resynced(buf, c, e[0]),
         NEW j \in Nat
  PROVE  Delivered(buf, c, e[j], n[j], k[j], from[j][k[j]])
<1> DEFINE Between(i) == e[i] \in Nat /\ buf[e[i]] = Empty
           S          == {i \in Nat : Between(i)}
<1>1. Between(0)
  <2>1. e[0] \in Nat
    BY DEF Streams
  <2>2. CASE buf[e[0]] = Empty
    BY <2>1, <2>2
  <2>3. CASE e[0] # 0 /\ buf[e[0] - 1].len \in 0..DEV_MRU /\ c[e[0]].len \in 1..(USB_MRU - 1)
    <3>1. e[0] - 1 \in Nat /\ (e[0] - 1) + 1 = e[0]
      BY <2>1, <2>3
    <3>2. buf[(e[0] - 1) + 1] = Gather(buf[e[0] - 1], c[(e[0] - 1) + 1]).buf
      <4>1. e[0] - 1 \in 0..(e[0] - 1) /\ Fed(buf, c, e[0])
        BY <2>1, <3>1
      <4> QED BY <4>1 DEF Fed
    <3>3. Gather(buf[e[0] - 1], c[e[0]]).buf = Empty
      BY <2>3, ShortResyncs
    <3> QED BY <2>1, <3>1, <3>2, <3>3
  <2> QED BY <2>2, <2>3 DEF Resynced
<1>2. ASSUME NEW i \in Nat, Between(i)
      PROVE  Between(i + 1) /\ Delivered(buf, c, e[i], n[i], k[i], from[i][k[i]])
  <2>1. Sent(c, e[i], n[i], k[i]) /\ Carried(from[i], c, e[i], k[i]) /\ e[i + 1] = e[i] + k[i]
    BY DEF Streams
  <2>2. k[i] \in Nat /\ e[i] + k[i] \in Nat
    BY <1>2, <2>1 DEF Sent
  <2>3. /\ Delivered(buf, c, e[i], n[i], k[i], from[i][k[i]])
        /\ buf[e[i] + k[i]] = Empty
    <3>1. Fed(buf, c, e[i] + k[i])
      BY <2>2
    <3>2. e[i] + k[i] <= e[i] + k[i]
      BY <2>2
    <3> QED BY <1>2, <2>1, <2>2, <3>1, <3>2, GathersPacket
  <2> QED BY <1>2, <2>1, <2>2, <2>3
<1>3. \A i \in 0..j : i \in S
  <2> HIDE DEF Between
  <2>1. 0 \in S
    BY <1>1
  <2>2. ASSUME NEW i \in 0..(j - 1), i \in S PROVE i + 1 \in S
    BY <1>2, <2>2
  <2> HIDE DEF S
  <2> QED BY <2>1, <2>2, UpTo
<1>4. Between(j)
  BY <1>3
<1> QED BY <1>2, <1>4

-----------------------------------------------------------------------------
(***************************************************************************)
(* WholePackets, for every size of transfers, buffer and packets.          *)
(***************************************************************************)
Cut == [len : Nat, hdr : Nat, from : Seq(Nat \X Nat)]

\* What the recursion defines, from the first of its values on.
LEMMA BuffersAre ==
  ASSUME NEW cs, Len(cs) \in Nat
  PROVE  Buffers(cs) = [i \in 0..Len(cs) |->
                          IF i = 0 THEN Empty ELSE Gather(Buffers(cs)[i - 1], cs[i]).buf]
<1> DEFINE Is(f, n) == f = [i \in 0..n |-> IF i = 0 THEN Empty ELSE Gather(f[i - 1], cs[i]).buf]
           S        == {n \in Nat : \E f : Is(f, n)}
<1>1. 0 \in S
  <2> DEFINE f == [i \in 0..0 |-> Empty]
  <2>1. Is(f, 0)
    OBVIOUS
  <2> QED BY <2>1
<1>2. ASSUME NEW n \in Nat, n \in S PROVE n + 1 \in S
  <2>1. PICK f : Is(f, n)
    BY <1>2
  <2> DEFINE g == [i \in 0..(n + 1) |-> IF i <= n THEN f[i] ELSE Gather(f[n], cs[n + 1]).buf]
  <2>2. \A i \in 0..(n + 1) : g[i] = IF i = 0 THEN Empty ELSE Gather(g[i - 1], cs[i]).buf
    <3>1. TAKE i \in 0..(n + 1)
    <3>2. CASE i = 0
      BY <2>1, <3>2
    <3>3. CASE i \in 1..n
      <4>1. i \in 0..n /\ i - 1 \in 0..n /\ i <= n /\ i - 1 <= n /\ i - 1 \in 0..(n + 1) /\ i # 0
        BY <3>3
      <4>2. g[i] = f[i] /\ g[i - 1] = f[i - 1]
        BY <4>1
      <4>3. f[i] = Gather(f[i - 1], cs[i]).buf
        BY <2>1, <4>1
      <4> QED BY <4>1, <4>2, <4>3
    <3>4. CASE i = n + 1
      <4>1. n \in 0..(n + 1) /\ n + 1 \in 0..(n + 1) /\ i - 1 = n /\ ~(n + 1 <= n) /\ n <= n /\ i # 0
        BY <3>4
      <4>2. g[n] = f[n] /\ g[n + 1] = Gather(f[n], cs[n + 1]).buf
        BY <4>1
      <4> QED BY <3>4, <4>1, <4>2
    <3> QED BY <3>2, <3>3, <3>4
  <2>3. g = [i \in 0..(n + 1) |-> g[i]]
    OBVIOUS
  <2> HIDE DEF g
  <2>4. Is(g, n + 1)
    BY <2>2, <2>3
  <2> QED BY <2>4
<1>3. Len(cs) \in S
  <2>1. \A i \in 0..(Len(cs) - 1) : i \in S => i + 1 \in S
    BY <1>2
  <2> HIDE DEF S
  <2>2. \A i \in 0..Len(cs) : i \in S
    BY <1>1, <2>1, UpTo
  <2> QED BY <2>2
<1> QED BY <1>3 DEF Buffers

LEMMA Feeds ==
  ASSUME NEW cs, Len(cs) \in Nat
  PROVE  Buffers(cs)[0] = Empty /\ Fed(Buffers(cs), cs, Len(cs))
<1> DEFINE B == Buffers(cs)
<1>1. B = [i \in 0..Len(cs) |-> IF i = 0 THEN Empty ELSE Gather(B[i - 1], cs[i]).buf]
  BY BuffersAre
<1> HIDE DEF B
<1>2. B[0] = Empty
  BY <1>1
<1>3. ASSUME NEW i \in 0..(Len(cs) - 1) PROVE B[i + 1] = Gather(B[i], cs[i + 1]).buf
  <2>1. i + 1 \in 0..Len(cs) /\ i + 1 # 0 /\ (i + 1) - 1 = i
    OBVIOUS
  <2>2. B[i + 1] = Gather(B[(i + 1) - 1], cs[i + 1]).buf
    BY <1>1, <2>1
  <2> QED BY <2>1, <2>2
<1> QED BY <1>2, <1>3 DEF Fed, B

LEMMA FitsAlways ==
  ASSUME NEW cs \in Seq(Cut), NEW i \in 0..Len(cs)
  PROVE  Buffers(cs)[i].len \in 0..DEV_MRU
<1> USE ReassemblyAssumption
<1> DEFINE B == Buffers(cs)
           S == {n \in 0..Len(cs) : B[n].len \in 0..DEV_MRU}
<1>1. Len(cs) \in Nat
  OBVIOUS
<1>2. B[0] = Empty /\ Fed(B, cs, Len(cs))
  BY <1>1, Feeds
<1> HIDE DEF B
<1>3. 0 \in S
  BY <1>1, <1>2 DEF Empty, Piece
<1>4. ASSUME NEW n \in 0..(Len(cs) - 1), n \in S PROVE n + 1 \in S
  <2>1. n + 1 \in 1..Len(cs) /\ B[n].len \in 0..DEV_MRU
    BY <1>4
  <2>2. B[n + 1] = Gather(B[n], cs[n + 1]).buf
    BY <1>2, FedAt
  <2>3. cs[n + 1].len \in Nat
    <3>1. cs[n + 1] \in Cut
      BY <2>1
    <3> QED BY <3>1 DEF Cut
  <2> QED BY <2>1, <2>2, <2>3, GatherFits
<1> HIDE DEF S
<1>5. \A n \in 0..Len(cs) : n \in S
  BY <1>1, <1>3, <1>4, UpTo
<1> QED BY <1>5 DEF S, B

\* How many transfers a packet takes.
LEMMA TransfersOf ==
  ASSUME NEW n \in Nat \ {0}
  PROVE  /\ Transfers(n) \in Nat \ {0}
         /\ (Transfers(n) - 1) * USB_MRU < n /\ n <= Transfers(n) * USB_MRU
         /\ n < USB_MRU => Transfers(n) = 1
<1> USE ReassemblyAssumption
<1> DEFINE m == n + USB_MRU - 1
           q == m \div USB_MRU
<1>1. m \in Nat /\ m >= USB_MRU
  OBVIOUS
<1>2. q \in Nat /\ USB_MRU * q <= m /\ m < USB_MRU * q + USB_MRU
  OBVIOUS
<1> QED BY <1>1, <1>2 DEF Transfers

\* What a packet that fits looks like among the transfers cs.
At(cs, s, p, n, g) ==
  /\ s + Transfers(n) <= Len(cs)
  /\ \A i \in 1..Transfers(n) : cs[s + i] = Pieces(p, n, g)[i]

\* It comes when the buffer is empty, and leaves it so.
LEMMA PacketArrives ==
  ASSUME NEW cs, Len(cs) \in Nat, NEW s \in Nat, NEW p, NEW n \in 1..DEV_MRU, NEW g,
         At(cs, s, p, n, g), Buffers(cs)[s] = Empty
  PROVE  Arrives(cs, s, p, n) /\ Buffers(cs)[s + Transfers(n)] = Empty
<1> USE ReassemblyAssumption
<1> DEFINE B       == Buffers(cs)
           k       == Transfers(n)
           from    == [i \in Nat |-> [l \in 1..i |-> <<p, l>>]]
           Part(i) == Piece(IF i < k THEN USB_MRU ELSE n - (k - 1) * USB_MRU,
                            IF i = 1 THEN n ELSE g, <<<<p, i>>>>)
<1>1. /\ k \in Nat \ {0} /\ n \in Nat \ {0}
      /\ (k - 1) * USB_MRU < n /\ n <= k * USB_MRU
  BY TransfersOf
<1>2. Fed(B, cs, Len(cs)) /\ B[s] = Empty
  BY Feeds
<1>3. s + k <= Len(cs) /\ \A i \in 1..k : cs[s + i] = Part(i)
  BY DEF At, Pieces
<1> HIDE DEF B, k, from
<1>31. ASSUME NEW i \in 1..k
       PROVE  /\ cs[s + i].len = IF i < k THEN USB_MRU ELSE n - (k - 1) * USB_MRU
              /\ cs[s + i].from = <<<<p, i>>>>
  <2>1. cs[s + i] = Part(i)
    BY <1>3
  <2> DEFINE len == IF i < k THEN USB_MRU ELSE n - (k - 1) * USB_MRU
             hdr == IF i = 1 THEN n ELSE g
  <2>2. cs[s + i] = Piece(len, hdr, <<<<p, i>>>>)
    BY <2>1
  <2> HIDE DEF len, hdr
  <2>3. cs[s + i].len = len /\ cs[s + i].from = <<<<p, i>>>>
    BY <2>2 DEF Piece
  <2> QED BY <2>3 DEF len
<1>4. Sent(cs, s, n, k)
  <2>1. \A i \in 1..(k - 1) : i \in 1..k /\ i < k
    BY <1>1
  <2>2. k \in 1..k /\ ~(k < k) /\ 1 \in 1..k
    BY <1>1
  <2>3. ASSUME NEW i \in 1..(k - 1) PROVE cs[s + i].len = USB_MRU
    <3>1. i \in 1..k /\ i < k
      BY <2>1
    <3> QED BY <1>31, <3>1
  <2>4. cs[s + k].len = n - (k - 1) * USB_MRU
    BY <1>31, <2>2
  <2>5. Headed(cs[s + 1], n)
    <3>1. cs[s + 1] = Piece(IF 1 < k THEN USB_MRU ELSE n - (k - 1) * USB_MRU, n, <<<<p, 1>>>>)
      BY <1>3, <2>2
    <3> QED BY <3>1 DEF Headed, Piece
  <2> QED BY <1>1, <2>3, <2>4, <2>5 DEF Sent
<1>5. Carried(from, cs, s, k)
  <2>0. 1 \in 1..k
    BY <1>1
  <2>1. from[1] = cs[s + 1].from
    <3>1. cs[s + 1].from = <<<<p, 1>>>>
      BY <2>0, <1>31
    <3>2. from[1] = <<<<p, 1>>>>
      BY DEF from
    <3> QED BY <3>1, <3>2
  <2>2. ASSUME NEW i \in 1..(k - 1) PROVE from[i + 1] = from[i] \o cs[s + i + 1].from
    <3>1. i \in Nat /\ i + 1 \in 1..k /\ s + (i + 1) = s + i + 1 /\ i + 1 \in Nat
      BY <1>1
    <3>2. cs[s + (i + 1)].from = <<<<p, i + 1>>>>
      BY <1>31, <3>1
    <3>3. from[i + 1] = [l \in 1..(i + 1) |-> <<p, l>>] /\ from[i] = [l \in 1..i |-> <<p, l>>]
      BY <3>1 DEF from
    <3>4. [l \in 1..(i + 1) |-> <<p, l>>] = [l \in 1..i |-> <<p, l>>] \o <<<<p, i + 1>>>>
      <4> DEFINE a == [l \in 1..i |-> <<p, l>>]
                 x == <<p, i + 1>>
                 T == {<<p, l>> : l \in Nat}
      <4>1. a \in Seq(T) /\ Len(a) = i /\ x \in T /\ i \in Nat
        BY <3>1
      <4>2. \A l \in 1..i : a[l] = <<p, l>>
        OBVIOUS
      <4> HIDE DEF a, x, T
      <4>3. a \o <<x>> = [l \in 1..(i + 1) |-> IF l <= i THEN a[l] ELSE x]
        <5>1. <<x>> \in Seq(T) /\ Len(<<x>>) = 1 /\ <<x>>[1] = x
          BY <4>1
        <5>2. a \o <<x>> \in Seq(T) /\ Len(a \o <<x>>) = i + 1
          BY <4>1, <5>1
        <5>3. \A l \in 1..(i + 1) : (a \o <<x>>)[l] = IF l <= i THEN a[l] ELSE x
          BY <4>1, <5>1
        <5>4. a \o <<x>> = [l \in 1..(i + 1) |-> (a \o <<x>>)[l]]
          BY <4>1, <5>2
        <5> QED BY <5>3, <5>4
      <4>4. ASSUME NEW l \in 1..(i + 1) PROVE (IF l <= i THEN a[l] ELSE x) = <<p, l>>
        <5>1. CASE l <= i
          BY <4>1, <4>2, <5>1
        <5>2. CASE ~(l <= i)
          <6>1. l = i + 1
            BY <4>1, <5>2
          <6> QED BY <5>2, <6>1 DEF x
        <5> QED BY <5>1, <5>2
      <4>5. a \o <<x>> = [l \in 1..(i + 1) |-> <<p, l>>]
        BY <4>3, <4>4
      <4> QED BY <4>5 DEF a, x
    <3> QED BY <3>1, <3>2, <3>3, <3>4
  <2> QED BY <2>1, <2>2 DEF Carried
<1>6. Delivered(B, cs, s, n, k, from[k]) /\ B[s + k] = Empty
  BY <1>2, <1>3, <1>4, <1>5, GathersPacket
<1>7. ASSUME NEW i \in 1..k
      PROVE  HandedOn(cs, s + i) = IF i = k THEN <<Whole(p, n)>> ELSE <<>>
  <2>1. HandedOn(cs, s + i) = Gather(B[s + i - 1], cs[s + i]).out
    BY DEF HandedOn, B
  <2>2. CASE i = k
    <3>1. Gather(B[s + k - 1], cs[s + k]).out = <<Piece(n, n, from[k])>>
      BY <1>6 DEF Delivered, OnePacket
    <3>2. Whole(p, n) = Piece(n, n, from[k])
      BY <1>1 DEF Whole, from, k
    <3> QED BY <2>1, <2>2, <3>1, <3>2
  <2>3. CASE i # k
    <3>1. i \in 1..(k - 1)
      BY <1>1, <2>3
    <3> QED BY <1>6, <2>1, <2>3, <3>1 DEF Delivered
  <2> QED BY <2>2, <2>3
<1> QED BY <1>6, <1>7 DEF Arrives, B, k

\* The transfers of packets, one packet after another.
LEMMA PiecesAre ==
  ASSUME NEW p \in Nat, NEW n \in Nat \ {0}, NEW g \in Nat
  PROVE  Pieces(p, n, g) \in Seq(Cut) /\ Len(Pieces(p, n, g)) = Transfers(n)
<1> USE ReassemblyAssumption
<1> DEFINE k == Transfers(n)
           m == (k - 1) * USB_MRU
<1>1. k \in Nat \ {0} /\ m < n
  BY TransfersOf
<1>2. m \in Nat
  <2>1. k - 1 \in Nat
    BY <1>1
  <2> QED BY <2>1, Multiples
<1>3. Pieces(p, n, g) = [i \in 1..k |-> Piece(IF i < k THEN USB_MRU ELSE n - m, IF i = 1 THEN n ELSE g, <<<<p, i>>>>)]
  BY DEF Pieces
<1> HIDE DEF k, m
<1>4. ASSUME NEW i \in 1..k
      PROVE  Piece(IF i < k THEN USB_MRU ELSE n - m, IF i = 1 THEN n ELSE g, <<<<p, i>>>>) \in Cut
  <2>1. n - m \in Nat /\ USB_MRU \in Nat /\ <<p, i>> \in Nat \X Nat
    BY <1>1, <1>2
  <2>2. <<<<p, i>>>> \in Seq(Nat \X Nat)
    BY <2>1
  <2> QED BY <2>1, <2>2 DEF Piece, Cut
<1>5. Pieces(p, n, g) \in Seq(Cut) /\ Len(Pieces(p, n, g)) = k
  BY <1>1, <1>3, <1>4
<1> QED BY <1>5 DEF k

\* x is what cs holds after its first s.
Lies(cs, s, x) == s + Len(x) <= Len(cs) /\ \A i \in 1..Len(x) : cs[s + i] = x[i]

LEMMA LiesBoth ==
  ASSUME NEW T, NEW a \in Seq(T), NEW b \in Seq(T)
  PROVE  /\ a \o b \in Seq(T) /\ Len(a \o b) = Len(a) + Len(b)
         /\ Lies(a \o b, 0, a) /\ Lies(a \o b, Len(a), b)
BY DEF Lies

LEMMA LiesOn ==
  ASSUME NEW T, NEW a \in Seq(T), NEW b \in Seq(T), NEW s \in Nat, NEW x \in Seq(T), Lies(a, s, x)
  PROVE  Lies(a \o b, s, x)
<1>1. Len(x) \in Nat /\ Len(a) \in Nat /\ s + Len(x) <= Len(a) /\ Len(a) <= Len(a \o b)
  BY DEF Lies
<1>2. ASSUME NEW i \in 1..Len(x) PROVE (a \o b)[s + i] = x[i]
  <2>1. s + i \in 1..Len(a)
    BY <1>1
  <2>2. (a \o b)[s + i] = a[s + i]
    BY <2>1
  <2> QED BY <2>2 DEF Lies
<1>3. s + Len(x) <= Len(a \o b)
  BY <1>1
<1> QED BY <1>2, <1>3 DEF Lies

\* Three sequences in cs one after the other, and the first and the last two of four.
Rows3(cs, a, b, c, u) ==
  Len(cs) = u + Len(c) /\ Lies(cs, 0, a) /\ Lies(cs, Len(a), b) /\ Lies(cs, u, c)
Rows4(cs, a, c, d, u, v) ==
  Len(cs) = v + Len(d) /\ Lies(cs, 0, a) /\ Lies(cs, u, c) /\ Lies(cs, v, d)
\* How far the first two go, and the first three.
Both(a, b)     == Len(a) + Len(b)
All3(a, b, c)  == Both(a, b) + Len(c)

LEMMA Between3 ==
  ASSUME NEW T, NEW a \in Seq(T), NEW b \in Seq(T), NEW c \in Seq(T)
  PROVE  a \o b \o c \in Seq(T) /\ Rows3(a \o b \o c, a, b, c, Both(a, b))
<1> DEFINE u == Both(a, b)
<1>0. u = Len(a) + Len(b)
  BY DEF Both
<1> HIDE DEF u
<1>1. /\ a \o b \in Seq(T) /\ Len(a \o b) = u
      /\ Lies(a \o b, 0, a) /\ Lies(a \o b, Len(a), b)
  BY <1>0, LiesBoth
<1>2. 0 \in Nat /\ Len(a) \in Nat
  OBVIOUS
<1> DEFINE e == a \o b
<1> HIDE DEF e
<1>3. e \in Seq(T) /\ Len(e) = u /\ Lies(e, 0, a) /\ Lies(e, Len(a), b)
  BY <1>1 DEF e
<1>4. e \o c \in Seq(T) /\ Len(e \o c) = Len(e) + Len(c) /\ Lies(e \o c, Len(e), c)
  BY <1>3, LiesBoth
<1>5. Lies(e \o c, 0, a) /\ Lies(e \o c, Len(a), b)
  BY <1>2, <1>3, LiesOn
<1>6. Len(e \o c) = u + Len(c) /\ Lies(e \o c, u, c)
  BY <1>3, <1>4
<1> QED BY <1>4, <1>5, <1>6 DEF e, u, Rows3

LEMMA Between4 ==
  ASSUME NEW T, NEW a \in Seq(T), NEW b \in Seq(T), NEW c \in Seq(T), NEW d \in Seq(T)
  PROVE  /\ a \o b \o c \o d \in Seq(T)
         /\ Rows4(a \o b \o c \o d, a, c, d, Both(a, b), All3(a, b, c))
<1> DEFINE e == a \o b \o c
           u == Both(a, b)
           v == All3(a, b, c)
<1>0. e \in Seq(T) /\ Rows3(e, a, b, c, u)
  BY Between3
<1>2. 0 \in Nat /\ u \in Nat /\ v = u + Len(c)
  BY DEF Both, All3
<1> HIDE DEF e, u, v
<1>1. /\ e \in Seq(T) /\ Len(e) = v
      /\ Lies(e, 0, a) /\ Lies(e, u, c)
  BY <1>0, <1>2 DEF Rows3
<1>3. e \o d \in Seq(T) /\ Len(e \o d) = Len(e) + Len(d) /\ Lies(e \o d, Len(e), d)
  BY <1>1, LiesBoth
<1>4. Lies(e \o d, 0, a) /\ Lies(e \o d, u, c)
  BY <1>1, <1>2, LiesOn
<1>5. Len(e \o d) = v + Len(d) /\ Lies(e \o d, v, d)
  BY <1>1, <1>3
<1> QED BY <1>3, <1>4, <1>5 DEF e, u, v, Rows4

LEMMA PacketLies ==
  ASSUME NEW cs, NEW s, NEW p \in Nat, NEW n \in Nat \ {0}, NEW g \in Nat, Lies(cs, s, Pieces(p, n, g))
  PROVE  At(cs, s, p, n, g)
BY PiecesAre DEF Lies, At

\* Three packets that fit, of any length, whatever their middles look like.
LEMMA ThreeWhole == GathersWhole
<1> USE ReassemblyAssumption
<1> SUFFICES ASSUME NEW m \in 1..DEV_MRU, NEW n \in 1..DEV_MRU, NEW o \in 1..DEV_MRU, NEW g \in Garbage
             PROVE  LET cs == Pieces(1, m, g) \o Pieces(2, n, g) \o Pieces(3, o, g)
                    IN  /\ Arrives(cs, 0, 1, m) /\ Arrives(cs, Transfers(m), 2, n)
                        /\ Arrives(cs, Transfers(m) + Transfers(n), 3, o)
                        /\ Buffers(cs)[Len(cs)] = Empty
  BY DEF GathersWhole
<1> DEFINE a  == Pieces(1, m, g)
           b  == Pieces(2, n, g)
           c  == Pieces(3, o, g)
           cs == a \o b \o c
           j  == Transfers(m)
           k  == Transfers(n)
           u  == j + k
           l  == Transfers(o)
<1>1. g \in Nat /\ m \in Nat \ {0} /\ n \in Nat \ {0} /\ o \in Nat \ {0} /\ {1, 2, 3} \subseteq Nat
  BY DEF Garbage
<1>2. /\ a \in Seq(Cut) /\ Len(a) = j /\ b \in Seq(Cut) /\ Len(b) = k
      /\ c \in Seq(Cut) /\ Len(c) = l
  BY <1>1, PiecesAre
<1>3. j \in Nat /\ k \in Nat /\ l \in Nat /\ u = j + k /\ u \in Nat
  BY <1>1, TransfersOf
<1>4. Len(cs) = u + l /\ Lies(cs, 0, a) /\ Lies(cs, j, b) /\ Lies(cs, u, c)
  <2> HIDE DEF a, b, c, j, k, l, u
  <2>0. a \in Seq(Cut) /\ b \in Seq(Cut) /\ c \in Seq(Cut)
    BY <1>2
  <2>1. u = Both(a, b)
    BY <1>2, <1>3 DEF Both
  <2>2. Rows3(a \o b \o c, a, b, c, Both(a, b))
    BY <2>0, Between3, Zenon
  <2> QED BY <1>2, <2>1, <2>2 DEF Rows3
<1>41. At(cs, 0, 1, m, g) /\ At(cs, j, 2, n, g) /\ At(cs, u, 3, o, g)
  <2> HIDE DEF cs, j, u
  <2> QED BY <1>1, <1>4, PacketLies
<1> HIDE DEF cs, u
<1>5. Len(cs) \in Nat /\ Buffers(cs)[0] = Empty
  BY <1>3, <1>4, Feeds
<1>6. Arrives(cs, 0, 1, m) /\ Buffers(cs)[j] = Empty
  <2>1. 0 + j = j /\ 0 \in Nat
    BY <1>3
  <2>2. Arrives(cs, 0, 1, m) /\ Buffers(cs)[0 + j] = Empty
    BY <1>41, <1>5, <2>1, PacketArrives, Zenon
  <2> QED BY <2>1, <2>2
<1>7. Arrives(cs, j, 2, n) /\ Buffers(cs)[u] = Empty
  BY <1>3, <1>41, <1>5, <1>6, PacketArrives
<1>8. Arrives(cs, u, 3, o) /\ Buffers(cs)[u + l] = Empty
  BY <1>3, <1>41, <1>5, <1>7, PacketArrives
<1> QED BY <1>4, <1>6, <1>7, <1>8 DEF cs, u

\* One that is too long, between two that fit and before a short transfer.
LEMMA FourAgain == GathersAgain
<1> USE ReassemblyAssumption
<1> SUFFICES ASSUME NEW n \in (DEV_MRU + 1)..MaxPacket, NEW h \in 1..DEV_MRU, NEW m \in 1..DEV_MRU,
                    NEW s \in 1..(USB_MRU - 1), NEW g \in Garbage
             PROVE  LET cs == Pieces(1, h, g) \o Pieces(2, n, g) \o Pieces(3, s, g) \o Pieces(4, m, g)
                    IN  /\ Arrives(cs, 0, 1, h)
                        /\ Arrives(cs, Transfers(h) + Transfers(n) + 1, 4, m)
                        /\ Buffers(cs)[Len(cs)] = Empty
  BY DEF GathersAgain
<1> DEFINE a  == Pieces(1, h, g)
           b  == Pieces(2, n, g)
           c  == Pieces(3, s, g)
           d  == Pieces(4, m, g)
           cs == a \o b \o c \o d
           j  == Transfers(h)
           k  == Transfers(n)
           l  == Transfers(m)
           u  == j + k
           v  == u + 1
<1>1. /\ g \in Nat /\ m \in Nat \ {0} /\ n \in Nat \ {0} /\ h \in Nat \ {0} /\ s \in Nat \ {0}
      /\ s < USB_MRU /\ {1, 2, 3, 4} \subseteq Nat
  BY DEF Garbage
<1>2. /\ a \in Seq(Cut) /\ Len(a) = j /\ b \in Seq(Cut) /\ Len(b) = k
      /\ c \in Seq(Cut) /\ Len(c) = 1 /\ d \in Seq(Cut) /\ Len(d) = l
  <2>1. Transfers(s) = 1
    BY <1>1, TransfersOf
  <2> QED BY <1>1, <2>1, PiecesAre
<1>3. j \in Nat /\ k \in Nat /\ l \in Nat /\ u = j + k /\ u \in Nat /\ v = u + 1 /\ v \in Nat
  BY <1>1, TransfersOf
<1>4. /\ cs \in Seq(Cut) /\ Len(cs) = v + l
      /\ Lies(cs, 0, a) /\ Lies(cs, u, c) /\ Lies(cs, v, d)
  <2> HIDE DEF a, b, c, d, j, k, l, u, v
  <2>0. a \in Seq(Cut) /\ b \in Seq(Cut) /\ c \in Seq(Cut) /\ d \in Seq(Cut)
    BY <1>2
  <2>1. u = Both(a, b) /\ v = All3(a, b, c)
    BY <1>2, <1>3 DEF Both, All3
  <2>2. /\ a \o b \o c \o d \in Seq(Cut)
        /\ Rows4(a \o b \o c \o d, a, c, d, Both(a, b), All3(a, b, c))
    BY <2>0, Between4, Zenon
  <2> QED BY <1>2, <2>1, <2>2 DEF Rows4
<1>41. At(cs, 0, 1, h, g) /\ At(cs, v, 4, m, g)
  <2> HIDE DEF cs, v
  <2> QED BY <1>1, <1>4, PacketLies
<1>42. cs[u + 1] = c[1]
  <2> HIDE DEF cs, c, u
  <2> QED BY <1>2, <1>4 DEF Lies
<1> HIDE DEF cs, u, v
<1>5. Len(cs) \in Nat /\ Buffers(cs)[0] = Empty /\ Fed(Buffers(cs), cs, Len(cs))
  <2>1. Len(cs) \in Nat
    BY <1>3, <1>4
  <2> QED BY <2>1, Feeds
<1>6. Arrives(cs, 0, 1, h)
  <2>1. 0 \in Nat
    OBVIOUS
  <2> QED BY <1>41, <1>5, <2>1, PacketArrives, Zenon
<1>7. c[1].len = s
  <2>1. Transfers(s) = 1 /\ (1 - 1) * USB_MRU = 0 /\ s - 0 = s
    BY <1>1, TransfersOf
  <2> QED BY <2>1 DEF Pieces, Piece
<1>8. Buffers(cs)[v] = Empty
  <2>1. u \in 0..Len(cs) /\ u \in 0..(Len(cs) - 1)
    <3>1. Len(cs) = u + 1 + l /\ u \in Nat /\ l \in Nat
      BY <1>3, <1>4
    <3> HIDE DEF l
    <3> QED BY <3>1
  <2>2. Buffers(cs)[u].len \in 0..DEV_MRU
    BY <1>4, <2>1, FitsAlways
  <2>3. Buffers(cs)[u + 1] = Gather(Buffers(cs)[u], cs[u + 1]).buf
    BY <1>5, <2>1, FedAt
  <2> HIDE DEF c
  <2> QED BY <1>3, <1>42, <1>7, <2>2, <2>3, ShortResyncs
<1>9. Arrives(cs, v, 4, m) /\ Buffers(cs)[v + l] = Empty
  BY <1>3, <1>41, <1>5, <1>8, PacketArrives
<1> QED BY <1>4, <1>6, <1>9 DEF cs, u, v

\* device_data_input hands on every packet that fits the buffer whole, in order and
\* once, keeps nothing back, and is in step again after the next short transfer when one
\* did not fit: for transfers, a buffer and packets of any size (device.c:729-774).
THEOREM PacketsAreWhole == Spec => []WholePackets
<1>1. WholePackets
  BY ThreeWhole, FourAgain DEF WholePackets
<1> QED BY <1>1, PTL
=============================================================================
