---------------------------- MODULE UsbTransport -----------------------------
(***************************************************************************)
(* The USB side of the daemon (usbmuxd/src/usb.c): the usb_device of each  *)
(* attached device with its bulk transfers, the discovery that marks and   *)
(* sweeps, the hotplug callback, the reaping of dead devices, and          *)
(* usb_disconnect, which cancels the transfers of a device and runs        *)
(* libusb's event handling until every one of them has been called back.   *)
(* Of usbmuxd/src/device.c it has what hangs on it: when a mux_device is   *)
(* made, refused and removed.                                              *)
(*                                                                         *)
(* All of it is one thread.  The interleavings are libusb's: wherever      *)
(* events are handled, and that includes the inside of usb_disconnect and  *)
(* of the opening of a device in usb_discover, any callback of any device  *)
(* may run.  An element of Devices is one attachment, which has a bus and  *)
(* an address of its own; the program may open it more than once.          *)
(*                                                                         *)
(* What the bytes of a transfer mean is in MuxReassembly and MuxFlow.      *)
(***************************************************************************)
EXTENDS FiniteSetsExt, MuxReassembly

CONSTANTS
  Devices,      \* attachments of a device to the bus
  NoDevice,     \* the device usb_disconnect works on, when it does not
  NUM_RX_LOOPS, \* receive transfers of a device (3)
  MaxFailures,  \* device lists that may fail in a row (5)
  MaxTx         \* bound: transmit transfers under way at one time

ASSUME UsbAssumption ==
  /\ NoDevice \notin Devices
  /\ NUM_RX_LOOPS \in Nat \ {0} /\ MaxFailures \in Nat /\ MaxTx \in Nat \ {0}

VARIABLES
  \* the bus, and the hotplug events libusb has not delivered yet
  phys, events,
  \* how devices are found: "poll" every second, "hotplug" events, or only when the
  \* user asks (--disable-hotplug), where libusb has such events ("manual": it goes
  \* on telling that a device has left) or has none ("blind")
  mode, devlist_failures,
  \* usb.c's device_list, the alive flags, and the transfers by what became of them
  device_list, alive, rx, tx,
  \* history: devices that a discovery has found alive in a list from before they
  \* went, and after their departure had been delivered
  revived,
  \* the mux_device of each usb_device
  mux,
  \* the thread: main loop, shutdown; where it is; devices a loop has to visit;
  \* the device being disconnected and the loop that has asked for it
  stage, pc, todo, closing,
  fault

busVars  == <<phys, events>>
listVars == <<device_list, alive, revived>>
xferVars == <<rx, tx>>
runVars  == <<stage, pc, todo, closing>>
vars == <<busVars, mode, devlist_failures, listVars, xferVars, mux, runVars, fault>>

\* Receive transfers: in flight; cancelled; submitted again although the device
\* is being disconnected; completed and not submitted again.  All are in rx_xfers.
Loops   == 0..NUM_RX_LOOPS
RxState == [fly : Loops, cancelled : Loops, again : Loops, lost : Loops]
\* Transmit transfers: in flight, and in flight with the buffer freed.
TxState == [fly : Nat, freed : Nat]

NoRx == [fly |-> 0, cancelled |-> 0, again |-> 0, lost |-> 0]
NoTx == [fly |-> 0, freed |-> 0]

RxCount(d) == rx[d].fly + rx[d].cancelled + rx[d].again + rx[d].lost
TxCount(d) == tx[d].fly + tx[d].freed
Room == MaxTx - MapThenSumSet(TxCount, Devices)

\* libusb runs callbacks: from usb_process, from usb_disconnect, and from the
\* control transfers with which usb_device_add opens a device it did not know.
Handling == \/ pc \in {"events", "wait"}
            \/ pc = "discover" /\ todo \ device_list # {}

Undefined(f) ==
  /\ fault' = f
  /\ UNCHANGED <<busVars, mode, devlist_failures, listVars, xferVars, mux, runVars>>

-----------------------------------------------------------------------------
(***************************************************************************)
(* Sending, and the packets a device sends.                                *)
(***************************************************************************)

\* usb_send: the transfer may not be taken; a packet that fills its last USB
\* packet is followed by an empty one, and when only that one is not taken the
\* caller frees the buffer of a transfer that is under way.
SendResults(d) ==
  LET Sent(n) == phys[d] = "here" /\ n <= Room
  IN  {tx[d]} \cup {[tx[d] EXCEPT !.fly = @ + n] : n \in {m \in {1, 2} : Sent(m)}}
              \cup {[tx[d] EXCEPT !.freed = @ + n] : n \in {m \in {1} : Sent(m)}}

\* device_data_input: the first packet is the device's version.  With one it
\* does not know the mux_device is freed, with one it knows a SETUP packet
\* goes out; the packets of connections may be answered.
DataInput(d) ==
  \/ UNCHANGED <<mux, tx>>
  \/ /\ mux[d] = "INIT"
     /\ mux' = [mux EXCEPT ![d] = "REFUSED"]
     /\ UNCHANGED tx
  \/ /\ mux[d] \in {"INIT", "ACTIVE"}
     /\ mux' = [mux EXCEPT ![d] = "ACTIVE"]
     /\ \E t \in SendResults(d) : tx' = [tx EXCEPT ![d] = t]

\* device_remove: the connections of an active device are reset on the way out.
\* What tx[d] may be afterwards.
AfterRemove(d) == IF mux[d] = "ACTIVE" THEN SendResults(d) ELSE {tx[d]}
MuxRemoved(d)  == [mux EXCEPT ![d] = "NONE"]

\* A handler of the daemon sends a packet to a device.
SendPacket(d) ==
  /\ pc = "poll" /\ mux[d] = "ACTIVE"
  /\ \E t \in SendResults(d) : t # tx[d] /\ tx' = [tx EXCEPT ![d] = t]
  /\ UNCHANGED <<busVars, mode, devlist_failures, listVars, rx, mux, runVars, fault>>

-----------------------------------------------------------------------------
(***************************************************************************)
(* Callbacks of transfers.                                                 *)
(***************************************************************************)

\* tx_callback: only a failure marks the device; the buffer is freed either way.
TxCallback(d, kind, ok) ==
  /\ Handling /\ tx[d][kind] > 0
  /\ IF kind = "freed" THEN Undefined("double_free") ELSE
     /\ tx' = [tx EXCEPT ![d][kind] = @ - 1]
     /\ alive' = IF ok THEN alive ELSE alive \ {d}
     /\ revived' = revived \cap alive'
     /\ UNCHANGED <<busVars, mode, devlist_failures, device_list, rx, mux, runVars, fault>>

\* Mutant of Resubmitted: another transfer is submitted, and the one that has
\* completed stays in the collection.
ResubmittedTwice(d, kind) ==
  [rx[d] EXCEPT !.fly = @ + 1]

\* libusb_submit_transfer of a receive transfer that has completed.  Nobody asks
\* whether the device is being disconnected, or looks at the result: on a device
\* that is gone the transfer stays in rx_xfers.
Resubmitted(d, kind) ==
  LET fate == IF phys[d] # "here" THEN "lost" ELSE IF closing = d THEN "again" ELSE "fly"
      r == [rx[d] EXCEPT ![kind] = @ - 1]
  IN  [r EXCEPT ![fate] = @ + 1]

\* rx_callback with data.  A transfer may have completed before it was cancelled.
RxData(d, kind) ==
  /\ Handling /\ rx[d][kind] > 0
  /\ DataInput(d)
  /\ rx' = [rx EXCEPT ![d] = Resubmitted(d, kind)]
  /\ UNCHANGED <<busVars, mode, devlist_failures, listVars, runVars, fault>>

\* rx_callback with an error, a cancellation or the end of the device.
RxFails(d, kind) ==
  /\ Handling /\ rx[d][kind] > 0
  /\ rx' = [rx EXCEPT ![d][kind] = @ - 1]
  /\ alive' = alive \ {d} /\ revived' = revived \ {d}
  /\ UNCHANGED <<busVars, mode, devlist_failures, device_list, tx, mux, runVars, fault>>

-----------------------------------------------------------------------------
(***************************************************************************)
(* Devices come.                                                           *)
(***************************************************************************)

\* It has left the bus, and whoever was to be told of it has been.
Departed(d) == phys[d] = "gone" /\ <<"LEFT", d>> \notin events

\* usb_device_add of a device it knows.  Nobody asks whether it is still there.
AddKnown(d) ==
  /\ d \in device_list
  /\ alive' = alive \cup {d}
  /\ revived' = IF Departed(d) THEN revived \cup {d} ELSE revived
  /\ UNCHANGED <<device_list, xferVars, mux>>

\* It cannot be opened, configured, claimed or told our version: nothing stays.
AddFails(d) ==
  /\ d \notin device_list
  /\ UNCHANGED <<listVars, xferVars, mux>>

\* It is opened, device_add has sent our version, and some of the receive
\* loops have started.  None at all is not noticed.
AddNew(d) ==
  /\ d \notin device_list /\ phys[d] = "here" /\ Room > 0
  /\ device_list' = device_list \cup {d}
  /\ alive' = alive \cup {d} /\ UNCHANGED revived
  /\ mux' = [mux EXCEPT ![d] = "INIT"]
  /\ tx' = [tx EXCEPT ![d] = [NoTx EXCEPT !.fly = 1]]
  /\ \E n \in 0..NUM_RX_LOOPS : rx' = [rx EXCEPT ![d] = [NoRx EXCEPT !.fly = n]]

UsbDeviceAdd(d) == AddKnown(d) \/ AddFails(d) \/ AddNew(d)

\* usb_hotplug_cb, LIBUSB_HOTPLUG_EVENT_DEVICE_ARRIVED.  libusb refuses a
\* control transfer inside a callback, and without the serial number that it
\* fetches usb_device_add gives up: nothing is added here.
HotplugArrived(d) ==
  /\ Handling /\ <<"ARRIVED", d>> \in events
  /\ events' = events \ {<<"ARRIVED", d>>}
  /\ IF mode = "hotplug" THEN AddKnown(d) \/ AddFails(d)
                         ELSE UNCHANGED <<listVars, xferVars, mux>>
  /\ UNCHANGED <<phys, mode, devlist_failures, runVars, fault>>

\* usb_hotplug_cb, LIBUSB_HOTPLUG_EVENT_DEVICE_LEFT: the mux_device goes at
\* once, the usb_device when it is reaped.
HotplugLeft(d) ==
  /\ Handling /\ <<"LEFT", d>> \in events /\ <<"ARRIVED", d>> \notin events
  /\ events' = events \ {<<"LEFT", d>>}
  /\ IF d \in device_list
       THEN /\ alive' = alive \ {d} /\ revived' = revived \ {d}
            /\ mux' = MuxRemoved(d)
            /\ \E t \in AfterRemove(d) : tx' = [tx EXCEPT ![d] = t]
       ELSE UNCHANGED <<alive, revived, mux, tx>>
  /\ UNCHANGED <<phys, mode, devlist_failures, device_list, rx, runVars, fault>>

-----------------------------------------------------------------------------
(***************************************************************************)
(* The main loop as far as it is about USB: events, discovery, reaping.    *)
(***************************************************************************)
Goto(p, D) == pc' = p /\ todo' = D /\ UNCHANGED <<stage, closing>>

\* The main loop has ended, and usb_shutdown begins: no more hotplug events.  The
\* turns of usb_process_timeout before it are like those of the loop.
GoDown ==
  /\ stage' = "down" /\ pc' = "walk" /\ todo' = device_list
  /\ events' = {}
  /\ UNCHANGED closing

\* ppoll returns and usb_process is called.
Wake ==
  /\ pc = "poll" /\ Goto("events", todo)
  /\ UNCHANGED <<busVars, mode, devlist_failures, listVars, xferVars, mux, fault>>

\* libusb_handle_events_timeout returns: reap_dead_devices.
EventsDone ==
  /\ pc = "events" /\ Goto("walk", device_list)
  /\ UNCHANGED <<busVars, mode, devlist_failures, listVars, xferVars, mux, fault>>

\* It fails, or a signal or another part ends the loop.
Stop ==
  /\ pc \in {"poll", "events"} /\ GoDown
  /\ UNCHANGED <<phys, mode, devlist_failures, listVars, xferVars, mux, fault>>

\* usb_discover is called by usb_process when the time has come, which it does only
\* when polling, and by main_loop, in every mode, when a signal (SIGUSR2 with -z)
\* has forced it.
Due(forced) == pc = "poll" /\ (forced \/ mode = "poll")

\* The list of devices cannot be had; once too often is fatal, but not to main_loop,
\* which does not look at the result.  Where nobody polls the count decides nothing
\* and is not kept; where the time comes it is kept up to the first that is too many.
DiscoverFails(forced) ==
  /\ Due(forced)
  /\ devlist_failures' = IF mode = "poll" /\ devlist_failures <= MaxFailures
                           THEN devlist_failures + 1 ELSE devlist_failures
  /\ IF devlist_failures' > MaxFailures /\ ~forced
       THEN GoDown ELSE UNCHANGED <<events, runVars>>
  /\ UNCHANGED <<phys, mode, listVars, xferVars, mux, fault>>

\* Mutant of Discover: the sweep without the mark.
DiscoverUnmarked(forced) ==
  /\ Due(forced)
  /\ devlist_failures' = 0
  /\ Goto("discover", {d \in Devices : phys[d] = "here"})
  /\ UNCHANGED <<busVars, mode, listVars, xferVars, mux, fault>>

\* Mark: all are dead until they are found in the list.
Discover(forced) ==
  /\ Due(forced)
  /\ devlist_failures' = 0
  /\ alive' = {} /\ revived' = {}
  /\ Goto("discover", {d \in Devices : phys[d] = "here"})
  /\ UNCHANGED <<busVars, mode, device_list, xferVars, mux, fault>>

Discovery == \E forced \in BOOLEAN : Discover(forced) \/ DiscoverFails(forced)

DiscoverAdd(d) ==
  /\ pc = "discover" /\ d \in todo
  /\ UsbDeviceAdd(d)
  /\ Goto(pc, todo \ {d})
  /\ UNCHANGED <<busVars, mode, devlist_failures, fault>>

\* Sweep: reap_dead_devices.
DiscoverDone ==
  /\ pc = "discover" /\ todo = {}
  /\ Goto("walk", device_list)
  /\ UNCHANGED <<busVars, mode, devlist_failures, listVars, xferVars, mux, fault>>

-----------------------------------------------------------------------------
(***************************************************************************)
(* The walk over device_list: reap_dead_devices, or usb_shutdown's, which  *)
(* spares none.                                                            *)
(***************************************************************************)
ToGo(d) == d \in todo /\ (d \notin alive \/ stage = "down")

\* Mutant of Removing: usb_disconnect without device_remove.
RemovingUsbOnly(d) ==
  UNCHANGED <<mux, tx>>

\* device_remove, which may send once more.
Removing(d) ==
  /\ mux' = MuxRemoved(d)
  /\ \E t \in AfterRemove(d) : tx' = [tx EXCEPT ![d] = t]

\* Mutant of Cancelled: the receive transfers are not cancelled.
CancelledNone(d) == rx[d]

\* libusb_cancel_transfer of the receive transfers that are in flight.
Cancelled(d) == [rx[d] EXCEPT !.fly = 0, !.cancelled = rx[d].fly]

\* The walk has come to d; of the devices that stay it has passed some.
Disconnect(d) ==
  /\ pc = "walk" /\ ToGo(d)
  /\ Removing(d)
  /\ rx' = [rx EXCEPT ![d] = Cancelled(d)]
  /\ \E S \in SUBSET {e \in todo : ~ToGo(e)} : todo' = todo \ (S \cup {d})
  /\ closing' = d /\ pc' = "wait"
  /\ UNCHANGED <<busVars, mode, devlist_failures, listVars, stage, fault>>

\* Mutant of CalledBack: the transmit transfers are not waited for.
CalledBackRxOnly(d) ==
  RxCount(d) = 0

\* The busy-wait of usb_disconnect is over.
CalledBack(d) == RxCount(d) = 0 /\ TxCount(d) = 0

\* The usb_device is freed.
DisconnectDone ==
  /\ pc = "wait" /\ CalledBack(closing)
  /\ device_list' = device_list \ {closing}
  /\ alive' = alive \ {closing} /\ revived' = revived \ {closing}
  /\ closing' = NoDevice /\ pc' = "walk"
  /\ UNCHANGED <<busVars, mode, devlist_failures, xferVars, mux, stage, todo, fault>>

WalkDone ==
  /\ pc = "walk" /\ \A d \in todo : ~ToGo(d)
  /\ Goto(IF stage = "down" THEN "off" ELSE "poll", {})
  /\ UNCHANGED <<busVars, mode, devlist_failures, listVars, xferVars, mux, fault>>

-----------------------------------------------------------------------------
(***************************************************************************)
(* The bus.                                                                *)
(***************************************************************************)
Told == mode \in {"hotplug", "manual"}

\* libusb queues a message for the callback, if there is one.
Notice(what, d) ==
  events' = IF Told /\ stage = "run" THEN events \cup {<<what, d>>} ELSE events

Attach(d) ==
  /\ phys[d] = "away"
  /\ phys' = [phys EXCEPT ![d] = "here"]
  /\ Notice("ARRIVED", d)
  /\ UNCHANGED <<mode, devlist_failures, listVars, xferVars, mux, runVars, fault>>

Detach(d) ==
  /\ phys[d] = "here"
  /\ phys' = [phys EXCEPT ![d] = "gone"]
  /\ Notice("LEFT", d)
  /\ UNCHANGED <<mode, devlist_failures, listVars, xferVars, mux, runVars, fault>>

-----------------------------------------------------------------------------
\* usb_init: the devices that are attached are added, by usb_discover or by the
\* hotplug callback, which LIBUSB_HOTPLUG_ENUMERATE calls from here.
Init ==
  /\ phys \in [Devices -> {"away", "here"}] /\ events = {}
  /\ mode \in {"poll", "hotplug", "manual", "blind"} /\ devlist_failures = 0
  /\ device_list = {} /\ alive = {} /\ revived = {}
  /\ rx = [d \in Devices |-> NoRx] /\ tx = [d \in Devices |-> NoTx]
  /\ mux = [d \in Devices |-> "NONE"]
  /\ stage = "run" /\ pc = "discover" /\ todo = {d \in Devices : phys[d] = "here"} /\ closing = NoDevice
  /\ fault = "none"

TxDone(d) == \E k \in {"fly", "freed"}, ok \in BOOLEAN : TxCallback(d, k, ok)
RxEnds(d, k) == RxData(d, k) \/ RxFails(d, k)
RxDone(d) == \E k \in {"fly", "cancelled", "again"} : RxEnds(d, k)
Hotplug(d) == HotplugArrived(d) \/ HotplugLeft(d)

Thread == \/ Wake \/ EventsDone \/ DiscoverDone \/ DisconnectDone \/ WalkDone
          \/ \E d \in Devices : Disconnect(d) \/ DiscoverAdd(d)

Next ==
  /\ fault = "none"
  /\ \/ Thread \/ Stop \/ Discovery
     \/ \E d \in Devices : \/ SendPacket(d) \/ TxDone(d) \/ RxDone(d) \/ Hotplug(d)
                           \/ Attach(d) \/ Detach(d)

(***************************************************************************)
(* The thread goes on, and when polling, but only then, a discovery comes  *)
(* due every second: nothing obliges a user to force one.  libusb calls    *)
(* back what was cancelled or belongs to a device that is gone, and        *)
(* delivers its hotplug events; it is never obliged to deliver data.       *)
(***************************************************************************)
MustCallBack(d) ==
  \/ RxEnds(d, "cancelled") \/ (phys[d] = "gone" /\ \E k \in {"fly", "again"} : RxEnds(d, k))
  \/ TxDone(d) \/ Hotplug(d)

Fairness ==
  /\ WF_vars(fault = "none" /\ Thread)
  /\ SF_vars(fault = "none" /\ Discover(FALSE))
  /\ \A d \in Devices : SF_vars(fault = "none" /\ MustCallBack(d))

Spec == Init /\ [][Next]_vars
FairSpec == Spec /\ Fairness

-----------------------------------------------------------------------------
(***************************************************************************)
(* What holds.  All of it is up to a fault.                                *)
(***************************************************************************)

\* The state of every variable is one the program can be in.
TypeOK ==
  /\ phys \in [Devices -> {"away", "here", "gone"}]
  /\ events \subseteq {"ARRIVED", "LEFT"} \X Devices
  /\ mode \in {"poll", "hotplug", "manual", "blind"} /\ devlist_failures \in 0..(MaxFailures + 1)
  /\ device_list \subseteq Devices /\ alive \subseteq device_list /\ revived \subseteq alive
  /\ rx \in [Devices -> RxState] /\ tx \in [Devices -> TxState]
  /\ \A d \in Devices : RxCount(d) <= NUM_RX_LOOPS
  /\ mux \in [Devices -> {"NONE", "INIT", "ACTIVE", "REFUSED"}]
  /\ stage \in {"run", "down"}
  /\ pc \in {"poll", "events", "discover", "walk", "wait", "off"}
  /\ todo \subseteq Devices /\ closing \in Devices \cup {NoDevice}
  /\ closing # NoDevice <=> pc = "wait"
  /\ fault \in {"none", "double_free"}

\* A transfer has a usb_device for as long as it is in libusb's hands: its
\* callback writes to it.  usb_disconnect frees the device after the last one.
TransfersOwned ==
  \A d \in Devices \ device_list : RxCount(d) = 0 /\ TxCount(d) = 0

\* The pointer from a mux_device to its usb_device is good: whichever of the two
\* lists, in two files, is changed first, no mux_device is left when its
\* usb_device is being taken apart or is gone.
MuxHasUsb ==
  \A d \in Devices : mux[d] # "NONE" => d \in device_list \ {closing}

Talking == \E d \in Devices : mux[d] = "ACTIVE"

\* Whatever the lengths of the packets of a device, as long as they fit the
\* buffer, device_data_input hands each on whole, in order, once, and keeps
\* nothing back.  One that does not fit is dropped, and it takes others with it at
\* most up to the next short transfer: the packets after that one are whole again,
\* and the one before is.
WholePackets == Talking => GathersWhole /\ GathersAgain

\* The device that usb_disconnect works on, and no other, has had its receive
\* transfers cancelled: it never waits for one that is simply in flight, whatever
\* rx_callback submits meanwhile, and leaves no cancelled one to the next use.
AllCancelled ==
  \A d \in Devices : IF d = closing THEN rx[d].fly = 0
                     ELSE rx[d].cancelled = 0 /\ rx[d].again = 0

\* While usb_disconnect waits nothing is added to what it waits for: no handler that
\* libusb's callbacks reach meanwhile, hotplug and data of that device included, sends
\* to the device or submits more transfers than have come back.
NothingAdded ==
  [][\A d \in Devices : d = closing =>
       RxCount(d)' <= RxCount(d) /\ TxCount(d)' <= TxCount(d)]_vars

\* A transfer that usb_disconnect waits for and will not be called back, or not
\* before the device has data or goes: rx_callback has submitted it again, or tried.
Stuck == pc = "wait" /\ rx[closing].again + rx[closing].lost > 0

\* usb_disconnect returns, but for that.
DisconnectEnds == pc = "wait" ~> (pc # "wait" \/ Stuck \/ fault # "none")

\* No device that has gone escapes the walks.  Where libusb tells of it, then once it
\* has told, no mux_device is left, whatever is sent or received meanwhile, and the
\* usb_device is marked dead; no late event of its arrival revives it, only a forced
\* discovery whose list is older than the departure can.  And usb_shutdown's walk
\* leaves none out, whatever is marked and sent meanwhile.
GoneIsFound ==
  /\ Told /\ stage = "run" =>
       \A d \in Devices : Departed(d) => mux[d] = "NONE" /\ d \notin alive \ revived
  /\ stage = "down" => \A d \in device_list : pc # "off" /\ d \in todo \cup {closing}

\* A device that has been unplugged is forgotten, by its hotplug event or by a poll
\* that does not find it, and so is one that is marked dead behind the back of the
\* walk unless a discovery finds it again first.  Without polling there are two
\* exceptions: a gone device that a forced discovery has revived from a list older
\* than its departure (usb.c:269-271), and, if libusb has no hotplug events either,
\* one that nothing has marked.  They wait for the next forced discovery.
DeadIsReaped ==
  \A d \in Devices :
    (d \in device_list /\ (d \notin alive \/ (phys[d] = "gone" /\ mode # "blind")))
      ~> \/ d \notin device_list \/ Stuck \/ fault # "none"
         \/ d \in alive /\ (phys[d] = "here" \/ (mode # "poll" /\ d \in revived))
         \/ d \in alive /\ mode = "blind"
=============================================================================
