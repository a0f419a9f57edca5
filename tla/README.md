# A verification development of the Android iOS-tethering daemon

This repository ports the iOS USB stack to Android: the multiplexing daemon
`usbmuxd`, its client library `libusbmuxd`, the tools that use it, and a small
binder service that switches a device between tethering and audio.  The code of
its own is a few thousand lines of C and C++; the rest (libimobiledevice, libplist,
libusb, libfuse, ifuse, ideviceinstaller, libxml2, libzip, libiconv, openssl) is
vendored.  The modules here model the daemon, the part of the client library that has
a thread of its own, and the service that starts and stops the daemon: where
concurrency, ordering and failure handling live.

`PROJECT.json` lists the components, the runs, the source lines each definition
stands for, the hazards and the theorems.

## 1. Inventory

| component | source | state | operations | met with |
|---|---|---|---|---|
| **tunnels** | `usbmuxd/src/device.c` (connections), `client.c` (read/write/events) | `mux_connection`: sequence numbers, windows, `ib_buf`, `sendable`, ACK flag | `send_tcp`, `update_connection`, `device_client_process`, `connection_device_input`, `device_tcp_input`, `device_check_timeouts`, `connection_teardown` | clients by `client_read/write/set_events`; device by USB packets |
| **objects and loop** | `client.c`, `device.c`, `main.c` | lists of clients, devices, connections; the poll snapshot | accept, requests, connect, abort, teardown, add, version, remove, shutdown | libusb's callbacks inside `usb_process`, sockets |
| **notification** | `client.c`, `device.c`, `preflight.c` | `CLIENT_LISTEN`, `visible`, `ob_buf`, two mutexes | `start_listen`, `device_get_list`, `client_device_add`, `client_device_remove`, `process_send` | preflight worker threads |
| **packet layer** | `device.c` | `pktbuf`, `pktlen`, packet counters | `device_data_input`, `send_packet` | USB transfers |
| **USB transport** | `usb.c` | `usb_device`: transfers, `alive`; discovery timer | `usb_send`, callbacks, `usb_discover`, hotplug, reap, `usb_disconnect` | libusb |
| **instance and signals** | `main.c` | lock file, `should_exit`, `should_discover` | start, signal a running instance, `ppoll` | other instances, signals |
| **preflight** | `preflight.c` | one detached thread per device, `cb_data` | pairing conversation, then `client_device_add` | libimobiledevice |
| **pair records** | `conf.c` | files, system BUID | read, write, remove | clients' requests |
| **utilities** | `utils.c`, `log.c` | none | `collection`, `fdlist`, plist files | all |
| **client library** | `libusbmuxd/src/libusbmuxd.c` | device list, monitor thread | requests, subscribe, unsubscribe | daemon's socket |
| **iproxy** | `libusbmuxd/tools/iproxy.c` | none | copy bytes | client library |
| **iPod manager** | `ipod_mgr_service/*.cpp` | `isIPOD` | `ChangeMode`, uevent thread | binder, `usbmuxdd`, `usbAudio` |
| **usbAudio**, **device manager JNI** | `usbAudio/`, `idevice/` | none | one-shot calls | libusb, libimobiledevice |

How they interact: one main thread runs `main_loop`.  A turn computes a timeout,
polls, lets libusb run its callbacks (which call `device_data_input`, hence every
`device_*_input` handler), accepts, and then handles each client descriptor that
`poll` reported.  The device side calls the client side (`client_notify_connect`,
`client_write`, `client_close`) and the client side calls the device side
(`device_start_connect`, `device_abort_connect`, `device_client_process`).  The
only other threads are the preflight workers, one for each device, which talk to it
through the daemon's own socket and call `client_device_add`, and the notifier threads
that libimobiledevice gives them.  Outside the daemon there are other processes of
`usbmuxdd`, which find the first by its lock file and send it signals; the iPod manager,
which starts such processes on uevents and on calls; and the programs, whose library has
a monitor thread that listens to the daemon and outlives it.

What is hard here:

* **flow control** at three buffers, with a delayed ACK that re-opens a closed
  window, and poll masks that are derived state;
* **teardown**, where clients and connections free each other, and where
  reported events are older than the state they are handled in;
* **pipelined requests** and the change of a socket from requests to a tunnel;
* **two threads and two mutexes**, which several accesses do without;
* **partial failure** of a send in the middle of a handler;
* **callbacks inside callbacks' waits**: libusb runs any device's while one is opened or
  disconnected;
* **processes** that find each other by a lock file, and files that survive a death;
* **shutdown and unplugging** at any point of all that.

What makes each part correct:

* tunnels: nothing lost, duplicated or reordered; no buffer overrun; no ACK of data
  that may still be dropped; no direction forgotten; a hang-up is noticed;
* objects: pointers match in both directions; every request answered once, in
  order; a device is told of each connection that ends; nothing survives shutdown;
* notification: every listener learns of every device that is and stays visible,
  and of the removal of each it was told of; the threads never stop each other;
* packet layer: what is gathered is one packet; what is dropped takes nothing with it
  past the next short transfer;
* USB transport: no transfer outlives its device, no `mux_device` its `usb_device`; a
  disconnect ends; a device that has gone is forgotten;
* instance: at most one daemon holds lock and socket; what dead ones leave behind stops
  nobody; a request to exit is carried out;
* preflight and pair records: no pointer to a worker's stack outlives the worker; a
  worker ends.  That a good record stays is not kept to (section 5);
* client library: the program is told what the daemon announced, never a mixture of two
  daemons; `usbmuxd_unsubscribe` returns;
* iPod manager: `isIPOD` follows the port, and the removal of the iPod ends the daemon.

## 2. Plan

Done, in this order:

1. `MuxFlow` with its abstract specification `TetherStream`, and `MuxFlowProof` for its
   properties and the refinement.
2. `MuxLifecycle` with its abstract specification `MuxSession`, `MCMuxLifecycle`,
   `MuxLifecycleProof` for connections and `MuxRequestsProof` for requests and the
   refinement.
3. `MuxNotify` and `MuxNotifyProof`.
4. `MuxReassembly`: `device_data_input`'s gathering, against a reference that cuts
   packets up.
5. `UsbTransport` and `UsbTransportProof`: transfers and callbacks, discovery, hotplug, reaping; it uses `MuxReassembly` for input and has
   `MuxLifecycle`'s `DeviceAdd` and `DeviceRemove` as what happens to `mux`.
6. `Pairing` and `PairingProof`: worker, notifier and the file of pair records.
7. `DaemonInstance`, and `IPodManager`, which composes it with the service that runs
   `usbmuxdd`; `DaemonProof` for both.
8. `UsbmuxdLib` and `UsbmuxdLibProof`: the device monitor, with what `MuxNotify` shows
   of the daemon, its faults included, as its environment.

Left:

1. The system BUID, which `conf.c` generates once and caches while workers and requests
   read it.
2. The library's request helpers, as one client of `MuxLifecycle` each; a refinement
   from the library's events to `MuxNotify`'s notices.

Abstract specifications: two byte streams (`TetherStream`), which `MuxFlow` implements;
a client's session (`MuxSession`), which `MuxLifecycle` implements for each client;
the processes of `usbmuxdd` under any caller (`DaemonNext` of `DaemonInstance`), which
`IPodManager` implements.

## 3. The modules

### TetherStream, MuxFlow, MuxFlowProof

`TetherStream` says what a tether is for: two byte streams, each delivering a prefix
of what went in, with a bounded amount between, until it closes.

`MuxFlow` is one connection from the client program's `send` to the device's
application.  Each variable of the first two groups is a field of `mux_connection`
or `mux_client`; `sock`/`out` are the two directions of the client's socket;
`toDev`/`toHost` the USB pipe; the `d_` variables the device's TCP stack, which is
external and modelled as any receiver that keeps to the window it is told, ACKs what
it accepts and may reset at any time.  Actions are handlers run to completion, as
main-thread handlers are.  Bytes are positions in the stream: a byte that is lost,
repeated or reordered shows as a wrong position.

Modelled by what they do: the window's unit on the wire (`>> 8`), the 32-bit
subtraction in `update_connection` (`% SeqMod`), the prefix a non-blocking `send`
takes, the teardown flush with its early stop, the failure of any `usb_send`.  When it is
the anonymous RST for a segment of no connection that cannot be sent, the daemon follows a
null pointer for its log line (device.c:649) and is gone (`AnonRstFails`, state `CRASHED`).
Left out: initial sequence numbers are 0, as in the code; a client does not hang up
before its tunnel is up (that is in `MuxLifecycle`); absolute positions are not
wrapped, since the code compares only differences.

### MuxSession, MuxLifecycle, MCMuxLifecycle, MuxLifecycleProof, MuxRequestsProof

Every client, device and connection under the loop.  `pc` is where `main_loop` is in
its turn, `ready` the events `poll` reported and the turn has not handled yet.
`ClientProcess` handles a reported client in the state it is in by *then*;
`TcpInput`, `DeviceAdd`, `DeviceVersionInput` and `DeviceRemove` are the callbacks of
`usb_process`; `Shutdown` and `Exit` the end of `main`.  Each element of `Clients`
and `Devices` is one allocation: a second life is another element.  A connection is
its device and source port.

`MuxSession` is what one client program may rely on: each request is answered at most once
and none before it was made, the tunnel is there as soon as, and only when, the program has
read the answer that says so, and nothing but the end comes after.  `MuxLifecycle` has one
instance of it for each client (`Session(c)`).

A handler that would do something undefined (use a freed object, lock a mutex its own
thread holds, read uninitialised memory, follow a null pointer) sets `fault`, and nothing happens
afterwards.  Properties are checked up to that point; the faults themselves are
reachable, see section 5.

Abstractions: a message leaves a buffer whole or not at all, since a part changes
nothing but the buffer; `accept` comes before the snapshot; the socket is writable
when something is to be sent; a tunnel is reported readable or not, its data and its mask
being `MuxFlow`'s, but a hang-up is always reported; the device's port is not modelled; allocations succeed; a request that
is malformed gets no answer and closes nothing, as in `client_command`; the worker
only announces.  The delayed-ACK timer can end a connection only by a send that
fails, in a turn in which `poll` had nothing to report: `MuxFlow` says when it fires.

### MuxNotify, MuxNotifyProof

The same clients and devices seen by two kinds of thread.  Here a handler is not one
step: a mutex is taken in one step and given back in another, and what the code does
without one is a step of its own.  `main` is the main thread's place; `todo` the
clients or devices its loop has still to visit; `worker[d]` and `left[d]` the same for
the worker of device `d`, and `dest` the client it is appending to.  `ob` is the listener's
output buffer in whole notices, `pollout` the `POLLOUT` bit, `seen` what its program has read.

`start_listen` sets the state first and then asks for the list; `client_device_add`
sets `visible` first and then looks at the states.  For finding each other's listener and
device they need no common lock: whichever is second makes up for the other (and a device
may be told twice, which the code allows).

For the buffer they do.  `send_pkt` copies a notice to `ob_buf + ob_size` and counts it
afterwards; a worker does so with `client_list_mutex`, the main thread without, in
`start_listen` (client.c:454-455, through 247-265), and `process_send` compares, clears or
moves the buffer without it too.  Each of these is split (`AnnounceCopy`/`AnnounceCount`,
`WorkerNotify`/`WorkerCount`, `ProcessSend`, `SendCompare`, `SendClear`, `SendMask`), for
every client.  A client whose buffer two threads have been in at once is in `raced` from
then on, and what is appended to it may be lost or come with bytes that nobody wrote
(`Garbled`): `notify_lost` shows it.  The properties about notices are about the listeners
outside `raced`; that is a condition on what has happened, not a choice of the model.

The main thread calls out of the devices' list with `device_list_mutex` held in two places:
`device_remove` and `device_check_timeouts`, when an ACK cannot be sent (`CheckTimeouts`,
`TearDown`).  Either tears connections down, and so closes clients, which takes
`client_list_mutex`, or `device_list_mutex` again for a client in `CONNECTING2`.  The main
thread is `Stuck` when it waits so for a worker that waits for it, or for itself.

### MuxReassembly, UsbTransport, UsbTransportProof

`MuxReassembly` is `device_data_input` up to the handler of the packet: `Gather` takes a
buffer and a transfer and gives the buffer and the packet handed on, if any.  Bytes are
runs with their length, the header that their first bytes make, and their origin, so
that a packet put together from the wrong pieces shows.  Its second half is the
reference: a packet cut into full transfers and a rest (`Pieces`), and what should come of
the transfers of several packets (`Arrives`).

`UsbTransport` is `usb.c`.  An element of `Devices` is one attachment; `phys` is the bus,
`events` what libusb has not delivered, `device_list`, `alive`, `rx` and `tx` the state of
`usb.c`, `mux` the state of the `mux_device` that hangs on it.  It is one thread, and its
interleavings are libusb's: a callback of any device may run wherever events are handled
(`Handling`), which includes the inside of `usb_disconnect` and of the control transfers
by which a device is opened.  `todo` is what a loop over the list has still to visit;
`closing` the device `usb_disconnect` waits for.  `mode` is how devices are found: by
polling; by hotplug events; with `--disable-hotplug`, where libusb goes on telling that a
device has left (`manual`); or so where it has no hotplug events either (`blind`).  In every
mode a signal may force a discovery (main.c:214-218); only polling has a timer for one.  A
discovery may mark a device alive again that its list still has and that has left meanwhile
(usb.c:269-271): such a device is in `revived`.  A transfer is counted by what became of it:
`again` and `lost` are receive transfers that `rx_callback` has submitted again, or could
not, after `usb_disconnect` had cancelled what was in flight; `freed` is a transmit
transfer whose buffer its caller has freed because the zero-length packet failed.

Left out: libusb failing to handle events inside `usb_disconnect`; the choice of
configuration and interface; the packet counters; `device_kill_connections`' turn of
libusb, which is an ordinary turn.

### Pairing, PairingProof

One device, plugged in again and again (`Attachments`), its preflight workers and
notifiers, the main thread, and the file with its pair record.  A record is what it is
good for: `good`, `bad` (its certificates are not those of the pairing), `stale` (the device
does not know the host), `unusable` (no host id in it), or none.  The handshake fails with a
bad record, and with any other when a send fails, the device ends the tunnel or the SSL
library gives up (idevice.c:657-739): lockdown.c:1179-1186 has one error for all of it.  Each step of the worker is one call that
may fail, talk to the device, or read or change the file; between any two the device may
go, a request may save or delete the record, another worker may run, and the daemon may
die (`Crash`).  `main` is where the main thread is in `config_set_device_record`, whose
removal, opening and writing are steps of their own; a worker that removes the file
meanwhile leaves the main thread writing to one without a name.  `np`,
`is_device_connected` and `preflight_cb_data` are `struct cb_data` and the pointer to it.  A
notification proxy whose thread could not be started is `deaf`: preflight.c:253 does not
look.

A read of the serial number after `device_remove` ends in `fault` `use_after_free`; the
properties hold up to it.  Left out: the check of `UntrustedHostBUID` and the BUID; the
protocol itself, of which a call's result is any that the state of device and record
allows.

### DaemonInstance, IPodManager, DaemonProof

`DaemonInstance` is `main.c` seen from outside: processes, each with its command line,
where it is from the test of the lock file to the end of the shutdown, and its signals;
`lockfile` and `socket_path` are what the two names lead to.  Test, unlink, create and
lock are four steps, and the socket's unlink and bind two.  `EnterPoll` has the `ppoll`
substitute's gap: what is pending when the mask is lifted is handled there, and `poll`
sleeps all the same; `Interrupted` and `PollEnds` are the two ways out.  A process that is
killed leaves both names behind, as one that ends does.  `raced` is
history: a process whose start met another's.

`IPodManager` adds the caller: the uevent thread with its queue, the constructor's own
look at the port, `isIPOD`, and `ChangeMode` on binder threads, each run of `usbmuxdd` by
`system()` being a process of `DaemonInstance` for whose parent `daemonize`'s exit status
is waited for.  A shell runs it too.

Left out: `-f`, dropping privileges, failures of `fork` and `pipe`, a process id that is
given out again between `F_GETLK` and `kill`, what `usbAudio` does
in between, and the mode property, which nobody acts on.

### UsbmuxdLib, UsbmuxdLibProof

The library's monitor thread, the program that subscribes and unsubscribes, and a daemon
that starts and ends; `inbox` is the socket between them, and `sfd` numbers the
connections as the kernel numbers descriptors (a lost connection's is never closed, so
numbers are not used twice).  The daemon does what `MuxNotify` has it do: the list when a
client begins to listen, in any order, then a notice per removal and per worker that comes
so far, twice or late if that is what the race makes of it.  It owes nothing: a worker need
never announce its device (preflight.c leaves at several places), and a daemon whose threads
are stuck answers nobody.  When two of its threads have been in the client's buffer (`raced`,
`Race`), notices are lost, or others come that nobody wrote (`ReadNotice`), which the library
takes for packets or gives the connection up for (`GetGarbled`).
`listenfdSeen` is `listenfd` as the program sees it, which may lag behind the monitor's
store until the monitor's next system call.  `view` is what the program knows from its
callbacks.

Left out: the request helpers, which make one request each on a descriptor of their own;
the variants for Windows and for inotify, which are not built for Android; a daemon that
refuses `LISTEN`; the second `close` of a descriptor whose `LISTEN` was sent in part
(libusbmuxd.c:381, 631), which can hit another thread's; a write to a connection whose daemon has just ended,
where the program is assumed to ignore `SIGPIPE` as libusbmuxd's users do.

## 4. The runs

| run | question | bounds |
|---|---|---|
| `flow_down` | windows, buffers, ACKs and order in both directions; transfer completes; a hang-up is noticed; two byte streams are implemented | window and buffer 2, socket 1, device buffer 1, 3 bytes down, 2 up |
| `life_requests` | answers, tunnels, each client a session; connects end, hang-ups release | 1 client, 1 device, source ports modulo 2, 3 requests, 1 ahead, 2 segments |
| `life_clients` | pointers match, devices are told, shutdown leaves nothing | 2 clients, 1 device, 2 usable source ports, 2 connects each, 1 segment |
| `life_double_free`, `life_wrong_state` (violated) | a client is freed once; it is not used when dead | 1 client, 1 device, 2 requests |
| `notify_race` | nobody whose buffer no two threads were in misses a device, and reads of each that stays; removals come after additions; the mutexes stop the threads in the known way only | 1 client, 2 devices |
| `notify_deadlock`, `notify_lost` (violated) | the mutexes do not stop the threads; no notice is lost | 1 client, 1 or 2 devices |
| `usb_transport` | transfers and `mux_device`s do not outlive their device; disconnects end; what is gone is forgotten, in each way of discovery; packets are gathered whole | 2 attachments, 1 receive loop each, 1 transmit transfer, 1 failed list; transfers of 2, a buffer of 6, packets up to 12 bytes |
| `pairing` | pointers to a stack end with it; workers end, and do not try again for ever | 2 attachments, 1 record saved by clients |
| `daemon` | lock file and socket are kept and do not get in the way; `isIPOD` follows the port; the removal of the iPod ends the daemon | 3 processes, 1 killed, 1 binder thread, a shell with `-x`, 2 changes at the port |
| `lib_monitor` | the program's view agrees with the daemon it is told by, and converges; unsubscribe returns | 2 daemons, 2 devices, 2 handles, 1 subscription, 1 connection given up |

Why these bounds are enough.

* `flow_down`: a window of 2 can be full, half full and empty; a socket of 1 makes every
  write partial; three bytes close the window and open it again.  The device's buffer of 1
  makes `sendable` 0 after every byte.  The window's unit is 1 here; that the rounding
  down by 256, which moves the advertised right edge back, does no harm is shown by the
  proof, for every unit.
* `life_requests`: source ports modulo 2, of which 0 is not used, leave one port, so that
  the second connect wraps around or finds none; one request ahead puts one behind a
  connect that is pending and one behind a tunnel.
* `life_clients`: two connections on one device are needed for a teardown that reaches
  more than one client, or the wrong one.  Four connects of two source ports give both
  out again, while a segment of the connection before is still under way.  More devices
  are covered by the proofs.
* `notify_race`: two devices are needed for one to be removed, or one notice to be sent,
  while another worker runs or waits for the mutexes; a third adds a third independent
  worker.  One client is a listener or has a connection to either; clients share only the
  mutexes, and the proofs have any number of them.
* `usb_transport`: two devices are needed for a callback of one inside the
  disconnect of the other.  Failed lists only put discoveries off, and when there are too
  many in a row end the daemon.  One receive loop each, which starts or does not, is
  submitted again, lost or cancelled; the proofs have any number of them.  Three packets of
  every length up to a buffer of three transfers, followed by one that does not fit, meet
  every case of `Gather`.
* `pairing`: two attachments let the worker of the first outlive it into the second; the
  record may be of every kind at the start.  Clients save one more, a good one: what they
  save only changes the record, which the workers change too.
* `daemon`: three processes are a daemon, one that tests it and one that starts meanwhile.
  With one caller of `ChangeMode` or shell at a time, besides the uevent thread, `bind`
  never fails; the proofs cover that branch, any number of callers and any command line.
  Of the processes only those that are to serve are killed: when the uevent thread's own
  `usbmuxdd -X` is, nobody tries again and the daemon stays.
* `lib_monitor`: a second daemon gives the handles of the first again; two devices are two
  of one daemon or one of each, with the same handle.  Garbled notices that add a device
  again and again, or make the monitor connect again and again, do nothing new the second
  time (`MaxEntries`, `MaxBroken`).

Deadlock is not checked: the systems may stop (shutdown, fault, a program that has ended),
programs and devices need not do anything, and the one deadlock between threads is a
property of its own.

### Fairness

`MuxFlow`: weak fairness of each handler, of the client program's reads and of the
device's stack.  The loop polls level-triggered descriptors and libusb's, so a handler
with something to do is called; the delayed ACK needs a turn in which `ppoll` returns
0, which comes once traffic stops, and it is continuously enabled then.  Resets and
hang-ups have none.

`MuxLifecycle`: weak fairness of the loop's own steps and of the handling of each
reported client; strong fairness of a device's input, because it is handled only inside
`usb_process`, one stretch of each turn, and of the device's answer to a SYN, which is
external.

`MuxNotify`: weak fairness of the main thread once it has begun something and of sends
to each client, and of each worker that has come to `client_device_add`.  A worker or
main thread waiting for a mutex gets it because the number of other holders is finite
here.  Workers need not start, clients need not listen.

`UsbTransport`: weak fairness of the thread's own steps (`Thread`); strong fairness of
a discovery that nobody forced, which there is only when polling: `usb_get_timeout` then
puts its timer into the timeout of `ppoll`, so that the list is read every second whatever
else goes on; none of a forced one; and strong fairness of `MustCallBack(d)`, what
libusb owes: a callback for a transfer that was cancelled or whose device has gone.  It
owes none for one that waits for data.

`Pairing`: strong fairness of each worker and notifier, for what they wait for is the main
thread's attention, which others take in turn; weak fairness of the end of a save.  A
notifier ends when its connection does or when it is joined; nobody need press "Trust".  No
handshake need succeed: one that fails removes the record, without which the next try asks
the device to pair.

`IPodManager`: weak fairness of every process and of the uevent thread.  A process in
`poll` goes on without a signal because the timeout of `ppoll` is at most 100 seconds.
That takes the handlers of a turn to return: a daemon in the deadlock of `notify_deadlock` or
the loop of `Stuck` in `UsbTransport` does not, and no request to exit ends it.
Nobody need call `ChangeMode`, plug anything in, or kill.

`UsbmuxdLib`: weak fairness of the monitor, of the program once it has called
`usbmuxd_unsubscribe`, and of the store of `listenfd` becoming visible.  The daemon owes
nothing.  Daemons and devices come and go, or not, as they like; that they do so only
finitely often is what the bounds say, and what `ViewConverges` needs.

## 5. What the code does otherwise

Runs expected to fail (`findings` in PROJECT.json quote the lines):

* `life_double_free`: `client_close` in `CONNECTING2` comes back to itself through
  `connection_teardown` and frees the client twice;
* `life_wrong_state`: `process_recv` stores into a client that `client_command` closed;
* `notify_deadlock`: `device_remove`, and `device_check_timeouts` when its ACK cannot be
  sent, take the two mutexes in the opposite order to `client_device_add`, or one of them
  twice; the threads never go on (`StuckForGood`), and every other wait for these mutexes is
  for a thread that goes on (`NobodyElseStuck`);
* `notify_lost`: an append to `ob_buf` while the main thread is in `process_send` or
  `start_listen` is lost.

Other things the models reach, without a run of their own.  The properties are stated so
as to hold in spite of them, and say where.

* Teardown drops what is in `ib_buf` when the socket is full or the client is still in
  `CONNECTING2`, though NEWS:34 says it is flushed (`Teardown` of `MuxFlow`).
* `device_remove` locks its own mutex again for a client in `CONNECTING2`
  (`self_deadlock`); a connect goes to a device whose connection list is uninitialised
  (`uninitialised`); the log line for an anonymous RST that cannot be sent follows a null
  pointer (`null_dereference`, and `CRASHED` in `MuxFlow`).
* When a source port is given out again while the RST of the connection before is still
  under way, that RST ends the new connection: nothing in a segment tells the two apart.
  The device's half is then open until the host answers its SYN|ACK with a RST
  (`Pending` in `DeviceToldOfTeardown`).  It takes 65535 connects while one packet is
  under way.
* A worker appends to the freed buffer of a client between `ClientClose` and
  `CloseRemove`; a device is announced after its removal (`late`), of which nobody is ever
  told that it has gone.
* `usb_disconnect` spins for ever on a receive transfer that `rx_callback` could not
  submit again, or waits for the device's next data on one that it did (`Stuck`); the
  buffer of a packet whose zero-length packet failed is freed twice (`double_free`); a
  device that a forced discovery has revived stays in the list until the next one, if nobody
  polls (`revived`); a device none of whose receive loops started stays without ever becoming active.
* A handshake that breaks off for any reason makes preflight.c:184-186 remove the record as
  an invalid one, also a good one.
* A worker reads the serial number of a device that has been freed (`use_after_free`); a
  crash in the middle of a save loses the record or leaves one that the next worker takes
  for paired, so that the trust dialog never appears; a worker whose notifier could not be
  started and whose device was removed before it registered waits for ever (`Forgotten`).
* `usbmuxdd -X` unlinks the lock file of a daemon that is just starting (`raced`), after
  which a second daemon can be started beside the first.
* A signal between the substitute's `sigprocmask` and its `poll` is acted on only at the
  end of `poll`'s timeout, and a forced discovery not even then.  SIGUSR2, by which
  a second `usbmuxdd -n` would force it, is ignored without `-z`.
* `isIPOD` stays wrong when the port changes while the constructor has looked and not yet
  stored (`earlyPlug`).  `ChangeMode(0)` runs `usbAudio` two seconds after it has told the
  daemon to end, which the daemon may take up to 100 seconds to do.
* `usbmuxd_unsubscribe` misses the monitor's descriptor when its read of `listenfd`
  overtakes the monitor's store (`missed`), and then waits for the daemon's next notice.
  The monitor never closes the descriptor of a connection that was lost.  A device
  announced twice is removed twice when the connection is lost.

## 6. What is proved

All with TLAPS, for every value of the constants that the named assumptions allow.

**MuxFlowProof** (from `FlowAssumption`: window at most the buffer, positive units,
device buffer smaller than the sequence space).  The inductive invariant is `IInv ==
TypeOK /\ Phases /\ Downstream /\ Upstream`: `Phases` ties the handshake states of both
ends to what may be in the pipe; `Downstream` and `Upstream` chain the counters of one
direction through every segment in flight (what the next segment carries is what the
receiver expects next; an ACK in flight is at least the last one taken and at most what
the acknowledging side has).  Type correctness and the four counter properties are none
of them inductive: `InputFits` needs that no segment in flight exceeds the window told,
which needs that windows are only told of counters that grow.  `Invariant` proves
`Spec => []IInv`, one lemma per action; `TypeCorrect`, `InputAlwaysFits`,
`DeviceAlwaysFits`, `AcknowledgedIsDelivered` and `AlwaysInSequence` follow from it.
`EventsAlwaysMatch` has its own small invariant, `MaskInv`.

`HostGoesOn` and `DeviceGoesOn` show that no window stays closed for want of a segment,
although neither end probes: what either end knows of the other's window is what the other
told last, unless that is still in the pipe (`HostTold`, `DeviceTold`), and an end that
closes the connection has said so (`Handshake`).  With both pipes empty the chains of `IInv`
say that all that was sent has arrived, so that a window that is closed is one whose owner
has an ACK due or data to pass on.  They ask that a window is at least a unit of `th_win`:
131072 and 256 for the host's.

`ImplementsStreams` is the refinement: every step of `MuxFlow`
is a step of `TetherStream` or leaves both streams alone.  Besides `IInv` it needs
`Balance`, which says where the bytes are that have gone in and not come out: what the
client has been given and `ib_buf` still holds was received, what the program wrote is in
its socket or numbered by `tx_seq`, and a client whose connection is gone has no tunnel to
write to.

**MuxLifecycleProof** (from `LifeAssumption`).  `LInv == Types /\
ClientsMatchConnections /\ Wire /\ ShutdownLeavesNothing` is inductive, with one lemma per
handler.  `ClientsMatchConnections` needs that `find_sport` returns a port that is free
(`FindSportFree`, from the cardinality of what is taken), and that a client the loop
handles in `COMMAND` has no connection.  The handlers that tear down are instances of one
lemma, `Torn`, with the set of connections that go.  `DeviceToldOfTeardown` is not
inductive: a RST in the pipe ends a connection without an answer, so `Wire` adds `Stale`,
that a RST from a connection that is open on the device is followed by a segment that will
be answered.  `ConnectionsMatch`, `DeviceTold` and `NothingAfterKill` follow.  They hold up
to a step that sets `fault`, as all properties of this module do.  `AnswerStillToCome` is the
safety half of `ConnectAnswered`: a connection that is being set up has its SYN unanswered or
a segment under way, so that the fairness of device and input is all it waits for.

**MuxRequestsProof** (from `LifeAssumption`) has the client's side.  Each step of the daemon,
seen from any one client, is one of a few effects (`Effect`: it is told something, reads
something, is freed, ...; `Done` says so of all clients at once), and which one it is needs
`LInv`, since a listener, say, must have no connection to lose.  `RInv` is `LInv`, the types
and `ClientInv` of each client: its answers in `ob_buf` and its requests in the socket are
numbered from `got` on without a gap (`Ordered`), with the tag of a pending connect between
them, and the last of them opens the tunnel exactly in `CONNECTING2` (`Clean`).  What a
partial send does to a numbered buffer is counting (`Split`, `Drop`, `Add`).  From it come
`Typing`, `AnsweredInOrder`, `CleanTunnel`, and the refinement: `ImplementsSessions` in the
form the run checks and `ImplementsSession`, that `Spec` implies `MuxSession`'s specification
for each client.  `UntouchedIfWaiting` shows that `life_wrong_state` needs a program that asks
ahead: with `MaxAhead = 0` no client is used after it was freed.

**MuxNotifyProof** (from `NotifyAssumption`, that no device's worker is taken for the main
thread).  `Basic == TypeOK /\ Places /\ Workers /\ Meeting /\ Owners` says what the main
thread holds at each of its places, how far a device's worker is when the device is in a given
state, that a client whom worker and main thread are at together is in `raced`, and who has
each mutex by where its owner is; it gives `NotifyTypeCorrect`.  On top of it, `Kept == Silent
/\ Found /\ Announced /\ Ending` is inductive.  `NoDeviceLeftBehind` alone is not: that a
removal ends every addition needs that a client not yet listening has been told nothing
(`Silent`), that what `start_listen` is about to send is still active (`Found`), and that nobody
hears of a device before its worker (`Announced`: a device dropped before it was active was
told to nobody).  `NobodyMissed`, which `notify_lost` shows wrong for the clients in `raced`,
has the invariant `Heard` with `Finding`: of the devices the list walk has passed,
those visible and active are in what was found, in what was told, or still on their
worker's list.  It says what the order of state, list, `visible` and states achieves without a
common lock; what the missing lock costs is in `raced`.  `OnItsWay`, the safety half of
`EveryDeviceSeen`, adds `Polled`, that POLLOUT is set as long as there is something to send.
From `Owners` follow `NobodyElseStuck` and `StuckForGood`: short of `Stuck`, in
`device_remove` or `device_check_timeouts`, a thread that waits for a mutex waits for one that
goes on.  The lemmas before them (`ToSetCat`, `SplitUp`, `EndedCat`, `EndedRest`,
`RestOf`) say what appending to and cutting from a buffer of notices does.

**UsbTransportProof** (from `UsbAssumption` and `ReassemblyAssumption`).  `UInv == TypeOK
/\ Owned`, with `TypeOK` in four parts and `Owned` for `TransfersOwned /\ MuxHasUsb`, is
inductive.  Neither half of `Owned` is without the types: a callback finds the transfer it
takes away only in the counts, and the device that is being disconnected has lost its
`mux_device` only because `closing` is set exactly while `usb_disconnect` waits.
`OnlyCancelledAreAwaited` and `WaitNeverGrows` are the safety half of `DisconnectEnds`: what
`usb_disconnect` waits for is cancelled, or submitted again by `rx_callback` meanwhile, and
the number of it only falls.  The second needs `MuxHasUsb`: a device that is being
disconnected has no `mux_device` to answer its data with.  `GoneIsAlwaysFound` is that of
`DeadIsReaped` and of `usb_shutdown`, for every way of discovery and with forced discoveries at
any time; its invariant `Noted` adds that a device whose departure has been delivered has no
arrival in the queue to be revived by, so that only a list from before can (`revived`).

The rest is about `Gather`.  `GatherFits`: the buffer never holds more than `DEV_MRU`, and what
is handed on is as long as its header says.  `ShortResyncs`: a short transfer leaves it empty
whatever came before.  `GathersPacket`: a packet that fits, in any number of transfers, is
handed on whole with the last one, and not before; `GathersStream`: so are all packets of a
stream, from the beginning or any short transfer on.  A buffer with `i` transfers of a packet
(`Gathered`) has `i + 1` after the next or hands the packet on.  That this reaches every `i`
is an induction: the library's theorem takes an operator, so `UpTo` is one about a set, from
the smallest number that is not in it (`SmallestOf`, from the library's `WFMin`).
`PacketsAreWhole` is the property the run checks: the buffer of `Buffers`, which is a
recursive function, is fed as the two theorems ask (`Feeds`), the transfers of each packet
lie where they should among all of them (`Lies`), so that `GathersPacket` applies to one
after the other, and the buffer that a packet too long has left, whatever is in it, is
emptied by the short transfer (`FitsAlways`, `ShortResyncs`).

**PairingProof** (from `PairingAssumption`).  `PInv` adds `Threads` to `TypeOK`: besides
`StackIsLive`, that a worker past `Unregister` has no pointer in its device's entry
(`Unregistered`), that whoever has a notifier has `np` and so joins it (`Joinable`), and
that an attachment that is new has no worker (`Fresh`).  `NobodyWaitsInVain` proves
`WillBeWoken`, the safety half of `WorkerEnds`: whichever of the device's removal
(`device_remove`, with what it finds in the device's entry), the worker's registration and
the end of its notifications comes first, one of them wakes the worker, unless its `np` is deaf
and it registered after the removal.  `Wakes` adds to it when `np` and the entry are there.

**DaemonProof** (from the assumptions of `DaemonInstance` and `IPodManager`).
`KeepsItsPlace` and `NamesAreFree` are not inductive.  `DInv` adds `RacedRun` (only live
processes have raced), `Alone` (while an unraced process starts, no other starts, and none
that has raced is left), `Placed` (before the lock, the name leads to its file) and
`Guarded` (once it has the lock, every other process is before or in its test of that file,
or has a signal to send).  It is proved
first under `DaemonNext`, the processes' own next-state relation; `ManagerImplementsDaemon`
shows that every step of `IPodManager` is one of these or leaves the processes alone, and
`PlaceKept` and `NamesFreed` follow for the service.  `FlagFollows` has an invariant of its
own: `Queue` says that the uevents waiting alternate and end with the port's last change,
`Flag` what `isIPOD` may be on the way there.  `RemovalNeverCalledOff` is the safety half of
`RemovalStopsDaemon`: what another process does leaves a process where it is and adds to its
signals at most (`OthersStay`), a daemon that was told goes down by its own steps, none of
which forgets it (`LeavingKept`), and `usbmuxdd -X` finds the daemon because that keeps its
place (`ReachingKept`).

**UsbmuxdLibProof** (from `LibAssumption`).  `LInv == TypeOK /\ Shared`; `Shared` ties
`listenfd`, what the program sees of it, and the monitor's place together (`Descriptor`,
`Agreed`), keeps what the program knows within the library's list (`Listed`), and gives
`CleanStart`, that nothing of an earlier daemon is left when a connection is made, and
`StopReaches`: a monitor that `usbmuxd_unsubscribe` joins never waits on a connection that it
has not shut down, unless it was missed.  They hold whatever the daemon sends.  `AlwaysAgrees`
proves the whole of `ViewAgrees` with `VInv`: on a connection that has not raced, what the
program will know when it has read what is in the socket (`Told`) is
what is attached, but for what a worker has still to tell, or never will, or has told late
(`Accurate`), on top of the order of answer and list (`Answered`) and of which daemon serves whom
(`Connected`).  The lemmas on `Heard` say what reading the first and adding a last notice do.

Every invariant and action property that a run checks is the subject of a theorem.
Some formulas of the modules are proved only, as the runs check the liveness properties that
need them: `EventsMatch`, `HostNeverStalls`, `DeviceNeverStalls`, `AnswerToCome`, `OnItsWay`,
`StuckForGood`, `AllCancelled`, `NothingAdded`, `GoneIsFound`, `WillBeWoken` and
`NeverCalledOff`.
Only model-checked: all liveness (the prover does not handle fairness), with it the
liveness half of `StreamSpec`.  What liveness rests on besides fairness, that in every state
something is there to be waited for, is proved for each liveness property but `HangupReleases`,
whose handlers need nothing else:

| liveness | needs | proved as |
|---|---|---|
| `DownstreamFlows`, `HangupEndsConnection` | masks that match, windows that open | `EventsAlwaysMatch`, `HostGoesOn`, `DeviceGoesOn` |
| `ConnectAnswered` | an answer under way | `AnswerStillToCome` |
| `EveryDeviceSeen` | a notice under way, one deadlock only | `NobodyMissed`, `AlwaysOnItsWay`, `NoOtherDeadlock` |
| `DisconnectEnds`, `DeadIsReaped` | callbacks that are owed, devices that are found | `OnlyCancelledAreAwaited`, `WaitNeverGrows`, `GoneIsAlwaysFound` |
| `WorkerEnds` | somebody to wake the worker | `NobodyWaitsInVain` |
| `RemovalStopsDaemon` | a process that tells the daemon | `RemovalNeverCalledOff` |
| `UnsubscribeEnds`, `ViewConverges` | a shutdown in force, notices under way | `StopAlwaysReaches`, `AlwaysAgrees` |

  Whether a property holds after a `fault` is neither checked
nor proved: the system stops there.

## 7. What is not modelled

* `utils.c`, `log.c`: sequential helpers; the models use sets and functions where the code
  uses collections.
* iproxy, usbAudio, the JNI library: sequential code without state that outlives a call or
  a connection.
* The system BUID; the library's request helpers; `-f`, `-U` and the failures inside
  `daemonize`; `main_client.cpp`.
* Everything vendored, the device's lockdown service included, is outside and taken as
  environment.
