------------------------------- MODULE Pairing -------------------------------
(***************************************************************************)
(* The preflight of a device and the store of pair records                 *)
(* (usbmuxd/src/preflight.c, usbmuxd/src/conf.c, and what client.c and     *)
(* device.c do for them).  One device, plugged in again and again, and the *)
(* file with its pair record.                                              *)
(*                                                                         *)
(* Three kinds of threads meet.  Each attachment has a worker, which talks *)
(* to the device's lockdown service, reads and removes the file, and at    *)
(* the end waits for the user with a struct cb_data on its stack.  To that *)
(* struct point the entry of the device, for device_remove, and a notifier *)
(* thread of the notification proxy client.  The main thread removes       *)
(* devices and serves requests for the store: those of its clients, and    *)
(* those by which a pairing in a worker or a notifier is saved.  Nobody    *)
(* locks the files, and the daemon may die at any moment.                  *)
(*                                                                         *)
(* What client_device_add does, and to whom, is in MuxNotify.              *)
(***************************************************************************)
EXTENDS Integers

CONSTANTS
  Attachments,  \* times the device is plugged in, by the id each is given
  SavedKinds,   \* what the pair records that clients save may be good for
  MaxSaves      \* bound: how many of them there are


VARIABLES
  \* the file, by what it is good for
  record,
  \* an attachment: on the bus, gone from it, and without its mux_device
  device,
  \* the worker of each attachment; whether it takes the device for paired; the
  \* record as it was when the host id was read
  worker, is_device_paired, host,
  \* cbdata of each worker, and the pointer to it in the entry of the device
  np, is_device_connected, preflight_cb_data,
  notifier,
  \* the main thread, the pair record it is saving, and for whom
  main, job,
  saves,
  fault

locals     == <<is_device_paired, host>>
cbdata     == <<np, is_device_connected>>
mainVars   == <<main, job, saves>>
threadVars == <<worker, locals, cbdata, preflight_cb_data, notifier>>
vars == <<record, device, threadVars, mainVars, fault>>

\* "good": the device knows the host and the certificates are those of the
\* pairing.  "bad": it knows the host, the certificates are not.  "stale": it
\* does not know the host.  "unusable": no host id can be read from the file.
Kinds   == {"good", "bad", "stale", "unusable"}
Records == Kinds \cup {"none"}

ASSUME PairingAssumption == Attachments \subseteq Nat /\ SavedKinds \subseteq Kinds /\ MaxSaves \in Nat

\* The worker from its entry to its last use of cbdata.
OnStack == {"register", "announce7", "wait", "unregister", "release", "join"}
WorkerStates ==
  OnStack \cup {"none", "start", "lockdown", "look", "host", "session", "ssl", "remove",
                "version", "pair", "save", "service",
                "pair6", "save6", "check6", "announce", "left"}

Client  == <<"client", "none">>
Savers  == {Client} \cup ({"worker", "notifier"} \X Attachments)
NoJob   == [who |-> <<"nobody", "none">>, of |-> "none"]

\* A request to the device can get an answer.
Answers(a) == device[a] = "plugged"

\* What is_device_paired and the record looked at are, as far as they are read again.
Locals(a, paired, rec) ==
  /\ is_device_paired' = [is_device_paired EXCEPT ![a] = paired]
  /\ host' = [host EXCEPT ![a] = rec]

Step(a, from, to) == worker[a] = from /\ worker' = [worker EXCEPT ![a] = to]

-----------------------------------------------------------------------------
(***************************************************************************)
(* The main thread.                                                        *)
(***************************************************************************)

\* device_version_input: the worker is started, or the device is announced
\* without one when there is no thread to be had.
Plug(a) ==
  /\ device[a] = "new"
  /\ \A b \in Attachments : device[b] # "plugged" /\ (b < a => device[b] # "new")
  /\ device' = [device EXCEPT ![a] = "plugged"]
  /\ worker' \in {[worker EXCEPT ![a] = s] : s \in {"start", "left"}}
  /\ UNCHANGED <<record, locals, cbdata, preflight_cb_data, notifier, mainVars, fault>>

Unplug(a) ==
  /\ device[a] = "plugged"
  /\ device' = [device EXCEPT ![a] = "unplugged"]
  /\ UNCHANGED <<record, threadVars, mainVars, fault>>

\* device_remove: preflight_device_remove_cb writes to cbdata through the pointer.
DeviceRemove(a) ==
  /\ main = "idle" /\ device[a] = "unplugged"
  /\ device' = [device EXCEPT ![a] = "removed"]
  /\ is_device_connected' =
       [is_device_connected EXCEPT ![a] = @ /\ ~preflight_cb_data[a]]
  /\ preflight_cb_data' = [preflight_cb_data EXCEPT ![a] = FALSE]
  /\ UNCHANGED <<record, worker, locals, np, notifier, mainVars, fault>>

\* Who waits for the main thread to save a pairing.
Waiting(who) ==
  IF who = Client THEN saves < MaxSaves
  ELSE IF who[1] = "worker" THEN worker[who[2]] \in {"save", "save6"}
  ELSE notifier[who[2]] = "save"

\* Mutant of SetRecord: the worker has its answer before the record is written.
SetRecordEarly(who, kind) ==
  /\ main = "idle" /\ Waiting(who)
  /\ kind \in IF who = Client THEN SavedKinds ELSE {"good"}
  /\ record' = "none"
  /\ main' = "removed" /\ job' = [who |-> who, of |-> kind]
  /\ saves' = IF who = Client THEN saves + 1 ELSE saves
  /\ IF who[1] = "worker" THEN Step(who[2], "save", "announce") ELSE UNCHANGED worker
  /\ UNCHANGED <<device, locals, cbdata, preflight_cb_data, notifier, fault>>

\* config_set_device_record, which any dictionary satisfies: the file is removed,
SetRecord(who, kind) ==
  /\ main = "idle" /\ Waiting(who)
  /\ kind \in IF who = Client THEN SavedKinds ELSE {"good"}
  /\ record' = "none"
  /\ main' = "removed" /\ job' = [who |-> who, of |-> kind]
  /\ saves' = IF who = Client THEN saves + 1 ELSE saves
  /\ UNCHANGED <<device, threadVars, fault>>

\* opened,
OpenRecord ==
  /\ main = "removed"
  /\ main' = "opened" /\ record' = "unusable"
  /\ UNCHANGED <<device, threadVars, job, saves, fault>>

\* and written, and the request is answered.  That it could not be opened or
\* written goes unnoticed.
RecordSet ==
  /\ \/ main = "opened" /\ record' \in {job.of, "unusable"}
     \/ main \in {"removed", "unlinked"} /\ UNCHANGED record
  /\ main' = "idle" /\ job' = NoJob
  /\ IF job.who = Client THEN UNCHANGED <<worker, notifier>>
     ELSE LET a == job.who[2]
          IN  IF job.who[1] = "worker"
                THEN /\ Step(a, worker[a], IF worker[a] = "save" THEN "announce" ELSE "check6")
                     /\ UNCHANGED notifier
                ELSE /\ notifier' = [notifier EXCEPT ![a] = "run"]
                     /\ UNCHANGED worker
  /\ UNCHANGED <<device, locals, cbdata, preflight_cb_data, saves, fault>>

\* DeletePairRecord.
DeleteRecord ==
  /\ main = "idle" /\ record # "none"
  /\ record' = "none"
  /\ UNCHANGED <<device, threadVars, mainVars, fault>>

-----------------------------------------------------------------------------
(***************************************************************************)
(* The worker, preflight_worker_handle_device_add.                         *)
(***************************************************************************)
others == <<device, preflight_cb_data, notifier, mainVars>>

\* The serial number is read, at the start and when the device is announced.  It
\* is in the usb_device, which usb_disconnect frees soon after device_remove.
ReadSerial(a, from, to) ==
  /\ \/ Step(a, from, to) /\ UNCHANGED fault
     \/ /\ worker[a] = from /\ device[a] = "removed"
        /\ fault' = "use_after_free" /\ UNCHANGED worker
  /\ UNCHANGED <<others, record, locals, cbdata>>

Start(a) == ReadSerial(a, "start", "lockdown")

\* client_device_add.
Announce(a) == ReadSerial(a, "announce", "left") \/ ReadSerial(a, "announce7", "wait")

\* lockdownd_client_new and lockdownd_query_type, also after "goto retry": no
\* answer, a device in restore mode, or lockdown.
Lockdown(a) ==
  /\ \/ Step(a, "lockdown", "left")
     \/ Answers(a) /\ (Step(a, "lockdown", "announce") \/ Step(a, "lockdown", "look"))
  /\ UNCHANGED <<others, record, locals, cbdata, fault>>

\* config_has_device_record.
Look(a) ==
  /\ Step(a, "look", IF record = "none" THEN "version" ELSE "host")
  /\ UNCHANGED <<others, record, locals, cbdata, fault>>

\* config_device_record_get_host_id.
ReadHost(a) ==
  /\ Step(a, "host", "session") /\ Locals(a, FALSE, record)
  /\ UNCHANGED <<others, record, cbdata, fault>>

\* lockdownd_start_session: the device refuses a host it does not know, or that is
\* not named because none can be read from an unusable record, starts a session, with
\* SSL or without, or something else is wrong.  All that is else goes for "paired".
StartSession(a) ==
  /\ \/ Step(a, "session", "version") /\ Locals(a, TRUE, "none")
     \/ /\ Answers(a) /\ host[a] \in {"stale", "unusable"}
        /\ Step(a, "session", "version") /\ Locals(a, FALSE, "none")
     \/ /\ Answers(a) /\ host[a] # "stale"
        /\ \/ Step(a, "session", "ssl") /\ UNCHANGED locals
           \/ Step(a, "session", "announce") /\ Locals(a, FALSE, "none")
  /\ UNCHANGED <<others, record, cbdata, fault>>

\* The handshake, with the record the main thread reads for it.  Any failure of it
\* is LOCKDOWN_E_SSL_ERROR: a record that is no good or cannot be had, a connection
\* that breaks off, a device that has gone or is too slow.
Handshake(a) ==
  /\ main = "idle"
  /\ \/ Answers(a) /\ record = "good" /\ Step(a, "ssl", "announce") /\ Locals(a, FALSE, "none")
     \/ Step(a, "ssl", "remove") /\ Locals(a, FALSE, record)
  /\ UNCHANGED <<others, record, cbdata, fault>>

\* config_remove_device_record, and another try if it has removed something.  It may
\* fail with the file still there.  The main thread may have the file open: it then
\* writes to one without a name.
RemoveRecord(a) ==
  /\ Locals(a, FALSE, "none")
  /\ \/ Step(a, "remove", "version") /\ UNCHANGED <<record, main>>
     \/ /\ record # "none" /\ Step(a, "remove", "lockdown")
        /\ record' = "none"
        /\ main' = IF main = "opened" THEN "unlinked" ELSE main
  /\ UNCHANGED <<device, preflight_cb_data, notifier, job, saves, cbdata, fault>>

\* ProductVersion.
Version(a) ==
  /\ \/ Step(a, "version", "left") /\ Locals(a, FALSE, "none")
     \/ UNCHANGED locals /\ Answers(a) /\ Step(a, "version", "pair")
     \/ Locals(a, FALSE, "none") /\ Answers(a) /\ Step(a, "version", "pair6")
  /\ UNCHANGED <<others, record, cbdata, fault>>

\* lockdownd_pair, of a device that is not paired: it pairs, or shows a dialog.
Pair(a) ==
  /\ \/ ~is_device_paired[a] /\ Answers(a) /\ Step(a, "pair", "save")
     \/ Step(a, "pair", "service")
  /\ Locals(a, FALSE, "none")
  /\ UNCHANGED <<others, record, cbdata, fault>>

\* The notification proxy; np_client_new may leave np NULL.  np_set_notify_callback
\* starts a thread that has a pointer to cbdata; if there is no thread to be had np is
\* deaf, which nobody looks at.
Service(a) ==
  /\ \/ Step(a, "service", "left") /\ UNCHANGED <<cbdata, notifier>>
     \/ /\ Answers(a) /\ Step(a, "service", "register")
        /\ is_device_connected' = [is_device_connected EXCEPT ![a] = TRUE]
        /\ \/ /\ np' = [np EXCEPT ![a] = TRUE]
              /\ \E s \in {"run", "deaf"} : notifier' = [notifier EXCEPT ![a] = s]
           \/ UNCHANGED <<np, notifier>>
  /\ UNCHANGED <<device, preflight_cb_data, mainVars, record, locals, fault>>

\* device_set_preflight_cb_data, if the device has an entry still.
Register(a) ==
  /\ Step(a, "register", "announce7")
  /\ preflight_cb_data' = [preflight_cb_data EXCEPT ![a] = device[a] \in {"plugged", "unplugged"}]
  /\ UNCHANGED <<device, notifier, mainVars, record, locals, cbdata, fault>>

Wait(a) ==
  /\ ~np[a] \/ ~is_device_connected[a]
  /\ Step(a, "wait", "unregister")
  /\ UNCHANGED <<others, record, locals, cbdata, fault>>

\* Mutant of Unregister: the entry keeps its pointer.
UnregisterNot(a) ==
  /\ Step(a, "unregister", "release")
  /\ UNCHANGED <<others, record, locals, cbdata, fault>>

Unregister(a) ==
  /\ Step(a, "unregister", "release")
  /\ preflight_cb_data' = [preflight_cb_data EXCEPT ![a] = FALSE]
  /\ UNCHANGED <<device, notifier, mainVars, record, locals, cbdata, fault>>

\* np_client_free joins the notifier, if there is one.
Release(a) ==
  /\ \/ Step(a, "release", IF np[a] THEN "join" ELSE "left") /\ UNCHANGED <<np, notifier>>
     \/ notifier[a] = "off" /\ Step(a, "join", "left") /\ UNCHANGED <<np, notifier>>
     \/ /\ notifier[a] = "deaf" /\ Step(a, "join", "left")
        /\ np' = [np EXCEPT ![a] = FALSE] /\ notifier' = [notifier EXCEPT ![a] = "off"]
  /\ is_device_connected' = [is_device_connected EXCEPT ![a] = FALSE]
  /\ UNCHANGED <<device, preflight_cb_data, mainVars, record, locals, fault>>

\* Before iOS 7: lockdownd_pair, and whatever comes of it ...
Pair6(a) ==
  /\ \/ Answers(a) /\ Step(a, "pair6", "save6")
     \/ Step(a, "pair6", "announce")
  /\ UNCHANGED <<others, record, locals, cbdata, fault>>

\* ... a session with the new record.
Check6(a) ==
  /\ \/ main = "idle" /\ Answers(a) /\ record = "good" /\ Step(a, "check6", "announce")
     \/ Step(a, "check6", "left")
  /\ UNCHANGED <<others, record, locals, cbdata, fault>>

-----------------------------------------------------------------------------
(***************************************************************************)
(* The notifier, np_notifier and its np_callback.                          *)
(***************************************************************************)
NotifierStep(a, from, to) ==
  notifier[a] = from /\ notifier' = [notifier EXCEPT ![a] = to]

\* request_pair: the user trusts the computer, and it pairs.
Notified(a) ==
  /\ Answers(a) /\ NotifierStep(a, "run", "save")
  /\ UNCHANGED <<device, record, worker, locals, cbdata, preflight_cb_data, mainVars, fault>>

\* Mutant of NotifierEnds: the empty notification is ignored.
NotifierEndsQuietly(a) ==
  /\ NotifierStep(a, "run", "off")
  /\ UNCHANGED <<device, record, worker, locals, cbdata, preflight_cb_data, mainVars, fault>>

\* The empty notification: nothing can be received any more.  (Of a notifier that is
\* being joined nobody reads np again.)
NotifierEnds(a) ==
  /\ NotifierStep(a, "run", "off")
  /\ np' = [np EXCEPT ![a] = FALSE]
  /\ UNCHANGED <<device, record, worker, locals, is_device_connected, preflight_cb_data, mainVars, fault>>

-----------------------------------------------------------------------------
\* The daemon dies.  A file that was being written is not whole.  When it is
\* started again the device, if it is there, is a new one.
Crash ==
  /\ device' = [a \in Attachments |-> IF device[a] = "new" THEN "new" ELSE "removed"]
  /\ worker' = [a \in Attachments |-> IF device[a] = "new" THEN "none" ELSE "left"]
  /\ notifier' = [a \in Attachments |-> "off"]
  /\ is_device_paired' = [a \in Attachments |-> FALSE]
  /\ host' = [a \in Attachments |-> "none"]
  /\ np' = [a \in Attachments |-> FALSE]
  /\ is_device_connected' = [a \in Attachments |-> FALSE]
  /\ preflight_cb_data' = [a \in Attachments |-> FALSE]
  /\ main' = "idle" /\ job' = NoJob
  /\ UNCHANGED <<record, saves, fault>>

Init ==
  /\ record \in Records
  /\ device = [a \in Attachments |-> "new"]
  /\ worker = [a \in Attachments |-> "none"]
  /\ is_device_paired = [a \in Attachments |-> FALSE]
  /\ host = [a \in Attachments |-> "none"]
  /\ np = [a \in Attachments |-> FALSE]
  /\ is_device_connected = [a \in Attachments |-> FALSE]
  /\ preflight_cb_data = [a \in Attachments |-> FALSE]
  /\ notifier = [a \in Attachments |-> "off"]
  /\ main = "idle" /\ job = NoJob /\ saves = 0
  /\ fault = "none"

Worker(a) ==
  \/ Start(a) \/ Announce(a) \/ Lockdown(a) \/ Look(a) \/ ReadHost(a) \/ StartSession(a)
  \/ Handshake(a) \/ RemoveRecord(a) \/ Version(a) \/ Pair(a) \/ Service(a)
  \/ Register(a) \/ Wait(a) \/ Unregister(a) \/ Release(a) \/ Pair6(a) \/ Check6(a)

Notifier(a) == Notified(a) \/ NotifierEnds(a)

Save == \/ \E who \in Savers, kind \in Kinds : SetRecord(who, kind)
        \/ OpenRecord \/ RecordSet

Next ==
  /\ fault = "none"
  /\ \/ Save \/ DeleteRecord \/ Crash
     \/ \E a \in Attachments : \/ Plug(a) \/ Unplug(a) \/ DeviceRemove(a)
                               \/ Worker(a) \/ Notifier(a)

(***************************************************************************)
(* The threads run, and the main thread gets round to the request of each  *)
(* of them.  A notifier ends when its connection has been torn down with   *)
(* the device or it is being joined; nobody need ever press "Trust".       *)
(***************************************************************************)
WorkerGoesOn(a) == Worker(a) \/ SetRecord(<<"worker", a>>, "good")

NotifierGoesOn(a) ==
  \/ SetRecord(<<"notifier", a>>, "good")
  \/ (device[a] = "removed" \/ worker[a] = "join") /\ NotifierEnds(a)

Fairness ==
  /\ WF_vars(fault = "none" /\ RecordSet)
  /\ \A a \in Attachments : /\ SF_vars(fault = "none" /\ WorkerGoesOn(a))
                            /\ SF_vars(fault = "none" /\ NotifierGoesOn(a))

Spec == Init /\ [][Next]_vars
FairSpec == Spec /\ Fairness

-----------------------------------------------------------------------------
(***************************************************************************)
(* What holds, up to a fault.                                              *)
(***************************************************************************)

\* The state of every variable is one the program can be in.
TypeOK ==
  /\ record \in Records
  /\ device \in [Attachments -> {"new", "plugged", "unplugged", "removed"}]
  /\ worker \in [Attachments -> WorkerStates]
  /\ is_device_paired \in [Attachments -> BOOLEAN] /\ host \in [Attachments -> Records]
  /\ np \in [Attachments -> BOOLEAN] /\ is_device_connected \in [Attachments -> BOOLEAN]
  /\ preflight_cb_data \in [Attachments -> BOOLEAN]
  /\ notifier \in [Attachments -> {"off", "deaf", "run", "save"}]
  /\ main \in {"idle", "removed", "opened", "unlinked"}
  /\ job \in [who : Savers, of : Kinds] \cup {NoJob}
  /\ (main = "idle") = (job = NoJob)
  /\ job # NoJob => job.who = Client \/ Waiting(job.who)
  /\ saves \in 0..MaxSaves
  /\ fault \in {"none", "use_after_free"}

\* cbdata lives on the stack of the worker.  Whoever has a pointer to it, the
\* entry of the device or a notifier that has not had its last notification,
\* has it only while the worker is in the function: whatever comes first, the
\* removal of the device, its registration or the end of the notifications.
StackIsLive ==
  \A a \in Attachments :
    preflight_cb_data[a] \/ notifier[a] # "off" => worker[a] \in OnStack

\* The device was removed before its worker could register, and np has no notifier whose
\* end could tell the worker (preflight.c:253).
Forgotten(a) == notifier[a] = "deaf" /\ is_device_connected[a] /\ device[a] = "removed"

\* Somebody will wake a worker that waits for its device to go: it may go on already,
\* or device_remove will find its cbdata in the device's entry, or the device was removed
\* before the worker could enter it there and a notifier still runs whose end will wake
\* the worker (preflight.c:96-107, 262-279).  Only a worker whose np is deaf is forgotten.
WillBeWoken ==
  \A a \in Attachments :
    worker[a] = "wait" =>
      \/ ~np[a] \/ ~is_device_connected[a]
      \/ preflight_cb_data[a] /\ device[a] \in {"plugged", "unplugged"}
      \/ notifier[a] \in {"run", "save"} /\ device[a] = "removed"
      \/ Forgotten(a)

\* A worker comes to announce its device or gives up: "goto retry" is not for ever.
\* That of a device that has been removed ends, also when it was removed before the
\* worker had registered for that: the end of the notifications is what wakes it then,
\* and a worker that has no notifier because no thread was to be had is forgotten.
WorkerEnds ==
  \A a \in Attachments :
    worker[a] \notin {"none", "left"}
      ~> \/ worker[a] = "left" \/ Forgotten(a) \/ fault # "none"
         \/ worker[a] \in OnStack /\ device[a] # "removed"
=============================================================================
