------------------------------ MODULE IPodManager ------------------------------
(***************************************************************************)
(* The iPod manager service (ipod_mgr_service: CNXUEventHandler.cpp and    *)
(* CNXIPodManagerService.cpp), which runs usbmuxdd, on top of the          *)
(* processes of DaemonInstance.                                            *)
(*                                                                         *)
(* A thread follows the uevents of one USB port; the constructor of the    *)
(* handler, which has started it, looks at the port as well, for a device  *)
(* that was there before.  Both set isIPOD and nothing orders them.  The   *)
(* removal of an iPod, and the calls of ChangeMode, each on a binder       *)
(* thread, run usbmuxdd by system, which returns when usbmuxdd has         *)
(* detached itself or ended.  A shell runs it too.                         *)
(***************************************************************************)
EXTENDS DaemonInstance, Sequences

CONSTANTS
  Binders,    \* binder threads
  ShellRuns,  \* command lines the shell runs
  MaxPlugs    \* bound: how often a device is plugged in or pulled

VARIABLES
  \* the device at the port, and the uevents the thread has not taken
  port, uevents,
  isIPOD,
  \* the constructor, the uevent thread, and each binder thread; where one is
  \* in system, the process it waits for
  ctor, monitor, binder, waits,
  plugs,
  \* history: the port has changed while the constructor or the start of the
  \* thread was looking the other way
  earlyPlug

managerVars == <<port, uevents, isIPOD, ctor, monitor, binder, waits, plugs, earlyPlug>>
vars == <<daemonVars, managerVars>>

Ports   == {"empty", "iPod", "other"}
Callers == Binders \cup {"monitor", "shell"}
Idle    == 0   \* no process: nobody waits

ASSUME ManagerAssumption ==
  /\ ShellRuns \subseteq Options
  /\ MaxPlugs \in Nat

TypeOK ==
  /\ DaemonTypeOK /\ HolderIsSignalled
  /\ port \in Ports
  /\ uevents \in Seq({"add", "remove"})
  /\ isIPOD \in BOOLEAN
  /\ ctor \in {"look", "store", "done"}
  /\ monitor \in {"boot", "poll", "set", "stop"}
  /\ binder \in [Binders -> {"idle", "stop", "serve"}]
  /\ waits \in [Callers -> Procs \cup {Idle}]
  /\ plugs \in 0 .. MaxPlugs
  /\ earlyPlug \in BOOLEAN

Init ==
  /\ DaemonInit
  /\ port \in Ports
  /\ uevents = <<>>
  /\ isIPOD = FALSE
  /\ ctor = "look"
  /\ monitor = "boot"
  /\ binder = [b \in Binders |-> "idle"]
  /\ waits = [c \in Callers |-> Idle]
  /\ plugs = 0
  /\ earlyPlug = FALSE

-------------------------------------------------------------------------------
\* system and the processes it runs.
Free == {p \in Procs : pc[p] = "none" /\ \A c \in Callers : waits[c] # p}

\* The fork of system: the process gets the first pid that is free.
System(c, o) ==
  /\ waits[c] = Idle
  /\ \E p \in Free :
       /\ \A q \in Free : p <= q
       /\ Start(p, o)
       /\ waits' = [waits EXCEPT ![c] = p]

\* Bound: the shell and the binder threads are in system one at a time, and they
\* leave one pid for the uevent thread.
MayRun == (\A c \in Callers \ {"monitor"} : waits[c] = Idle) /\ \E p, q \in Free : p # q

\* system returns: the process has ended or has told its parent to.
Returned(c) ==
  /\ waits[c] # Idle
  /\ pc[waits[c]] = "none" \/ waits[c] \in reported
  /\ waits' = [waits EXCEPT ![c] = Idle]

Shell ==
  /\ \/ MayRun /\ \E o \in ShellRuns : System("shell", o)
     \/ Returned("shell") /\ UNCHANGED daemonVars
  /\ UNCHANGED <<port, uevents, isIPOD, ctor, monitor, binder, plugs, earlyPlug>>

-------------------------------------------------------------------------------
\* The port.  The thread gets the uevents from uevent_init on.
Change(d, uevent) ==
  /\ plugs < MaxPlugs
  /\ port' = d
  /\ uevents' = IF monitor = "boot" THEN uevents ELSE Append(uevents, uevent)
  /\ earlyPlug' = (earlyPlug \/ ctor = "store" \/ (monitor = "boot" /\ ctor = "done"))
  /\ plugs' = plugs + 1
  /\ UNCHANGED <<daemonVars, isIPOD, ctor, monitor, binder, waits>>

Plug == port = "empty" /\ \E d \in Ports \ {"empty"} : Change(d, "add")
Unplug == port # "empty" /\ Change("empty", "remove")

\* The constructor, after pthread_create: stat, the ids, and isIPOD.
Look ==
  /\ ctor = "look"
  /\ ctor' = IF port = "iPod" THEN "store" ELSE "done"
  /\ UNCHANGED <<daemonVars, port, uevents, isIPOD, monitor, binder, waits, plugs, earlyPlug>>

Store ==
  /\ ctor = "store"
  /\ ctor' = "done"
  /\ isIPOD' = TRUE
  /\ UNCHANGED <<daemonVars, port, uevents, monitor, binder, waits, plugs, earlyPlug>>

\* UEventMonitorThread.
UEventInit ==
  /\ monitor = "boot"
  /\ monitor' = "poll"
  /\ UNCHANGED <<daemonVars, port, uevents, isIPOD, ctor, binder, waits, plugs, earlyPlug>>

\* Mutant of Inserted: the device of the uevent is taken for an iPod unread.
InsertedUnread ==
  /\ monitor = "poll" /\ uevents # <<>> /\ Head(uevents) = "add"
  /\ uevents' = Tail(uevents)
  /\ monitor' = "set"
  /\ UNCHANGED <<daemonVars, port, isIPOD, ctor, binder, waits, plugs, earlyPlug>>

\* The ids are those of the device that is there now, if one is.
Inserted ==
  /\ monitor = "poll" /\ uevents # <<>> /\ Head(uevents) = "add"
  /\ uevents' = Tail(uevents)
  /\ monitor' = IF port = "iPod" THEN "set" ELSE "poll"
  /\ UNCHANGED <<daemonVars, port, isIPOD, ctor, binder, waits, plugs, earlyPlug>>

SetIPOD ==
  /\ monitor = "set"
  /\ monitor' = "poll"
  /\ isIPOD' = TRUE
  /\ UNCHANGED <<daemonVars, port, uevents, ctor, binder, waits, plugs, earlyPlug>>

Removed ==
  /\ monitor = "poll" /\ uevents # <<>> /\ Head(uevents) = "remove"
  /\ uevents' = Tail(uevents)
  /\ isIPOD' = FALSE
  /\ monitor' = IF isIPOD THEN "stop" ELSE "poll"
  /\ UNCHANGED <<daemonVars, port, ctor, binder, waits, plugs, earlyPlug>>

\* system("usbmuxdd -X"), during which the uevents queue up.
StopDaemon ==
  /\ monitor = "stop"
  /\ \/ System("monitor", "-X") /\ UNCHANGED monitor
     \/ Returned("monitor") /\ monitor' = "poll" /\ UNCHANGED daemonVars
  /\ UNCHANGED <<port, uevents, isIPOD, ctor, binder, plugs, earlyPlug>>

-------------------------------------------------------------------------------
\* ChangeMode on binder thread b, once the service is there: mode 0 runs
\* usbmuxdd -X (and then, after 2 s, usbAudio), mode 1 usbmuxdd -v.
ChangeMode(b) ==
  /\ ctor = "done" /\ binder[b] = "idle" /\ isIPOD
  /\ \E run \in {"stop", "serve"} : binder' = [binder EXCEPT ![b] = run]
  /\ UNCHANGED <<daemonVars, port, uevents, isIPOD, ctor, monitor, waits, plugs, earlyPlug>>

RunDaemon(b) ==
  /\ binder[b] # "idle"
  /\ \/ /\ MayRun /\ System(b, IF binder[b] = "stop" THEN "-X" ELSE "-v")
        /\ UNCHANGED binder
     \/ /\ Returned(b)
        /\ binder' = [binder EXCEPT ![b] = "idle"]
        /\ UNCHANGED daemonVars
  /\ UNCHANGED <<port, uevents, isIPOD, ctor, monitor, plugs, earlyPlug>>

\* A process of usbmuxd goes on, or a daemon is killed.
Process == \E p \in Procs : Step(p) /\ UNCHANGED managerVars
Killed == \E p \in Procs : options[p] \notin opt_exit /\ Crash(p) /\ UNCHANGED managerVars

Monitor == UEventInit \/ Inserted \/ SetIPOD \/ Removed \/ StopDaemon

Next ==
  \/ Process \/ Killed \/ Shell
  \/ Plug \/ Unplug
  \/ Look \/ Store \/ Monitor
  \/ \E b \in Binders : ChangeMode(b) \/ RunDaemon(b)

Spec == Init /\ [][Next]_vars

\* The processes run, and so does the uevent thread.
FairSpec ==
  /\ Spec
  /\ \A p \in Procs : WF_vars(Step(p) /\ UNCHANGED managerVars)
  /\ WF_vars(Monitor)

-------------------------------------------------------------------------------
\* isIPOD follows the port: with no uevent left to take and none being handled
\* it tells whether an iPod is there, though every uevent is handled after its
\* device may have been replaced, and although the constructor looks too.  Not
\* so if the port changes between the constructor's look and its store, or
\* after the look and before uevent_init (CNXUEventHandler.cpp's constructor
\* starts the thread first and then looks).
FlagFollowsPort ==
  ~earlyPlug /\ ctor = "done" /\ monitor # "set" /\ uevents = <<>>
    => (isIPOD <=> port = "iPod")

\* The removal of the iPod ends the daemon: one whose start met no other start
\* and that has the lock when the uevent thread comes to run usbmuxdd -X is
\* found, told, and exits, at whatever point of its initialisation or of its
\* main loop it is and whatever else is started meanwhile (usage, -X: "always
\* works").
RemovalStopsDaemon ==
  \A p \in Procs :
    (monitor = "stop" /\ waits["monitor"] = Idle /\ pc[p] \in Holding /\ p \notin raced)
      ~> pc[p] = "none"

\* usbmuxdd -X, process q, has not looked yet, or has found that p has the lock.
Reaching(q, p) ==
  options[q] = "-X" /\ (pc[q] = "open" \/ (pc[q] \in {"test", "signal"} /\ lock[q] = p))

\* A daemon that has been told, or has heeded it.
Leaving(p) == "TERM" \in pending[p] \/ should_exit[p] \/ pc[p] = "down"

\* What has been set going to end a daemon is never called off: usbmuxdd -X, started
\* while the daemon has the lock, tells that daemon and no other unless it is gone
\* before, and a daemon that has been told ends, whoever starts, ends, is killed or
\* sends signals meanwhile (main.c's test, kill, handle_signal and main_loop).
NeverCalledOff ==
  [][\A p, q \in Procs :
       p # q /\ p \notin raced /\ pc[p] \in Holding =>
         /\ Leaving(p) => Leaving(p)' \/ pc'[p] = "none"
         /\ Reaching(q, p) => Reaching(q, p)' \/ Leaving(p)' \/ pc'[p] = "none"]_vars

===============================================================================
