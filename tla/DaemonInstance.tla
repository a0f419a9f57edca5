---------------------------- MODULE DaemonInstance ----------------------------
(***************************************************************************)
(* The processes of usbmuxd on one machine (usbmuxd/src/main.c): how an    *)
(* invocation finds out whether another instance runs, becomes the one     *)
(* that does or tells the other one something, serves, and ends.           *)
(*                                                                         *)
(* The instances share two names of the file system, the lock file and the *)
(* socket, and nothing guards the way from the test of the lock file to    *)
(* the lock on it: the test, the removal of the file, its creation and the *)
(* lock are steps of their own.  A process may be killed anywhere; it then *)
(* leaves both names behind, as one that ends by itself does.              *)
(*                                                                         *)
(* The kernel is modelled as main.c uses it: a record lock belongs to a    *)
(* process and a file and ends with the process, and a signal is pending   *)
(* until the process unmasks it.                                           *)
(***************************************************************************)
EXTENDS Integers

CONSTANTS
  Procs,      \* process ids
  MaxCrashes  \* bound: how many processes are killed from outside

VARIABLES
  \* each process: where it is, its command line, the lock file it has opened
  \* for the test (later l_pid, the process with the lock), and its signals
  pc, options, lock, pending, should_exit, should_discover,
  \* what the two names lead to
  lockfile, socket_path,
  \* the processes whose parent has its exit status
  reported,
  \* history: the processes whose start met that of another (see Met)
  raced,
  crashes

procVars   == <<pc, options, lock, pending, should_exit, should_discover>>
daemonVars == <<procVars, lockfile, socket_path, reported, raced, crashes>>

\* A name leads to a file that process p has created, to one whose creator is
\* gone or never meant to lock it, or to none.
Nothing == 0
Orphan  == -1
Files   == Procs \cup {Nothing, Orphan}

ASSUME DaemonAssumption == Procs \subseteq Nat \ {0} /\ MaxCrashes \in Nat

\* The command lines: parse_opts sets opt_exit and exit_signal by -x and -X,
\* opt_disable_hotplug by -n, opt_enable_exit by -z.
Options == {"-v", "-n", "-z", "-nz", "-x", "-X"}
opt_exit            == {"-x", "-X"}
opt_disable_hotplug == {"-n", "-nz"}
opt_enable_exit     == {"-z", "-nz"}

\* What a process sends to the instance it finds.
exit_signal(o) == IF o = "-X" THEN "TERM" ELSE IF o = "-x" THEN "USR1" ELSE "USR2"
Signals == {"TERM", "USR1", "USR2"}

\* From the start to the lock; and with the lock, until the process ends.
Starting == {"open", "test", "unlink", "create", "setlk"}
Holding  == {"socket", "bind", "init", "loop", "poll", "down"}

\* Mutant of Locked: the lock is given back before the shutdown.
LockedUntilShutdown(file) == file \in Procs /\ pc[file] \in Holding \ {"down"}

\* fcntl(F_GETLK): somebody has the write lock of the file.
Locked(file) == file \in Procs /\ pc[file] \in Holding

DaemonTypeOK ==
  /\ pc \in [Procs -> Starting \cup Holding \cup {"none", "signal"}]
  /\ options \in [Procs -> Options]
  /\ lock \in [Procs -> Files]
  /\ pending \in [Procs -> SUBSET Signals]
  /\ should_exit \in [Procs -> BOOLEAN] /\ should_discover \in [Procs -> BOOLEAN]
  /\ lockfile \in Files /\ socket_path \in Files
  /\ reported \subseteq Procs /\ raced \subseteq Procs
  /\ crashes \in 0 .. MaxCrashes

\* Only the process with the lock is ever signalled.
HolderIsSignalled == \A p \in Procs : pending[p] # {} => pc[p] \in Holding

DaemonInit ==
  /\ pc = [p \in Procs |-> "none"]
  /\ options = [p \in Procs |-> "-v"]
  /\ lock = [p \in Procs |-> Nothing]
  /\ pending = [p \in Procs |-> {}]
  /\ should_exit = [p \in Procs |-> FALSE] /\ should_discover = [p \in Procs |-> FALSE]
  /\ lockfile = Nothing /\ socket_path = Nothing
  /\ reported = {} /\ raced = {} /\ crashes = 0

-------------------------------------------------------------------------------
Go(p, l) == pc' = [pc EXCEPT ![p] = l]
Without(p, file) == IF file = p THEN Orphan ELSE file

\* The processes that p meets when it starts: those that are starting as well,
\* and those that live with the consequences of an earlier meeting.
Met(p) == {q \in Procs \ {p} : pc[q] \in Starting \/ q \in raced}

\* main up to set_signal_handlers, which masks the signals.
Start(p, o) ==
  /\ pc[p] = "none"
  /\ Go(p, "open")
  /\ options' = [options EXCEPT ![p] = o]
  /\ raced' = IF Met(p) = {} THEN raced ELSE raced \cup Met(p) \cup {p}
  /\ UNCHANGED <<lock, pending, should_exit, should_discover,
                 lockfile, socket_path, reported, crashes>>

\* The process is gone: its lock goes with it, the two names stay.
ExitWith(p, signals) ==
  /\ Go(p, "none")
  /\ options' = [options EXCEPT ![p] = "-v"]
  /\ lock' = [q \in Procs |-> IF q = p THEN Nothing ELSE Without(p, lock[q])]
  /\ pending' = [signals EXCEPT ![p] = {}]
  /\ should_exit' = [should_exit EXCEPT ![p] = FALSE]
  /\ should_discover' = [should_discover EXCEPT ![p] = FALSE]
  /\ lockfile' = Without(p, lockfile)
  /\ socket_path' = Without(p, socket_path)
  /\ reported' = reported \ {p}
  /\ raced' = raced \ {p}

\* main's label terminate.
Exit(p) == ExitWith(p, pending) /\ UNCHANGED crashes

\* open(lockfile, O_WRONLY|O_CREAT), and close after the test.
Open(p) ==
  /\ pc[p] = "open"
  /\ lockfile' = IF lockfile = Nothing THEN Orphan ELSE lockfile
  /\ lock' = [lock EXCEPT ![p] = lockfile']
  /\ Go(p, "test")
  /\ UNCHANGED <<options, pending, should_exit, should_discover, socket_path,
                 reported, raced, crashes>>

\* Mutant of Test: a lock file with a creator is taken for a running instance.
TestByName(p) ==
  /\ pc[p] = "test"
  /\ IF lock[p] \in Procs /\ options[p] \notin opt_exit \cup opt_disable_hotplug
     THEN Exit(p)
     ELSE /\ Go(p, IF lock[p] \in Procs THEN "signal" ELSE "unlink")
          /\ lock' = [lock EXCEPT ![p] = IF lock[p] \in Procs THEN @ ELSE Nothing]
          /\ UNCHANGED <<options, pending, should_exit, should_discover,
                         lockfile, socket_path, reported, raced, crashes>>

\* F_GETLK.  Another instance: a process with -x, -X or -n has a signal for it,
\* any other one gives up.
Test(p) ==
  /\ pc[p] = "test"
  /\ IF Locked(lock[p]) /\ options[p] \notin opt_exit \cup opt_disable_hotplug
     THEN Exit(p)
     ELSE /\ Go(p, IF Locked(lock[p]) THEN "signal" ELSE "unlink")
          /\ lock' = [lock EXCEPT ![p] = IF Locked(lock[p]) THEN @ ELSE Nothing]
          /\ UNCHANGED <<options, pending, should_exit, should_discover,
                         lockfile, socket_path, reported, raced, crashes>>

\* kill(l_pid), which fails when that process has ended since.  (Process ids are not
\* given out again here, so the signal never reaches a process that has l_pid's.)
Signal(p) ==
  /\ pc[p] = "signal"
  /\ ExitWith(p, [q \in Procs |-> IF q = lock[p] THEN pending[q] \cup {exit_signal(options[p])}
                                                 ELSE pending[q]])
  /\ UNCHANGED crashes

\* Mutant of Unlink: the lock file of the last instance stays.
UnlinkNot(p) ==
  /\ pc[p] = "unlink"
  /\ Go(p, "create")
  /\ UNCHANGED <<options, lock, pending, should_exit, should_discover, lockfile,
                 socket_path, reported, raced, crashes>>

\* unlink(lockfile), and daemonize.
Unlink(p) ==
  /\ pc[p] = "unlink"
  /\ lockfile' = Nothing
  /\ Go(p, "create")
  /\ UNCHANGED <<options, lock, pending, should_exit, should_discover, socket_path,
                 reported, raced, crashes>>

\* "No running instance found, none killed": after the unlink.
NoneKilled(p) ==
  /\ pc[p] = "create" /\ options[p] \in opt_exit
  /\ Exit(p)

\* open(lockfile, O_CREAT|O_EXCL), which fails when the name is there again.
Create(p) ==
  /\ pc[p] = "create" /\ options[p] \notin opt_exit
  /\ IF lockfile = Nothing
     THEN /\ lockfile' = p
          /\ Go(p, "setlk")
          /\ UNCHANGED <<options, lock, pending, should_exit, should_discover,
                         socket_path, reported, raced, crashes>>
     ELSE Exit(p)

\* F_SETLK and the pid: nobody else locks a file this process has created.
SetLock(p) ==
  /\ pc[p] = "setlk"
  /\ Go(p, "socket")
  /\ UNCHANGED <<options, lock, pending, should_exit, should_discover, lockfile,
                 socket_path, reported, raced, crashes>>

\* create_socket: the old name goes, whoever listens behind it; bind fails when
\* the name is there again.
UnlinkSocket(p) ==
  /\ pc[p] = "socket"
  /\ socket_path' = Nothing
  /\ Go(p, "bind")
  /\ UNCHANGED <<options, lock, pending, should_exit, should_discover, lockfile,
                 reported, raced, crashes>>

Bind(p) ==
  /\ pc[p] = "bind"
  /\ IF socket_path = Nothing
     THEN /\ socket_path' = p
          /\ Go(p, "init")
          /\ UNCHANGED <<options, lock, pending, should_exit, should_discover,
                         lockfile, reported, raced, crashes>>
     ELSE Exit(p)

\* client_init, device_init, usb_init, and notify_parent(0).
Ready(p) ==
  /\ pc[p] = "init"
  /\ reported' = reported \cup {p}
  /\ Go(p, "loop")
  /\ UNCHANGED <<options, lock, pending, should_exit, should_discover, lockfile,
                 socket_path, raced, crashes>>

\* One of the calls from the lock to the main loop fails.
StartFails(p) ==
  /\ pc[p] \in {"setlk", "socket", "bind", "init"}
  /\ Exit(p)

\* Mutant of Handled: every signal counts only with --enable-exit.
HandledIfEnabled(p, devices) ==
  /\ pending' = [pending EXCEPT ![p] = {}]
  /\ should_exit' = [should_exit EXCEPT ![p] =
       @ \/ /\ options[p] \in opt_enable_exit
            /\ "TERM" \in pending[p] \/ ("USR1" \in pending[p] /\ ~devices)]

\* handle_signal for what is pending; devices: some device is attached.
Handled(p, devices) ==
  /\ pending' = [pending EXCEPT ![p] = {}]
  /\ should_exit' = [should_exit EXCEPT ![p] =
       \/ @
       \/ "TERM" \in pending[p]
       \/ "USR1" \in pending[p] /\ options[p] \in opt_enable_exit /\ ~devices]

Discovers(p) == "USR2" \in pending[p] /\ options[p] \in opt_enable_exit

\* The head of main_loop and ppoll up to poll: what was pending is handled when
\* the mask is lifted, before poll, so that poll does not return for it.
EnterPoll(p) ==
  /\ pc[p] = "loop"
  /\ \/ /\ should_exit[p]
        /\ Go(p, "down")
        /\ UNCHANGED <<pending, should_exit, should_discover>>
     \/ /\ ~should_exit[p]
        /\ \E devices \in BOOLEAN : Handled(p, devices)
        /\ should_discover' = [should_discover EXCEPT ![p] = @ \/ Discovers(p)]
        /\ Go(p, "poll")
  /\ UNCHANGED <<options, lock, lockfile, socket_path, reported, raced, crashes>>

\* A signal during poll: EINTR, and discovery if one of -n is to do it.
Interrupted(p) ==
  /\ pc[p] = "poll" /\ pending[p] # {}
  /\ \E devices \in BOOLEAN : Handled(p, devices)
  /\ \/ /\ should_exit'[p]
        /\ Go(p, "down")
        /\ should_discover' = [should_discover EXCEPT ![p] = @ \/ Discovers(p)]
     \/ /\ ~should_exit'[p]
        /\ Go(p, "loop")
        /\ should_discover' = [should_discover EXCEPT ![p] = FALSE]
  /\ UNCHANGED <<options, lock, lockfile, socket_path, reported, raced, crashes>>

\* poll returns for its time or an event, and what is pending is handled before
\* the mask is back.  Then the event; usb_process or client_accept may fail.
PollEnds(p) ==
  /\ pc[p] = "poll"
  /\ \E devices \in BOOLEAN : Handled(p, devices)
  /\ should_discover' = [should_discover EXCEPT ![p] = @ \/ Discovers(p)]
  /\ pc' \in {[pc EXCEPT ![p] = "loop"], [pc EXCEPT ![p] = "down"]}
  /\ UNCHANGED <<options, lock, lockfile, socket_path, reported, raced, crashes>>

\* device_kill_connections, usb_shutdown, device_shutdown, client_shutdown.
Shutdown(p) ==
  /\ pc[p] = "down"
  /\ Exit(p)

\* Killed from outside.
Crash(p) ==
  /\ pc[p] # "none" /\ crashes < MaxCrashes
  /\ crashes' = crashes + 1
  /\ ExitWith(p, pending)

Step(p) ==
  \/ Open(p) \/ Test(p) \/ Signal(p) \/ Unlink(p) \/ NoneKilled(p)
  \/ Create(p) \/ SetLock(p) \/ UnlinkSocket(p) \/ Bind(p) \/ Ready(p) \/ StartFails(p)
  \/ EnterPoll(p) \/ Interrupted(p) \/ PollEnds(p) \/ Shutdown(p)

DaemonNext == \E p \in Procs : (\E o \in Options : Start(p, o)) \/ Step(p) \/ Crash(p)

\* Every process runs, and poll returns at the latest after the 100 s of
\* device_get_timeout.
DaemonFairness == \A p \in Procs : WF_daemonVars(Step(p))

DaemonSpec == DaemonInit /\ [][DaemonNext]_daemonVars /\ DaemonFairness

-------------------------------------------------------------------------------
\* A daemon whose start met no other start keeps the lock file and the socket
\* until it ends, whatever is started, told to exit, or killed meanwhile: every
\* later invocation finds it and no client connects to somebody else (main.c's
\* test of the lock, unlink, O_EXCL and lock, and create_socket).
KeepsItsPlace ==
  \A p \in Procs \ raced :
    /\ pc[p] \in Holding => lockfile = p
    /\ pc[p] \in {"init", "loop", "poll", "down"} => socket_path = p

\* What an ended or killed daemon leaves behind stops nobody: the open with
\* O_EXCL and the bind of a process whose start met no other start find their
\* names free (main.c's unlink of the lock file, create_socket's of the socket).
NamesAreFree ==
  \A p \in Procs \ raced :
    /\ pc[p] = "create" => lockfile = Nothing
    /\ pc[p] = "bind" => socket_path = Nothing

===============================================================================
