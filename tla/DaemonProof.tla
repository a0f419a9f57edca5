------------------------------ MODULE DaemonProof ------------------------------
(***************************************************************************)
(* Proofs about DaemonInstance and IPodManager, for any number of          *)
(* processes, of binder threads, of kills and of changes at the port.      *)
(*                                                                         *)
(* KeepsItsPlace and NamesAreFree are not inductive: that nobody takes the *)
(* names of a daemon away rests on where everybody else is.  While a       *)
(* process that met no other start is starting nobody else is (Alone), and *)
(* once it has the lock every other process is before the test, has opened *)
(* the locked file, or has only a signal to send (Guarded).  For the same  *)
(* reason usbmuxdd -X is not called off once it has been started.          *)
(***************************************************************************)
EXTENDS IPodManager, TLAPS

-------------------------------------------------------------------------------
RacedRun == \A p \in raced : pc[p] # "none"

Alone ==
  \A p, q \in Procs :
    p # q /\ p \notin raced /\ pc[p] \in Starting => pc[q] \notin Starting /\ q \notin raced

Placed == \A p \in Procs \ raced : pc[p] = "setlk" => lockfile = p

Guarded ==
  \A p, q \in Procs :
    p # q /\ p \notin raced /\ pc[p] \in Holding =>
      /\ pc[q] \in {"none", "open", "test", "signal"}
      /\ pc[q] = "test" => lock[q] = p

DInv ==
  /\ DaemonTypeOK /\ RacedRun /\ Alone /\ Placed /\ Guarded
  /\ KeepsItsPlace /\ NamesAreFree

\* DInv without the types.
Names == RacedRun /\ Alone /\ Placed /\ Guarded /\ KeepsItsPlace /\ NamesAreFree

-------------------------------------------------------------------------------
\* The types are inductive: no step leaves them (all of main.c's steps).
LEMMA DaemonTypesKept == ASSUME DaemonTypeOK, DaemonNext PROVE DaemonTypeOK'
<1> USE DaemonAssumption
<1>1. PICK p \in Procs : (\E o \in Options : Start(p, o)) \/ Step(p) \/ Crash(p)
  BY DEF DaemonNext
<1> USE DEF DaemonTypeOK, Starting, Holding, Files, Go, Nothing, Orphan
<1>2. ASSUME NEW signals \in [Procs -> SUBSET Signals], ExitWith(p, signals),
             crashes' \in 0 .. MaxCrashes
      PROVE  DaemonTypeOK'
  <2>1. pc' \in [Procs -> Starting \cup Holding \cup {"none", "signal"}]
    BY <1>2 DEF ExitWith
  <2>2. options' \in [Procs -> Options]
    BY <1>2 DEF ExitWith, Options
  <2>3. lock' \in [Procs -> Files] /\ lockfile' \in Files /\ socket_path' \in Files
    BY <1>2 DEF ExitWith, Without
  <2>4. pending' \in [Procs -> SUBSET Signals]
    BY <1>2 DEF ExitWith
  <2>5. should_exit' \in [Procs -> BOOLEAN] /\ should_discover' \in [Procs -> BOOLEAN]
    BY <1>2 DEF ExitWith
  <2>6. reported' \subseteq Procs /\ raced' \subseteq Procs
    BY <1>2 DEF ExitWith
  <2> QED BY <1>2, <2>1, <2>2, <2>3, <2>4, <2>5, <2>6
<1>3. ASSUME Exit(p) PROVE DaemonTypeOK'
  BY <1>2, <1>3 DEF Exit
<1>4. ASSUME NEW o \in Options, Start(p, o) PROVE DaemonTypeOK'
  BY <1>4 DEF Start, Met
<1>5. CASE Open(p)
  BY <1>5 DEF Open
<1>6. CASE Test(p)
  BY <1>3, <1>6 DEF Test
<1>7. CASE Signal(p)
  <2>1. [q \in Procs |-> IF q = lock[p] THEN pending[q] \cup {exit_signal(options[p])}
                                        ELSE pending[q]] \in [Procs -> SUBSET Signals]
    BY DEF exit_signal, Signals
  <2> QED BY <1>2, <1>7, <2>1 DEF Signal
<1>8. CASE Unlink(p) \/ Create(p) \/ SetLock(p)
  BY <1>3, <1>8 DEF Unlink, Create, SetLock
<1>9. CASE UnlinkSocket(p) \/ Bind(p) \/ Ready(p)
  BY <1>3, <1>9 DEF UnlinkSocket, Bind, Ready
<1>10. CASE NoneKilled(p) \/ StartFails(p) \/ Shutdown(p)
  BY <1>3, <1>10 DEF NoneKilled, StartFails, Shutdown
<1>11. ASSUME NEW devices \in BOOLEAN, Handled(p, devices)
       PROVE  pending' \in [Procs -> SUBSET Signals] /\ should_exit' \in [Procs -> BOOLEAN]
  BY <1>11 DEF Handled
<1>12. CASE EnterPoll(p) \/ Interrupted(p) \/ PollEnds(p)
  <2>1. pending' \in [Procs -> SUBSET Signals] /\ should_exit' \in [Procs -> BOOLEAN]
    BY <1>11, <1>12 DEF EnterPoll, Interrupted, PollEnds
  <2>2. should_discover' \in [Procs -> BOOLEAN]
    BY <1>12 DEF EnterPoll, Interrupted, PollEnds
  <2>3. pc' \in [Procs -> Starting \cup Holding \cup {"none", "signal"}]
    BY <1>12 DEF EnterPoll, Interrupted, PollEnds
  <2>4. UNCHANGED <<options, lock, lockfile, socket_path, reported, raced, crashes>>
    BY <1>12 DEF EnterPoll, Interrupted, PollEnds
  <2> QED BY <2>1, <2>2, <2>3, <2>4
<1>13. CASE Crash(p)
  BY <1>2, <1>13 DEF Crash
<1> QED
  BY <1>1, <1>4, <1>5, <1>6, <1>7, <1>8, <1>9, <1>10, <1>12, <1>13 DEF Step

-------------------------------------------------------------------------------
\* A start that meets nobody leaves everybody as it was; one that meets somebody
\* makes all of them raced (set_signal_handlers, before the lock file is opened).
LEMMA NamesStart ==
  ASSUME DInv, NEW p \in Procs, NEW o \in Options, Start(p, o) PROVE Names'
<1> USE DaemonAssumption DEF DInv, DaemonTypeOK, Starting, Holding
<1>1. RacedRun'
  BY DEF Start, Go, RacedRun, Met
<1>2. Alone'
  BY DEF Start, Go, RacedRun, Met, Alone
<1>3. Placed'
  BY DEF Start, Go, RacedRun, Met, Placed
<1>4. Guarded'
  BY DEF Start, Go, RacedRun, Met, Guarded
<1>5. KeepsItsPlace'
  BY DEF Start, Go, Met, KeepsItsPlace
<1>6. NamesAreFree'
  BY DEF Start, Go, Met, NamesAreFree
<1> QED BY <1>1, <1>2, <1>3, <1>4, <1>5, <1>6 DEF Names

\* The end of a process takes only its own lock away (main's label terminate, and
\* a kill).
LEMMA NamesExit ==
  ASSUME DInv, NEW p \in Procs, NEW signals, ExitWith(p, signals) PROVE Names'
<1> USE DaemonAssumption DEF DInv, DaemonTypeOK, Starting, Holding, Nothing, Orphan
<1>1. RacedRun'
  BY DEF ExitWith, Go, RacedRun
<1>2. Alone'
  BY DEF ExitWith, Go, Alone
<1>3. Placed'
  BY DEF ExitWith, Go, Placed, Without
<1>4. Guarded'
  BY DEF ExitWith, Go, Guarded, Without
<1>5. KeepsItsPlace'
  BY DEF ExitWith, Go, KeepsItsPlace, Without
<1>6. NamesAreFree'
  BY DEF ExitWith, Go, NamesAreFree, Without
<1> QED BY <1>1, <1>2, <1>3, <1>4, <1>5, <1>6 DEF Names

\* The way from the lock file to the lock: what one process does to the two names
\* on it, no unraced process has reason to care about (main.c's open to F_SETLK,
\* create_socket).
LEMMA NamesFiles ==
  ASSUME DInv, NEW p \in Procs,
         Open(p) \/ Test(p) \/ Unlink(p) \/ Create(p) \/ SetLock(p) \/ UnlinkSocket(p)
           \/ Bind(p) \/ Ready(p)
  PROVE  Names'
<1> USE DaemonAssumption DEF DInv, DaemonTypeOK, Starting, Holding, Nothing, Orphan, Go
<1>1. CASE Exit(p)
  BY <1>1, NamesExit DEF Exit
<1>2. CASE Open(p)
  <2>1. RacedRun' /\ Alone' /\ Placed'
    BY <1>2 DEF Open, RacedRun, Alone, Placed
  <2>2. Guarded'
    BY <1>2 DEF Open, Guarded, KeepsItsPlace
  <2>3. KeepsItsPlace' /\ NamesAreFree'
    BY <1>2 DEF Open, KeepsItsPlace, NamesAreFree, Alone
  <2> QED BY <2>1, <2>2, <2>3 DEF Names
<1>3. CASE Test(p) /\ ~Exit(p)
  <2>1. /\ pc[p] = "test"
        /\ UNCHANGED <<lockfile, socket_path, raced>>
    BY <1>3 DEF Test
  <2>2. CASE Locked(lock[p])
    <3>1. pc' = [pc EXCEPT ![p] = "signal"] /\ lock' = lock
      BY <1>3, <2>2 DEF Test
    <3>2. RacedRun' /\ Alone' /\ Placed'
      BY <2>1, <3>1 DEF RacedRun, Alone, Placed
    <3>3. Guarded' /\ KeepsItsPlace' /\ NamesAreFree'
      BY <2>1, <3>1 DEF Guarded, KeepsItsPlace, NamesAreFree
    <3> QED BY <3>2, <3>3 DEF Names
  <2>3. CASE ~Locked(lock[p])
    <3>1. pc' = [pc EXCEPT ![p] = "unlink"] /\ lock' = [lock EXCEPT ![p] = Nothing]
      BY <1>3, <2>3 DEF Test
    <3>2. RacedRun' /\ Alone' /\ Placed'
      BY <2>1, <3>1 DEF RacedRun, Alone, Placed
    <3>3. \A r \in Procs \ raced : r # p => pc[r] \notin Holding
      BY <2>1, <2>3 DEF Guarded, Locked
    <3>4. Guarded' /\ KeepsItsPlace' /\ NamesAreFree'
      BY <2>1, <3>1, <3>3 DEF Guarded, KeepsItsPlace, NamesAreFree
    <3> QED BY <3>2, <3>4 DEF Names
  <2> QED BY <2>2, <2>3
<1>4. CASE Unlink(p)
  <2>1. RacedRun' /\ Alone' /\ Placed'
    BY <1>4 DEF Unlink, RacedRun, Alone, Placed
  <2>2. Guarded'
    BY <1>4 DEF Unlink, Guarded
  <2>3. KeepsItsPlace' /\ NamesAreFree'
    BY <1>4 DEF Unlink, KeepsItsPlace, NamesAreFree, Guarded
  <2> QED BY <2>1, <2>2, <2>3 DEF Names
<1>5. CASE Create(p) /\ ~Exit(p)
  <2>1. RacedRun' /\ Alone' /\ Placed'
    BY <1>5 DEF Create, RacedRun, Alone, Placed
  <2>2. Guarded'
    BY <1>5 DEF Create, Guarded
  <2>3. KeepsItsPlace' /\ NamesAreFree'
    BY <1>5 DEF Create, KeepsItsPlace, NamesAreFree, Guarded, Alone
  <2> QED BY <2>1, <2>2, <2>3 DEF Names
<1>6. CASE SetLock(p)
  <2>1. RacedRun' /\ Alone' /\ Placed'
    BY <1>6 DEF SetLock, RacedRun, Alone, Placed
  <2>2. Guarded'
    BY <1>6 DEF SetLock, Guarded, Alone
  <2>3. KeepsItsPlace' /\ NamesAreFree'
    BY <1>6 DEF SetLock, KeepsItsPlace, NamesAreFree, Placed
  <2> QED BY <2>1, <2>2, <2>3 DEF Names
<1>7. CASE UnlinkSocket(p) \/ (Bind(p) /\ ~Exit(p)) \/ Ready(p)
  <2>1. PICK l \in {"bind", "init", "loop"} :
          pc' = [pc EXCEPT ![p] = l] /\ UNCHANGED <<lock, lockfile, raced>>
    BY <1>7 DEF UnlinkSocket, Bind, Ready
  <2>2. pc[p] \in {"socket", "bind", "init"}
    BY <1>7 DEF UnlinkSocket, Bind, Ready
  <2>3. RacedRun' /\ Alone' /\ Placed'
    BY <2>1, <2>2 DEF RacedRun, Alone, Placed
  <2>4. Guarded'
    BY <2>1, <2>2 DEF Guarded
  <2>5. \A r \in Procs \ raced : r # p => pc[r] \notin Holding
    BY <2>2 DEF Guarded
  <2>6. KeepsItsPlace' /\ NamesAreFree'
    <3>1. CASE UnlinkSocket(p)
      BY <2>5, <3>1 DEF UnlinkSocket, KeepsItsPlace, NamesAreFree
    <3>2. CASE Bind(p) /\ ~Exit(p)
      BY <2>5, <3>2 DEF Bind, KeepsItsPlace, NamesAreFree
    <3>3. CASE Ready(p)
      BY <2>5, <3>3 DEF Ready, KeepsItsPlace, NamesAreFree
    <3> QED BY <1>7, <3>1, <3>2, <3>3
  <2> QED BY <2>3, <2>4, <2>6 DEF Names
<1> QED BY <1>1, <1>2, <1>3, <1>4, <1>5, <1>6, <1>7

\* The main loop leaves the names alone (main_loop and handle_signal).
LEMMA NamesLoop ==
  ASSUME DInv, NEW p \in Procs, EnterPoll(p) \/ Interrupted(p) \/ PollEnds(p)
  PROVE  Names'
<1> USE DaemonAssumption DEF DInv, DaemonTypeOK, Starting, Holding, Go
<1>1. pc[p] \in {"loop", "poll"} /\ UNCHANGED <<lock, lockfile, socket_path, raced>>
  BY DEF EnterPoll, Interrupted, PollEnds
<1>2. PICK l \in {"loop", "poll", "down"} : pc' = [pc EXCEPT ![p] = l]
  BY DEF EnterPoll, Interrupted, PollEnds
<1>3. RacedRun' /\ Alone' /\ Placed'
  BY <1>1, <1>2 DEF RacedRun, Alone, Placed
<1>4. Guarded'
  BY <1>1, <1>2 DEF Guarded
<1>5. KeepsItsPlace' /\ NamesAreFree'
  BY <1>1, <1>2 DEF KeepsItsPlace, NamesAreFree
<1> QED BY <1>3, <1>4, <1>5 DEF Names

LEMMA DInvKept == ASSUME DInv, [DaemonNext]_daemonVars PROVE DInv'
<1>1. CASE DaemonNext
  <2>1. DaemonTypeOK'
    BY <1>1, DaemonTypesKept DEF DInv
  <2>2. PICK p \in Procs : (\E o \in Options : Start(p, o)) \/ Step(p) \/ Crash(p)
    BY <1>1 DEF DaemonNext
  <2>3. ASSUME NEW signals, ExitWith(p, signals) PROVE Names'
    BY <2>3, NamesExit
  <2>4. CASE \E o \in Options : Start(p, o)
    BY <2>4, NamesStart, <2>1 DEF Names, DInv
  <2>5. CASE Crash(p) \/ Exit(p) \/ Signal(p)
    BY <2>5, <2>3, <2>1 DEF Crash, Exit, Signal, Names, DInv
  <2>6. CASE NoneKilled(p) \/ StartFails(p) \/ Shutdown(p)
    BY <2>6, <2>3, <2>1 DEF NoneKilled, StartFails, Shutdown, Exit, Names, DInv
  <2>7. CASE Open(p) \/ Test(p) \/ Unlink(p) \/ Create(p) \/ SetLock(p) \/ UnlinkSocket(p)
               \/ Bind(p) \/ Ready(p)
    BY <2>7, NamesFiles, <2>1 DEF Names, DInv
  <2>8. CASE EnterPoll(p) \/ Interrupted(p) \/ PollEnds(p)
    BY <2>8, NamesLoop, <2>1 DEF Names, DInv
  <2> QED BY <2>2, <2>4, <2>5, <2>6, <2>7, <2>8 DEF Step
<1>2. CASE UNCHANGED daemonVars
  BY <1>2 DEF daemonVars, procVars, DInv, DaemonTypeOK, RacedRun, Alone, Placed, Guarded,
              KeepsItsPlace, NamesAreFree
<1> QED BY <1>1, <1>2

-------------------------------------------------------------------------------
\* The process that is to be signalled has the lock, or is gone: it keeps the lock
\* until it ends (F_GETLK's l_pid and kill).
TargetHolds ==
  \A p \in Procs : pc[p] = "signal" /\ lock[p] \in Procs => pc[lock[p]] \in Holding

LEMMA TargetKept ==
  ASSUME DaemonTypeOK, TargetHolds, HolderIsSignalled, DaemonNext
  PROVE  TargetHolds' /\ HolderIsSignalled'
<1> USE DaemonAssumption DEF DaemonTypeOK, Starting, Holding, Files, Nothing, Orphan, Go
<1>1. PICK p \in Procs : (\E o \in Options : Start(p, o)) \/ Step(p) \/ Crash(p)
  BY DEF DaemonNext
<1>2. ASSUME NEW signals, ExitWith(p, signals),
             \A q \in Procs : q # p /\ signals[q] # {} => pc[q] \in Holding,
             signals \in [Procs -> SUBSET Signals]
      PROVE  TargetHolds' /\ HolderIsSignalled'
  <2>1. TargetHolds'
    BY <1>2 DEF ExitWith, TargetHolds, Without
  <2>2. HolderIsSignalled'
    BY <1>2 DEF ExitWith, HolderIsSignalled
  <2> QED BY <2>1, <2>2
<1>3. ASSUME Exit(p) PROVE TargetHolds' /\ HolderIsSignalled'
  BY <1>2, <1>3 DEF Exit, HolderIsSignalled
<1>4. ASSUME NEW o \in Options, Start(p, o) PROVE TargetHolds' /\ HolderIsSignalled'
  BY <1>4 DEF Start, TargetHolds, HolderIsSignalled
<1>5. CASE Test(p) /\ ~Exit(p)
  <2>1. CASE Locked(lock[p])
    <3>1. pc' = [pc EXCEPT ![p] = "signal"] /\ lock' = lock /\ pending' = pending
      BY <1>5, <2>1 DEF Test
    <3>2. pc[p] = "test" /\ pc[lock[p]] \in Holding
      BY <1>5, <2>1 DEF Test, Locked
    <3> QED BY <3>1, <3>2 DEF TargetHolds, HolderIsSignalled
  <2>2. CASE ~Locked(lock[p])
    <3>1. /\ pc' = [pc EXCEPT ![p] = "unlink"] /\ lock' = [lock EXCEPT ![p] = Nothing]
          /\ pending' = pending /\ pc[p] = "test"
      BY <1>5, <2>2 DEF Test
    <3> QED BY <3>1 DEF TargetHolds, HolderIsSignalled
  <2> QED BY <2>1, <2>2
<1>6. CASE Signal(p)
  <2> DEFINE sent == [q \in Procs |-> IF q = lock[p] THEN pending[q] \cup {exit_signal(options[p])}
                                                     ELSE pending[q]]
  <2>1. \A q \in Procs : q # p /\ sent[q] # {} => pc[q] \in Holding
    BY <1>6 DEF Signal, TargetHolds, HolderIsSignalled
  <2>2. sent \in [Procs -> SUBSET Signals]
    BY DEF exit_signal, Signals
  <2>3. ExitWith(p, sent)
    BY <1>6 DEF Signal
  <2> HIDE DEF sent
  <2> QED BY <1>2, <2>1, <2>2, <2>3
<1>7. CASE Open(p)
  BY <1>7 DEF Open, TargetHolds, HolderIsSignalled
<1>8. CASE \/ Unlink(p) \/ (Create(p) /\ ~Exit(p)) \/ SetLock(p)
           \/ UnlinkSocket(p) \/ (Bind(p) /\ ~Exit(p)) \/ Ready(p)
  <2>1. PICK l \in {"create", "setlk", "socket", "bind", "init", "loop"} :
          pc' = [pc EXCEPT ![p] = l]
    BY <1>8 DEF Unlink, Create, SetLock, UnlinkSocket, Bind, Ready
  <2>2. UNCHANGED <<lock, pending>>
    BY <1>8 DEF Unlink, Create, SetLock, UnlinkSocket, Bind, Ready
  <2>3. pc[p] \in Holding => l \in Holding
    BY <1>8, <2>1 DEF Unlink, Create, SetLock, UnlinkSocket, Bind, Ready
  <2> QED BY <2>1, <2>2, <2>3 DEF TargetHolds, HolderIsSignalled
<1>9. CASE EnterPoll(p) \/ Interrupted(p) \/ PollEnds(p)
  <2>1. PICK l \in {"loop", "poll", "down"} : pc' = [pc EXCEPT ![p] = l] /\ lock' = lock
    BY <1>9 DEF EnterPoll, Interrupted, PollEnds
  <2>2. pc[p] \in {"loop", "poll"}
    BY <1>9 DEF EnterPoll, Interrupted, PollEnds
  <2>3. pending' = pending \/ pending' = [pending EXCEPT ![p] = {}]
    BY <1>9 DEF EnterPoll, Interrupted, PollEnds, Handled
  <2>4. TargetHolds'
    BY <2>1, <2>2 DEF TargetHolds
  <2>5. HolderIsSignalled'
    BY <2>1, <2>2, <2>3 DEF HolderIsSignalled
  <2> QED BY <2>4, <2>5
<1>10. CASE Exit(p) \/ NoneKilled(p) \/ StartFails(p) \/ Shutdown(p)
  BY <1>3, <1>10 DEF NoneKilled, StartFails, Shutdown
<1>11. CASE Crash(p)
  BY <1>2, <1>11 DEF Crash, HolderIsSignalled
<1> QED
  BY <1>1, <1>4, <1>5, <1>6, <1>7, <1>8, <1>9, <1>10, <1>11 DEF Step

-------------------------------------------------------------------------------
\* A step of the service is a step of the processes, or leaves them alone
\* (CNXUEventHandler and ChangeMode reach usbmuxd only by system).
LEMMA StepIsDaemonStep == ASSUME [Next]_vars PROVE [DaemonNext]_daemonVars
<1>1. ASSUME NEW c, NEW o \in Options, System(c, o) PROVE DaemonNext
  BY <1>1 DEF System, Free, DaemonNext
<1>2. CASE Process \/ Killed
  BY <1>2 DEF Process, Killed, DaemonNext
<1>3. CASE Shell
  BY <1>1, <1>3, ManagerAssumption DEF Shell
<1>4. CASE Plug \/ Unplug \/ Look \/ Store
  BY <1>4 DEF Plug, Unplug, Change, Look, Store
<1>5. CASE Monitor
  BY <1>1, <1>5 DEF Monitor, UEventInit, Inserted, SetIPOD, Removed, StopDaemon, Options
<1>6. ASSUME NEW b \in Binders, ChangeMode(b) \/ RunDaemon(b) PROVE [DaemonNext]_daemonVars
  BY <1>1, <1>6 DEF ChangeMode, RunDaemon, Options
<1>7. CASE UNCHANGED vars
  BY <1>7 DEF vars
<1> QED
  BY <1>2, <1>3, <1>4, <1>5, <1>6, <1>7 DEF Next

LEMMA DInvInitially == ASSUME DaemonInit PROVE DInv /\ TargetHolds /\ HolderIsSignalled
<1> USE DaemonAssumption DEF DaemonInit
<1>1. DaemonTypeOK
  BY DEF DaemonTypeOK, Starting, Holding, Files, Nothing, Orphan, Options
<1>2. Names /\ TargetHolds /\ HolderIsSignalled
  BY DEF Names, RacedRun, Alone, Placed, Guarded, KeepsItsPlace, NamesAreFree, TargetHolds,
         HolderIsSignalled, Starting, Holding
<1> QED BY <1>1, <1>2 DEF DInv, Names

DaemonInv == DInv /\ TargetHolds /\ HolderIsSignalled

LEMMA DaemonInvKept == ASSUME DaemonInv, [DaemonNext]_daemonVars PROVE DaemonInv'
<1>1. DInv'
  BY DInvKept DEF DaemonInv
<1>2. CASE DaemonNext
  BY <1>1, <1>2, TargetKept DEF DaemonInv, DInv
<1>3. CASE UNCHANGED daemonVars
  BY <1>1, <1>3 DEF DaemonInv, TargetHolds, HolderIsSignalled, daemonVars, procVars
<1> QED BY <1>2, <1>3

\* The service implements the processes: whatever it does, usbmuxd's processes do
\* what main.c lets them do (system is all that connects the two).
THEOREM ManagerImplementsDaemon == Spec => DaemonInit /\ [][DaemonNext]_daemonVars
<1>1. Init => DaemonInit
  BY DEF Init
<1>2. [Next]_vars => [DaemonNext]_daemonVars
  BY StepIsDaemonStep
<1> QED BY <1>1, <1>2, PTL DEF Spec

\* DaemonInv holds always, under the service (main.c, all of its steps).
THEOREM DaemonInvariant == Spec => []DaemonInv
<1>1. DaemonInit => DaemonInv
  BY DInvInitially DEF DaemonInv
<1>2. DaemonInv /\ [DaemonNext]_daemonVars => DaemonInv'
  BY DaemonInvKept
<1> QED BY <1>1, <1>2, ManagerImplementsDaemon, PTL

\* KeepsItsPlace, for any processes and kills: a daemon whose start met no other
\* start keeps lock file and socket (main.c's way to the lock, create_socket).
THEOREM PlaceKept == Spec => []KeepsItsPlace
<1>1. DaemonInv => KeepsItsPlace
  BY DEF DaemonInv, DInv
<1> QED BY <1>1, DaemonInvariant, PTL

\* NamesAreFree, for any processes and kills: what a dead daemon leaves behind
\* stops nobody (main.c's unlink, create_socket's unlink).
THEOREM NamesFreed == Spec => []NamesAreFree
<1>1. DaemonInv => NamesAreFree
  BY DEF DaemonInv, DInv
<1> QED BY <1>1, DaemonInvariant, PTL

-------------------------------------------------------------------------------
ManagerTypes ==
  /\ port \in Ports
  /\ uevents \in Seq({"add", "remove"})
  /\ isIPOD \in BOOLEAN
  /\ ctor \in {"look", "store", "done"}
  /\ monitor \in {"boot", "poll", "set", "stop"}
  /\ binder \in [Binders -> {"idle", "stop", "serve"}]
  /\ waits \in [Callers -> Procs \cup {Idle}]
  /\ plugs \in 0 .. MaxPlugs
  /\ earlyPlug \in BOOLEAN

LEMMA ManagerTypesKept == ASSUME ManagerTypes, [Next]_vars PROVE ManagerTypes'
<1> USE ManagerAssumption DEF ManagerTypes, Ports
<1>1. ASSUME NEW c \in Callers, NEW o \in Options, System(c, o)
      PROVE  waits' \in [Callers -> Procs \cup {Idle}]
  BY <1>1 DEF System, Free
<1>2. ASSUME NEW c \in Callers, Returned(c)
      PROVE  waits' \in [Callers -> Procs \cup {Idle}]
  BY <1>2 DEF Returned
<1>3. CASE Process \/ Killed
  BY <1>3 DEF Process, Killed, managerVars
<1>4. CASE Shell
  BY <1>1, <1>2, <1>4 DEF Shell, Callers
<1>5. ASSUME NEW d \in Ports, NEW u \in {"add", "remove"}, Change(d, u) PROVE ManagerTypes'
  <2>1. uevents' \in Seq({"add", "remove"})
    BY <1>5 DEF Change
  <2> QED BY <1>5, <2>1 DEF Change
<1>6. CASE Plug \/ Unplug
  BY <1>5, <1>6 DEF Plug, Unplug
<1>7. CASE Look \/ Store
  BY <1>7 DEF Look, Store
<1>8. CASE UEventInit \/ SetIPOD
  BY <1>8 DEF UEventInit, SetIPOD
<1>9. CASE Inserted \/ Removed
  <2>1. uevents' \in Seq({"add", "remove"})
    BY <1>9 DEF Inserted, Removed
  <2>2. UNCHANGED <<port, ctor, binder, waits, plugs, earlyPlug>>
    BY <1>9 DEF Inserted, Removed
  <2>3. monitor' \in {"boot", "poll", "set", "stop"} /\ isIPOD' \in BOOLEAN
    BY <1>9 DEF Inserted, Removed
  <2> QED BY <2>1, <2>2, <2>3
<1>10. CASE StopDaemon
  BY <1>1, <1>2, <1>10 DEF StopDaemon, Callers, Options
<1>11. ASSUME NEW b \in Binders, ChangeMode(b) \/ RunDaemon(b) PROVE ManagerTypes'
  BY <1>1, <1>2, <1>11 DEF ChangeMode, RunDaemon, Callers, Options
<1>12. CASE UNCHANGED vars
  BY <1>12 DEF vars, managerVars
<1> QED
  BY <1>3, <1>4, <1>6, <1>7, <1>8, <1>9, <1>10, <1>11, <1>12 DEF Next, Monitor

LEMMA ManagerTypesInitially == ASSUME Init PROVE ManagerTypes
<1>1. uevents \in Seq({"add", "remove"})
  <2>1. uevents = <<>>
    BY DEF Init
  <2> QED BY <2>1
<1>6. isIPOD \in BOOLEAN /\ earlyPlug \in BOOLEAN
  BY DEF Init
<1>2. binder \in [Binders -> {"idle", "stop", "serve"}]
  BY DEF Init
<1>3. waits \in [Callers -> Procs \cup {Idle}]
  BY DEF Init
<1>4. port \in Ports /\ ctor = "look" /\ monitor = "boot"
  BY DEF Init
<1>5. plugs \in 0 .. MaxPlugs
  BY ManagerAssumption DEF Init
<1> QED BY <1>1, <1>2, <1>3, <1>4, <1>5, <1>6 DEF ManagerTypes

\* TypeOK, for any processes, binder threads, kills and changes at the port; and
\* only the process with the lock is ever signalled (main.c's kill of l_pid).
THEOREM TypeCorrect == Spec => []TypeOK
<1>1. Init => ManagerTypes
  BY ManagerTypesInitially
<1>2. ManagerTypes /\ [Next]_vars => ManagerTypes'
  BY ManagerTypesKept
<1>3. ManagerTypes /\ DaemonInv => TypeOK
  BY DEF ManagerTypes, DaemonInv, DInv, TypeOK
<1> QED BY <1>1, <1>2, <1>3, DaemonInvariant, PTL DEF Spec

-------------------------------------------------------------------------------
\* The uevents that are left alternate, and the last of them is the last thing that
\* happened to the port.
Queue ==
  /\ \A i \in 1 .. Len(uevents) - 1 : uevents[i] # uevents[i + 1]
  /\ uevents # <<>> => (uevents[Len(uevents)] = "remove" <=> port = "empty")
  /\ monitor = "boot" => uevents = <<>>

\* What isIPOD may be while the constructor and the thread are at work: a wrong TRUE
\* only in front of the removal that clears it, a wrong FALSE only until the
\* constructor, or the thread that has read the ids, comes to store.
Flag ==
  ~earlyPlug =>
    /\ ctor = "store" => port = "iPod"
    /\ monitor = "boot" /\ ctor # "done" => ~isIPOD
    /\ monitor = "set" => IF uevents = <<>> THEN port = "iPod" ELSE uevents[1] = "remove"
    /\ monitor # "set" /\ (uevents = <<>> \/ (Len(uevents) = 1 /\ uevents[1] = "add")) /\ isIPOD
         => port = "iPod"
    /\ monitor # "set" /\ uevents = <<>> /\ ctor = "done" /\ port = "iPod" => isIPOD

LEMMA QueueKept == ASSUME ManagerTypes, Queue, [Next]_vars PROVE Queue'
<1> USE DEF ManagerTypes, Ports
<1>1. ASSUME NEW d \in Ports, NEW u \in {"add", "remove"}, Change(d, u),
             u = "remove" <=> d = "empty", d = "empty" <=> port # "empty"
      PROVE  Queue'
  <2>1. CASE monitor = "boot"
    BY <1>1, <2>1 DEF Change, Queue
  <2>2. CASE monitor # "boot"
    <3>1. uevents' = Append(uevents, u) /\ monitor' = monitor /\ port' = d
      BY <1>1, <2>2 DEF Change
    <3>2. Len(uevents') = Len(uevents) + 1 /\ uevents'[Len(uevents) + 1] = u
      BY <3>1
    <3>3. \A i \in 1 .. Len(uevents) : uevents'[i] = uevents[i]
      BY <3>1
    <3>4. \A i \in 1 .. Len(uevents) : uevents'[i] # uevents'[i + 1]
      <4> TAKE i \in 1 .. Len(uevents)
      <4>1. CASE i = Len(uevents)
        BY <1>1, <3>2, <3>3, <4>1 DEF Queue
      <4>2. CASE i # Len(uevents)
        BY <3>3, <4>2 DEF Queue
      <4> QED BY <4>1, <4>2
    <3> QED BY <1>1, <2>2, <3>1, <3>2, <3>4 DEF Queue
  <2> QED BY <2>1, <2>2
<1>2. CASE Plug \/ Unplug
  BY <1>1, <1>2 DEF Plug, Unplug
<1>3. CASE Inserted \/ Removed
  <2>1. uevents # <<>> /\ uevents' = Tail(uevents) /\ port' = port /\ monitor' # "boot"
    BY <1>3 DEF Inserted, Removed
  <2>2. Len(uevents') = Len(uevents) - 1
        /\ \A i \in 1 .. Len(uevents) - 1 : uevents'[i] = uevents[i + 1]
    BY <2>1
  <2>3. \A i \in 1 .. Len(uevents') - 1 : uevents'[i] # uevents'[i + 1]
    BY <2>1, <2>2 DEF Queue
  <2>4. uevents' # <<>> => uevents'[Len(uevents')] = uevents[Len(uevents)]
    BY <2>1, <2>2
  <2> QED BY <2>1, <2>3, <2>4 DEF Queue
<1>4. CASE UNCHANGED <<uevents, port>> /\ (monitor' = "boot" => monitor = "boot")
  BY <1>4 DEF Queue
<1>5. CASE Process \/ Killed \/ Shell \/ Look \/ Store \/ UNCHANGED vars
  BY <1>4, <1>5 DEF Process, Killed, Shell, Look, Store, managerVars, vars
<1>6. CASE UEventInit \/ SetIPOD \/ StopDaemon
  BY <1>4, <1>6 DEF UEventInit, SetIPOD, StopDaemon
<1>7. ASSUME NEW b \in Binders, ChangeMode(b) \/ RunDaemon(b) PROVE Queue'
  BY <1>4, <1>7 DEF ChangeMode, RunDaemon
<1> QED BY <1>2, <1>3, <1>5, <1>6, <1>7 DEF Next, Monitor

LEMMA FlagKept == ASSUME ManagerTypes, Queue, Flag, [Next]_vars PROVE Flag'
<1> USE DEF ManagerTypes, Ports
<1>1. CASE Plug \/ Unplug
  <2>1. PICK d \in Ports, u \in {"add", "remove"} :
          Change(d, u) /\ (u = "remove" <=> d = "empty") /\ (d = "empty" <=> port # "empty")
    BY <1>1 DEF Plug, Unplug
  <2>2. UNCHANGED <<isIPOD, ctor, monitor>> /\ port' = d
    BY <2>1 DEF Change
  <2>3. ~earlyPlug' => ~earlyPlug /\ ctor # "store" /\ ~(monitor = "boot" /\ ctor = "done")
    BY <2>1 DEF Change
  <2>4. CASE monitor = "boot"
    <3>1. uevents' = <<>> /\ uevents = <<>>
      BY <2>1, <2>4 DEF Change, Queue
    <3> QED BY <2>2, <2>3, <2>4, <3>1 DEF Flag
  <2>5. CASE monitor # "boot"
    <3>1. uevents' = Append(uevents, u)
      BY <2>1, <2>5 DEF Change
    <3>2. uevents' # <<>> /\ Len(uevents') = Len(uevents) + 1
          /\ (uevents # <<>> => uevents'[1] = uevents[1]) /\ (uevents = <<>> => uevents'[1] = u)
      BY <3>1
    <3> QED BY <2>1, <2>2, <2>3, <2>5, <3>2 DEF Flag
  <2> QED BY <2>4, <2>5
<1>2. CASE Look
  BY <1>2 DEF Look, Flag
<1>3. CASE Store
  BY <1>3 DEF Store, Flag, Queue
<1>4. CASE UEventInit
  BY <1>4 DEF UEventInit, Flag
<1>5. CASE SetIPOD
  BY <1>5 DEF SetIPOD, Flag
<1>6. CASE Inserted \/ Removed
  <2>1. uevents # <<>> /\ uevents' = Tail(uevents)
    BY <1>6 DEF Inserted, Removed
  <2>2. Len(uevents) >= 1 /\ Head(uevents) = uevents[1] /\ uevents[1] \in {"add", "remove"}
    BY <2>1
  <2>3. Len(uevents) = 1 => uevents' = <<>>
    BY <2>1
  <2>4. ASSUME Len(uevents) > 1
        PROVE  /\ uevents' # <<>> /\ uevents'[1] = uevents[2]
               /\ uevents[2] \in {"add", "remove"} /\ uevents[1] # uevents[2]
    <3>1. 1 \in 1 .. Len(uevents) - 1 /\ 1 + 1 = 2
      BY <2>2, <2>4
    <3>2. uevents[1] # uevents[2]
      BY <3>1 DEF Queue
    <3>3. uevents[2] \in {"add", "remove"}
      BY <2>4
    <3>4. Len(uevents') = Len(uevents) - 1
          /\ \A i \in 1 .. Len(uevents) - 1 : uevents'[i] = uevents[i + 1]
      BY <2>1
    <3>5. uevents'[1] = uevents[2]
      BY <3>1, <3>4
    <3>6. uevents' # <<>>
      BY <2>4, <3>4
    <3> QED BY <3>2, <3>3, <3>5, <3>6
  <2>7. Len(uevents) = 1 \/ Len(uevents) > 1
    <3>1. Len(uevents) \in Nat
      BY DEF ManagerTypes
    <3>2. \A n \in Nat : n >= 1 => n = 1 \/ n > 1
      OBVIOUS
    <3>3. Len(uevents) >= 1
      BY <2>2
    <3> HIDE DEF ManagerTypes, Ports
    <3> QED BY ONLY <3>1, <3>2, <3>3
  <2>5. CASE Inserted
    <3>1. /\ monitor = "poll" /\ uevents[1] = "add"
          /\ UNCHANGED <<port, isIPOD, ctor, earlyPlug>>
          /\ monitor' = IF port = "iPod" THEN "set" ELSE "poll"
      BY <2>2, <2>5 DEF Inserted
    <3> QED BY <2>1, <2>3, <2>4, <2>7, <3>1 DEF Flag
  <2>6. CASE Removed
    <3>1. /\ monitor = "poll" /\ uevents[1] = "remove" /\ ~isIPOD'
          /\ UNCHANGED <<port, ctor, earlyPlug>> /\ monitor' \in {"stop", "poll"}
      BY <2>2, <2>6 DEF Removed
    <3>2. Len(uevents) = 1 => port = "empty"
      BY <2>1, <3>1 DEF Queue
    <3> QED BY <2>1, <2>3, <2>4, <2>7, <3>1, <3>2 DEF Flag
  <2> QED BY <1>6, <2>5, <2>6
<1>7. CASE UNCHANGED <<uevents, port, isIPOD, ctor, earlyPlug>>
             /\ (monitor' = monitor \/ (monitor = "stop" /\ monitor' = "poll"))
  BY <1>7 DEF Flag
<1>8. CASE Process \/ Killed \/ Shell \/ UNCHANGED vars
  BY <1>7, <1>8 DEF Process, Killed, Shell, managerVars, vars
<1>9. CASE StopDaemon
  BY <1>7, <1>9 DEF StopDaemon
<1>10. ASSUME NEW b \in Binders, ChangeMode(b) \/ RunDaemon(b) PROVE Flag'
  BY <1>7, <1>10 DEF ChangeMode, RunDaemon
<1> QED
  BY <1>1, <1>2, <1>3, <1>4, <1>5, <1>6, <1>8, <1>9, <1>10 DEF Next, Monitor

\* FlagFollowsPort, for any number of changes at the port and any delay of the
\* uevents (CNXUEventHandler's constructor and UEventMonitorThread).
THEOREM FlagFollows == Spec => []FlagFollowsPort
<1> DEFINE FInv == ManagerTypes /\ Queue /\ Flag
<1>1. Init => FInv
  <2>1. Init => ManagerTypes
    BY ManagerTypesInitially
  <2>2. Init => Queue /\ Flag
    BY DEF Init, Queue, Flag
  <2> QED BY <2>1, <2>2
<1>2. FInv /\ [Next]_vars => FInv'
  BY ManagerTypesKept, QueueKept, FlagKept
<1>3. FInv => FlagFollowsPort
  BY DEF ManagerTypes, Ports, Flag, FlagFollowsPort
<1> HIDE DEF FInv
<1> QED BY <1>1, <1>2, <1>3, PTL DEF Spec

-------------------------------------------------------------------------------
(*****************************************************************************)
(* NeverCalledOff.                                                           *)
(*****************************************************************************)

\* What a process does to another is to signal it, and to end.
LEMMA OthersStay ==
  ASSUME DaemonTypeOK, NEW r \in Procs, (\E o \in Options : Start(r, o)) \/ Step(r) \/ Crash(r),
         NEW q \in Procs, q # r
  PROVE  /\ pc'[q] = pc[q] /\ options'[q] = options[q] /\ should_exit'[q] = should_exit[q]
         /\ pending[q] \subseteq pending'[q]
         /\ lock[q] # r => lock'[q] = lock[q]
<1> USE DEF DaemonTypeOK, Go
<1>1. ASSUME NEW signals, ExitWith(r, signals), pending[q] \subseteq signals[q], signals \in [Procs -> SUBSET Signals]
      PROVE  /\ pc'[q] = pc[q] /\ options'[q] = options[q] /\ should_exit'[q] = should_exit[q]
             /\ pending[q] \subseteq pending'[q]
             /\ lock[q] # r => lock'[q] = lock[q]
  BY <1>1 DEF ExitWith, Without
<1>2. CASE Exit(r) \/ Crash(r)
  BY <1>1, <1>2 DEF Exit, Crash
<1>3. CASE \E o \in Options : Start(r, o)
  BY <1>3 DEF Start
<1>4. CASE Signal(r)
  <2> DEFINE sent == [p \in Procs |-> IF p = lock[r] THEN pending[p] \cup {exit_signal(options[r])}
                                                     ELSE pending[p]]
  <2>1. sent \in [Procs -> SUBSET Signals] /\ pending[q] \subseteq sent[q]
    BY DEF exit_signal, Signals
  <2>2. ExitWith(r, sent)
    BY <1>4 DEF Signal
  <2> HIDE DEF sent
  <2> QED BY <1>1, <2>1, <2>2
<1>5. CASE Open(r) \/ (Test(r) /\ ~Exit(r)) \/ Unlink(r) \/ (Create(r) /\ ~Exit(r))
  BY <1>5 DEF Open, Test, Unlink, Create
<1>6. CASE SetLock(r) \/ UnlinkSocket(r) \/ (Bind(r) /\ ~Exit(r)) \/ Ready(r)
  BY <1>6 DEF SetLock, UnlinkSocket, Bind, Ready
<1>7. CASE EnterPoll(r) \/ Interrupted(r) \/ PollEnds(r)
  BY <1>7 DEF EnterPoll, Interrupted, PollEnds, Handled
<1>8. CASE NoneKilled(r) \/ StartFails(r) \/ Shutdown(r)
  BY <1>2, <1>8 DEF NoneKilled, StartFails, Shutdown
<1> QED BY <1>2, <1>3, <1>4, <1>5, <1>6, <1>7, <1>8 DEF Step

\* A daemon that has been told goes down by its own steps, of which none forgets it.
LEMMA LeavingKept ==
  ASSUME DaemonTypeOK, NEW p \in Procs, pc[p] \in Holding, Leaving(p), DaemonNext
  PROVE  Leaving(p)' \/ pc'[p] = "none"
<1> USE DEF DaemonTypeOK, Go, Holding
<1>1. PICK r \in Procs : (\E o \in Options : Start(r, o)) \/ Step(r) \/ Crash(r)
  BY DEF DaemonNext
<1>2. CASE r # p
  BY <1>1, <1>2, OthersStay DEF Leaving
<1>3. CASE r = p
  <2>1. CASE Exit(p) \/ Crash(p)
    BY <2>1 DEF Exit, Crash, ExitWith
  <2>2. CASE EnterPoll(p)
    BY <2>2 DEF EnterPoll, Handled, Leaving
  <2>3. CASE Interrupted(p)
    BY <2>3 DEF Interrupted, Handled, Leaving
  <2>4. CASE PollEnds(p)
    BY <2>4 DEF PollEnds, Handled, Leaving
  <2>5. CASE SetLock(p) \/ UnlinkSocket(p) \/ (Bind(p) /\ ~Exit(p)) \/ Ready(p)
    BY <2>5 DEF SetLock, UnlinkSocket, Bind, Ready, Leaving
  <2>6. CASE StartFails(p) \/ Shutdown(p) \/ NoneKilled(p)
    BY <2>1, <2>6 DEF StartFails, Shutdown, NoneKilled
  <2>7. ~(\E o \in Options : Start(p, o)) /\ ~Open(p) /\ ~Test(p) /\ ~Signal(p) /\ ~Unlink(p) /\ ~Create(p)
    BY DEF Start, Open, Test, Signal, Unlink, Create
  <2> QED BY <1>1, <1>3, <2>1, <2>2, <2>3, <2>4, <2>5, <2>6, <2>7 DEF Step
<1> QED BY <1>2, <1>3

\* usbmuxdd -X opens the lock file of the daemon, finds its lock, and signals it.
LEMMA ReachingKept ==
  ASSUME DaemonInv, NEW p \in Procs, NEW q \in Procs, p # q, p \notin raced, pc[p] \in Holding,
         Reaching(q, p), DaemonNext, ~Crash(q)
  PROVE  Reaching(q, p)' \/ Leaving(p)' \/ pc'[p] = "none"
<1> USE DEF DaemonInv, DInv, DaemonTypeOK, Go
<1>1. PICK r \in Procs : (\E o \in Options : Start(r, o)) \/ Step(r) \/ Crash(r)
  BY DEF DaemonNext
<1>2. CASE r = p
  <2>1. CASE pc'[p] = "none"
    BY <2>1
  <2>2. CASE pc'[p] # "none"
    <3>1. pc'[q] = pc[q] /\ options'[q] = options[q]
      BY <1>1, <1>2, OthersStay
    <3>2. lock'[q] = lock[q]
      <4>1. ~Exit(p) /\ ~Crash(p)
        BY <2>2 DEF Exit, Crash, ExitWith
      <4>2. CASE EnterPoll(p) \/ Interrupted(p) \/ PollEnds(p)
        BY <4>2 DEF EnterPoll, Interrupted, PollEnds
      <4>3. CASE SetLock(p) \/ UnlinkSocket(p) \/ Bind(p) \/ Ready(p)
        BY <4>1, <4>3 DEF SetLock, UnlinkSocket, Bind, Ready
      <4>4. ~StartFails(p) /\ ~Shutdown(p) /\ ~NoneKilled(p)
        BY <4>1 DEF StartFails, Shutdown, NoneKilled
      <4>5. ~(\E o \in Options : Start(p, o)) /\ ~Open(p) /\ ~Test(p) /\ ~Signal(p) /\ ~Unlink(p) /\ ~Create(p)
        BY DEF Start, Open, Test, Signal, Unlink, Create, Holding
      <4> QED BY <1>1, <1>2, <4>1, <4>2, <4>3, <4>4, <4>5 DEF Step
    <3> QED BY <3>1, <3>2 DEF Reaching
  <2> QED BY <2>1, <2>2
<1>3. CASE r = q
  <2>1. pc[q] \in {"open", "test", "signal"} /\ options[q] = "-X"
    BY DEF Reaching
  <2>2. CASE Open(q)
    <3>1. lockfile = p /\ p # Nothing
      BY DaemonAssumption DEF KeepsItsPlace, Nothing
    <3>2. pc'[q] = "test" /\ lock'[q] = p /\ options' = options
      BY <2>2, <3>1 DEF Open
    <3> QED BY <2>1, <3>2 DEF Reaching
  <2>3. CASE Test(q)
    <3>1. lock[q] = p /\ Locked(lock[q]) /\ options[q] \in opt_exit
      BY <2>1, <2>3 DEF Test, Reaching, Locked, opt_exit
    <3>2. pc'[q] = "signal" /\ lock' = lock /\ options' = options
      BY <2>3, <3>1 DEF Test
    <3> QED BY <2>1, <3>1, <3>2 DEF Reaching
  <2>4. CASE Signal(q)
    <3> DEFINE sent == [x \in Procs |-> IF x = lock[q] THEN pending[x] \cup {exit_signal(options[q])}
                                                       ELSE pending[x]]
    <3>1. lock[q] = p /\ exit_signal(options[q]) = "TERM"
      BY <2>1, <2>4 DEF Signal, Reaching, exit_signal
    <3>2. "TERM" \in sent[p]
      BY <3>1
    <3>3. ExitWith(q, sent)
      BY <2>4 DEF Signal
    <3>4. sent \in [Procs -> SUBSET Signals]
      BY <3>1 DEF Signals, exit_signal
    <3> HIDE DEF sent
    <3>5. "TERM" \in pending'[p]
      BY <3>2, <3>3, <3>4 DEF ExitWith
    <3> QED BY <3>5 DEF Leaving
  <2>5. ~(\E o \in Options : Start(q, o)) /\ ~Unlink(q) /\ ~Create(q) /\ ~NoneKilled(q) /\ ~Shutdown(q)
    BY <2>1 DEF Start, Unlink, Create, NoneKilled, Shutdown
  <2>6. /\ ~SetLock(q) /\ ~UnlinkSocket(q) /\ ~Bind(q) /\ ~Ready(q) /\ ~StartFails(q)
        /\ ~EnterPoll(q) /\ ~Interrupted(q) /\ ~PollEnds(q)
    BY <2>1 DEF SetLock, UnlinkSocket, Bind, Ready, StartFails, EnterPoll, Interrupted, PollEnds
  <2> QED BY <1>1, <1>3, <2>2, <2>3, <2>4, <2>5, <2>6 DEF Step
<1>4. CASE r # p /\ r # q
  BY <1>1, <1>4, OthersStay DEF Reaching
<1> QED BY <1>2, <1>3, <1>4

\* Only a kill from outside counts as one.
LEMMA OnlyKillsCount == ASSUME Next, ~Killed PROVE crashes' = crashes
<1>1. CASE Process
  <2>1. PICK r \in Procs : Step(r)
    BY <1>1 DEF Process
  <2>2. CASE Open(r) \/ Test(r) \/ Signal(r) \/ Unlink(r) \/ NoneKilled(r)
    BY <2>2 DEF Open, Test, Signal, Unlink, NoneKilled, Exit
  <2>3. CASE Create(r) \/ SetLock(r) \/ UnlinkSocket(r) \/ Bind(r) \/ Ready(r) \/ StartFails(r)
    BY <2>3 DEF Create, SetLock, UnlinkSocket, Bind, Ready, StartFails, Exit
  <2>4. CASE EnterPoll(r) \/ Interrupted(r) \/ PollEnds(r) \/ Shutdown(r)
    BY <2>4 DEF EnterPoll, Interrupted, PollEnds, Shutdown, Exit
  <2> QED BY <2>1, <2>2, <2>3, <2>4 DEF Step
<1>2. CASE UNCHANGED daemonVars
  BY <1>2 DEF daemonVars
<1>3. CASE \E c \in Callers, o \in Options : System(c, o)
  BY <1>3 DEF System, Start
<1>4. CASE Shell
  BY <1>2, <1>3, <1>4, ManagerAssumption DEF Shell, Callers
<1>5. CASE Plug \/ Unplug \/ Look \/ Store
  BY <1>2, <1>5 DEF Plug, Unplug, Change, Look, Store
<1>6. CASE Monitor
  <2>1. "-X" \in Options /\ "monitor" \in Callers
    BY DEF Options, Callers
  <2>2. CASE StopDaemon
    BY <1>2, <1>3, <2>1, <2>2 DEF StopDaemon
  <2>3. CASE UEventInit \/ Inserted \/ SetIPOD \/ Removed
    BY <1>2, <2>3 DEF UEventInit, Inserted, SetIPOD, Removed
  <2> QED BY <1>6, <2>2, <2>3 DEF Monitor
<1>7. ASSUME NEW b \in Binders, ChangeMode(b) \/ RunDaemon(b) PROVE crashes' = crashes
  BY <1>2, <1>3, <1>7 DEF ChangeMode, RunDaemon, Callers, Options
<1> QED BY <1>1, <1>4, <1>5, <1>6, <1>7 DEF Next

\* usbmuxdd -X, started while a daemon that met no other start has the lock, tells
\* that daemon, and a daemon that is told ends: no step of another process, of the
\* service or of a shell calls it off (main.c's lock test, kill and handle_signal).
THEOREM RemovalNeverCalledOff == Spec => NeverCalledOff
<1> DEFINE Kept ==
      \A p, q \in Procs :
        p # q /\ p \notin raced /\ pc[p] \in Holding =>
          /\ Leaving(p) => Leaving(p)' \/ pc'[p] = "none"
          /\ Reaching(q, p) => Reaching(q, p)' \/ Leaving(p)' \/ pc'[p] = "none"
<1>1. DaemonInv /\ [Next]_vars => [Kept]_vars
  <2> SUFFICES ASSUME DaemonInv, Next, NEW p \in Procs, NEW q \in Procs,
                      p # q, p \notin raced, pc[p] \in Holding
               PROVE  /\ Leaving(p) => Leaving(p)' \/ pc'[p] = "none"
                      /\ Reaching(q, p) => Reaching(q, p)' \/ Leaving(p)' \/ pc'[p] = "none"
    OBVIOUS
  <2>1. DaemonNext \/ UNCHANGED daemonVars
    BY StepIsDaemonStep
  <2>2. CASE UNCHANGED daemonVars
    BY <2>2 DEF daemonVars, procVars, Leaving, Reaching
  <2>3. CASE DaemonNext /\ daemonVars' # daemonVars
    <3>1. Leaving(p) => Leaving(p)' \/ pc'[p] = "none"
      BY <2>3, LeavingKept DEF DaemonInv, DInv
    <3>2. ASSUME Reaching(q, p) PROVE ~Crash(q)
      <4>1. options[q] \in opt_exit
        BY <3>2 DEF Reaching, opt_exit
      <4>2. pc[q] # "none"
        BY <3>2 DEF Reaching
      <4>3. CASE Killed
        <5>1. PICK r \in Procs : options[r] \notin opt_exit /\ Crash(r)
          BY <4>3 DEF Killed
        <5>2. pc'[q] = pc[q]
          BY <4>1, <5>1, OthersStay DEF DaemonInv, DInv
        <5>3. Crash(q) => pc'[q] = "none"
          BY DEF Crash, ExitWith, Go, DaemonInv, DInv, DaemonTypeOK
        <5> QED BY <4>2, <5>2, <5>3
      <4>4. CASE ~Killed
        <5>1. crashes' = crashes /\ crashes \in Int
          BY <4>4, OnlyKillsCount, DaemonAssumption DEF DaemonInv, DInv, DaemonTypeOK
        <5> QED BY <5>1 DEF Crash
      <4> QED BY <4>3, <4>4
    <3> QED BY <2>3, <3>1, <3>2, ReachingKept
  <2> QED BY <2>1, <2>2, <2>3
<1> QED BY <1>1, DaemonInvariant, PTL DEF Spec, NeverCalledOff

===============================================================================
