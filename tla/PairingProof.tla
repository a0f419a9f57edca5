----------------------------- MODULE PairingProof -----------------------------
(***************************************************************************)
(* Proofs about Pairing, for any number of attachments and of saves.       *)
(*                                                                         *)
(* StackIsLive is not inductive: that the worker may leave its function    *)
(* rests on the pointer of the device's entry being gone once it has       *)
(* unregistered (Unregistered), on a notifier being known to np as long as *)
(* it runs, so that the worker joins it (Joinable), and on a device that   *)
(* is not plugged in yet having no worker (Fresh).  That somebody wakes a  *)
(* worker that waits rests on when np and the entry's pointer are there    *)
(* (Wakes).                                                                *)
(***************************************************************************)
EXTENDS Pairing, TLAPS

-----------------------------------------------------------------------------
Unregistered == \A a \in Attachments : worker[a] \in {"release", "join"} => ~preflight_cb_data[a]
Joinable     == \A a \in Attachments : notifier[a] # "off" => np[a]
Fresh        == \A a \in Attachments : device[a] = "new" => worker[a] = "none"

Threads == StackIsLive /\ Unregistered /\ Joinable /\ Fresh
PInv    == TypeOK /\ Threads

LEMMA PInvInitially == ASSUME Init PROVE PInv
<1>1. TypeOK
  <2>1. Waiting(NoJob.who) \/ job = NoJob
    BY DEF Init
  <2> QED
    BY <2>1, PairingAssumption DEF Init, TypeOK, Records, Kinds, WorkerStates, OnStack
<1>2. Threads
  BY DEF Init, Threads, StackIsLive, Unregistered, Joinable, Fresh
<1> QED BY <1>1, <1>2 DEF PInv

\* What TypeOK says of a job goes on holding while nobody who waits stops waiting.
LEMMA JobKept ==
  ASSUME TypeOK, job' = job,
         \A b \in Attachments : /\ worker[b] \in {"save", "save6"} => worker'[b] = worker[b]
                                /\ notifier[b] = "save" => notifier'[b] = "save"
  PROVE  (job # NoJob => job.who = Client \/ Waiting(job.who))'
<1> SUFFICES ASSUME job # NoJob, job.who # Client PROVE Waiting(job.who)'
  OBVIOUS
<1>1. job.who \in {"worker", "notifier"} \X Attachments /\ Waiting(job.who)
  BY DEF TypeOK, Savers
<1>2. PICK t \in {"worker", "notifier"}, b \in Attachments : job.who = <<t, b>>
  BY <1>1
<1>3. IF t = "worker" THEN worker[b] \in {"save", "save6"} ELSE notifier[b] = "save"
  BY <1>1, <1>2 DEF Waiting
<1>4. IF t = "worker" THEN worker'[b] \in {"save", "save6"} ELSE notifier'[b] = "save"
  BY <1>3
<1> QED BY <1>2, <1>4 DEF Waiting

\* The types that a step of a worker leaves to be shown.
LEMMA WorkerTypes ==
  ASSUME TypeOK, NEW a \in Attachments, NEW from, NEW to \in WorkerStates, Step(a, from, to),
         from \notin {"save", "save6"}, UNCHANGED <<device, job, saves>>,
         \A b \in Attachments : notifier[b] = "save" => notifier'[b] = "save",
         record' \in Records,
         is_device_paired' \in [Attachments -> BOOLEAN], host' \in [Attachments -> Records],
         np' \in [Attachments -> BOOLEAN], is_device_connected' \in [Attachments -> BOOLEAN],
         preflight_cb_data' \in [Attachments -> BOOLEAN],
         notifier' \in [Attachments -> {"off", "deaf", "run", "save"}],
         main' = main \/ (main = "opened" /\ main' = "unlinked"),
         fault' = fault
  PROVE  TypeOK'
<1>1. worker' \in [Attachments -> WorkerStates]
  BY DEF TypeOK, Step
<1>2. (job # NoJob => job.who = Client \/ Waiting(job.who))'
  <2>1. \A b \in Attachments : worker[b] \in {"save", "save6"} => worker'[b] = worker[b]
    BY DEF TypeOK, Step
  <2> QED BY <2>1, JobKept
<1>3. (job \in [who : Savers, of : Kinds] \cup {NoJob})' /\ (saves \in 0..MaxSaves)' /\ (fault \in {"none", "use_after_free"})'
  BY DEF TypeOK
<1>4. (main \in {"idle", "removed", "opened", "unlinked"} /\ (main = "idle") = (job = NoJob))'
  BY DEF TypeOK
<1>5. (device \in [Attachments -> {"new", "plugged", "unplugged", "removed"}])'
  BY DEF TypeOK
<1> QED BY <1>1, <1>2, <1>3, <1>4, <1>5 DEF TypeOK

\* A step of a worker within its function, or outside it, that touches no pointer
\* to cbdata keeps Threads.
LEMMA WorkerMoves ==
  ASSUME TypeOK, Threads, NEW a \in Attachments, NEW from, NEW to \in WorkerStates, Step(a, from, to),
         UNCHANGED <<device, preflight_cb_data, notifier, np>>,
         from # "none",
         from \in OnStack => to \in OnStack,
         to \in {"release", "join"} => from \in {"release", "join"}
  PROVE  Threads'
<1> USE DEF Threads, TypeOK, Step
<1>1. StackIsLive'
  BY DEF StackIsLive
<1>2. Unregistered'
  BY DEF Unregistered
<1>3. Joinable' /\ Fresh'
  BY DEF Joinable, Fresh
<1> QED BY <1>1, <1>2, <1>3

-----------------------------------------------------------------------------
\* The steps of a worker that concern no pointer to cbdata, one by one.
LEMMA WorkerQuiet ==
  ASSUME TypeOK, Threads, NEW a \in Attachments,
         Lockdown(a) \/ Look(a) \/ ReadHost(a) \/ StartSession(a) \/ Handshake(a) \/ RemoveRecord(a) \/ Version(a) \/ Pair(a) \/ Wait(a) \/ Pair6(a) \/ Check6(a)
  PROVE  TypeOK' /\ Threads'
<1>1. CASE Lockdown(a)
  <2>1. PICK to \in {"left", "announce", "look"} : Step(a, "lockdown", to)
    BY <1>1 DEF Lockdown, Locals
  <2>2. to \in WorkerStates
    BY <2>1 DEF WorkerStates, OnStack
  <2>3. UNCHANGED <<device, preflight_cb_data, notifier, np, is_device_connected, job, saves, fault>>
    BY <1>1 DEF Lockdown, others, mainVars, cbdata
  <2>4. record' \in Records /\ (main' = main \/ (main = "opened" /\ main' = "unlinked"))
    BY <1>1 DEF Lockdown, others, mainVars, TypeOK, Records
  <2>5. is_device_paired' \in [Attachments -> BOOLEAN] /\ host' \in [Attachments -> Records]
    BY <1>1 DEF Lockdown, locals, Locals, TypeOK, Records, Kinds
  <2>6. TypeOK'
    BY <2>1, <2>2, <2>3, <2>4, <2>5, WorkerTypes DEF TypeOK
  <2>7. Threads'
    BY <2>1, <2>2, <2>3, WorkerMoves DEF OnStack
  <2> QED BY <2>6, <2>7
<1>2. CASE Look(a)
  <2>1. PICK to \in {"version", "host"} : Step(a, "look", to)
    BY <1>2 DEF Look, Locals
  <2>2. to \in WorkerStates
    BY <2>1 DEF WorkerStates, OnStack
  <2>3. UNCHANGED <<device, preflight_cb_data, notifier, np, is_device_connected, job, saves, fault>>
    BY <1>2 DEF Look, others, mainVars, cbdata
  <2>4. record' \in Records /\ (main' = main \/ (main = "opened" /\ main' = "unlinked"))
    BY <1>2 DEF Look, others, mainVars, TypeOK, Records
  <2>5. is_device_paired' \in [Attachments -> BOOLEAN] /\ host' \in [Attachments -> Records]
    BY <1>2 DEF Look, locals, Locals, TypeOK, Records, Kinds
  <2>6. TypeOK'
    BY <2>1, <2>2, <2>3, <2>4, <2>5, WorkerTypes DEF TypeOK
  <2>7. Threads'
    BY <2>1, <2>2, <2>3, WorkerMoves DEF OnStack
  <2> QED BY <2>6, <2>7
<1>3. CASE ReadHost(a)
  <2>1. PICK to \in {"session"} : Step(a, "host", to)
    BY <1>3 DEF ReadHost, Locals
  <2>2. to \in WorkerStates
    BY <2>1 DEF WorkerStates, OnStack
  <2>3. UNCHANGED <<device, preflight_cb_data, notifier, np, is_device_connected, job, saves, fault>>
    BY <1>3 DEF ReadHost, others, mainVars, cbdata
  <2>4. record' \in Records /\ (main' = main \/ (main = "opened" /\ main' = "unlinked"))
    BY <1>3 DEF ReadHost, others, mainVars, TypeOK, Records
  <2>5. is_device_paired' \in [Attachments -> BOOLEAN] /\ host' \in [Attachments -> Records]
    BY <1>3 DEF ReadHost, locals, Locals, TypeOK, Records, Kinds
  <2>6. TypeOK'
    BY <2>1, <2>2, <2>3, <2>4, <2>5, WorkerTypes DEF TypeOK
  <2>7. Threads'
    BY <2>1, <2>2, <2>3, WorkerMoves DEF OnStack
  <2> QED BY <2>6, <2>7
<1>4. CASE StartSession(a)
  <2>1. PICK to \in {"version", "ssl", "announce"} : Step(a, "session", to)
    BY <1>4 DEF StartSession, Locals
  <2>2. to \in WorkerStates
    BY <2>1 DEF WorkerStates, OnStack
  <2>3. UNCHANGED <<device, preflight_cb_data, notifier, np, is_device_connected, job, saves, fault>>
    BY <1>4 DEF StartSession, others, mainVars, cbdata
  <2>4. record' \in Records /\ (main' = main \/ (main = "opened" /\ main' = "unlinked"))
    BY <1>4 DEF StartSession, others, mainVars, TypeOK, Records
  <2>5. is_device_paired' \in [Attachments -> BOOLEAN] /\ host' \in [Attachments -> Records]
    BY <1>4 DEF StartSession, locals, Locals, TypeOK, Records, Kinds
  <2>6. TypeOK'
    BY <2>1, <2>2, <2>3, <2>4, <2>5, WorkerTypes DEF TypeOK
  <2>7. Threads'
    BY <2>1, <2>2, <2>3, WorkerMoves DEF OnStack
  <2> QED BY <2>6, <2>7
<1>5. CASE Handshake(a)
  <2>1. PICK to \in {"announce", "remove"} : Step(a, "ssl", to)
    BY <1>5 DEF Handshake, Locals
  <2>2. to \in WorkerStates
    BY <2>1 DEF WorkerStates, OnStack
  <2>3. UNCHANGED <<device, preflight_cb_data, notifier, np, is_device_connected, job, saves, fault>>
    BY <1>5 DEF Handshake, others, mainVars, cbdata
  <2>4. record' \in Records /\ (main' = main \/ (main = "opened" /\ main' = "unlinked"))
    BY <1>5 DEF Handshake, others, mainVars, TypeOK, Records
  <2>5. is_device_paired' \in [Attachments -> BOOLEAN] /\ host' \in [Attachments -> Records]
    BY <1>5 DEF Handshake, locals, Locals, TypeOK, Records, Kinds
  <2>6. TypeOK'
    BY <2>1, <2>2, <2>3, <2>4, <2>5, WorkerTypes DEF TypeOK
  <2>7. Threads'
    BY <2>1, <2>2, <2>3, WorkerMoves DEF OnStack
  <2> QED BY <2>6, <2>7
<1>6. CASE RemoveRecord(a)
  <2>1. PICK to \in {"lockdown", "version"} : Step(a, "remove", to)
    BY <1>6 DEF RemoveRecord, Locals
  <2>2. to \in WorkerStates
    BY <2>1 DEF WorkerStates, OnStack
  <2>3. UNCHANGED <<device, preflight_cb_data, notifier, np, is_device_connected, job, saves, fault>>
    BY <1>6 DEF RemoveRecord, others, mainVars, cbdata
  <2>4. record' \in Records /\ (main' = main \/ (main = "opened" /\ main' = "unlinked"))
    BY <1>6 DEF RemoveRecord, others, mainVars, TypeOK, Records
  <2>5. is_device_paired' \in [Attachments -> BOOLEAN] /\ host' \in [Attachments -> Records]
    BY <1>6 DEF RemoveRecord, locals, Locals, TypeOK, Records, Kinds
  <2>6. TypeOK'
    BY <2>1, <2>2, <2>3, <2>4, <2>5, WorkerTypes DEF TypeOK
  <2>7. Threads'
    BY <2>1, <2>2, <2>3, WorkerMoves DEF OnStack
  <2> QED BY <2>6, <2>7
<1>7. CASE Version(a)
  <2>1. PICK to \in {"left", "pair", "pair6"} : Step(a, "version", to)
    BY <1>7 DEF Version, Locals
  <2>2. to \in WorkerStates
    BY <2>1 DEF WorkerStates, OnStack
  <2>3. UNCHANGED <<device, preflight_cb_data, notifier, np, is_device_connected, job, saves, fault>>
    BY <1>7 DEF Version, others, mainVars, cbdata
  <2>4. record' \in Records /\ (main' = main \/ (main = "opened" /\ main' = "unlinked"))
    BY <1>7 DEF Version, others, mainVars, TypeOK, Records
  <2>5. is_device_paired' \in [Attachments -> BOOLEAN] /\ host' \in [Attachments -> Records]
    BY <1>7 DEF Version, locals, Locals, TypeOK, Records, Kinds
  <2>6. TypeOK'
    BY <2>1, <2>2, <2>3, <2>4, <2>5, WorkerTypes DEF TypeOK
  <2>7. Threads'
    BY <2>1, <2>2, <2>3, WorkerMoves DEF OnStack
  <2> QED BY <2>6, <2>7
<1>8. CASE Pair(a)
  <2>1. PICK to \in {"save", "service"} : Step(a, "pair", to)
    BY <1>8 DEF Pair, Locals
  <2>2. to \in WorkerStates
    BY <2>1 DEF WorkerStates, OnStack
  <2>3. UNCHANGED <<device, preflight_cb_data, notifier, np, is_device_connected, job, saves, fault>>
    BY <1>8 DEF Pair, others, mainVars, cbdata
  <2>4. record' \in Records /\ (main' = main \/ (main = "opened" /\ main' = "unlinked"))
    BY <1>8 DEF Pair, others, mainVars, TypeOK, Records
  <2>5. is_device_paired' \in [Attachments -> BOOLEAN] /\ host' \in [Attachments -> Records]
    BY <1>8 DEF Pair, locals, Locals, TypeOK, Records, Kinds
  <2>6. TypeOK'
    BY <2>1, <2>2, <2>3, <2>4, <2>5, WorkerTypes DEF TypeOK
  <2>7. Threads'
    BY <2>1, <2>2, <2>3, WorkerMoves DEF OnStack
  <2> QED BY <2>6, <2>7
<1>9. CASE Wait(a)
  <2>1. PICK to \in {"unregister"} : Step(a, "wait", to)
    BY <1>9 DEF Wait, Locals
  <2>2. to \in WorkerStates
    BY <2>1 DEF WorkerStates, OnStack
  <2>3. UNCHANGED <<device, preflight_cb_data, notifier, np, is_device_connected, job, saves, fault>>
    BY <1>9 DEF Wait, others, mainVars, cbdata
  <2>4. record' \in Records /\ (main' = main \/ (main = "opened" /\ main' = "unlinked"))
    BY <1>9 DEF Wait, others, mainVars, TypeOK, Records
  <2>5. is_device_paired' \in [Attachments -> BOOLEAN] /\ host' \in [Attachments -> Records]
    BY <1>9 DEF Wait, locals, Locals, TypeOK, Records, Kinds
  <2>6. TypeOK'
    BY <2>1, <2>2, <2>3, <2>4, <2>5, WorkerTypes DEF TypeOK
  <2>7. Threads'
    BY <2>1, <2>2, <2>3, WorkerMoves DEF OnStack
  <2> QED BY <2>6, <2>7
<1>10. CASE Pair6(a)
  <2>1. PICK to \in {"save6", "announce"} : Step(a, "pair6", to)
    BY <1>10 DEF Pair6, Locals
  <2>2. to \in WorkerStates
    BY <2>1 DEF WorkerStates, OnStack
  <2>3. UNCHANGED <<device, preflight_cb_data, notifier, np, is_device_connected, job, saves, fault>>
    BY <1>10 DEF Pair6, others, mainVars, cbdata
  <2>4. record' \in Records /\ (main' = main \/ (main = "opened" /\ main' = "unlinked"))
    BY <1>10 DEF Pair6, others, mainVars, TypeOK, Records
  <2>5. is_device_paired' \in [Attachments -> BOOLEAN] /\ host' \in [Attachments -> Records]
    BY <1>10 DEF Pair6, locals, Locals, TypeOK, Records, Kinds
  <2>6. TypeOK'
    BY <2>1, <2>2, <2>3, <2>4, <2>5, WorkerTypes DEF TypeOK
  <2>7. Threads'
    BY <2>1, <2>2, <2>3, WorkerMoves DEF OnStack
  <2> QED BY <2>6, <2>7
<1>11. CASE Check6(a)
  <2>1. PICK to \in {"announce", "left"} : Step(a, "check6", to)
    BY <1>11 DEF Check6, Locals
  <2>2. to \in WorkerStates
    BY <2>1 DEF WorkerStates, OnStack
  <2>3. UNCHANGED <<device, preflight_cb_data, notifier, np, is_device_connected, job, saves, fault>>
    BY <1>11 DEF Check6, others, mainVars, cbdata
  <2>4. record' \in Records /\ (main' = main \/ (main = "opened" /\ main' = "unlinked"))
    BY <1>11 DEF Check6, others, mainVars, TypeOK, Records
  <2>5. is_device_paired' \in [Attachments -> BOOLEAN] /\ host' \in [Attachments -> Records]
    BY <1>11 DEF Check6, locals, Locals, TypeOK, Records, Kinds
  <2>6. TypeOK'
    BY <2>1, <2>2, <2>3, <2>4, <2>5, WorkerTypes DEF TypeOK
  <2>7. Threads'
    BY <2>1, <2>2, <2>3, WorkerMoves DEF OnStack
  <2> QED BY <2>6, <2>7
<1> QED BY <1>1, <1>2, <1>3, <1>4, <1>5, <1>6, <1>7, <1>8, <1>9, <1>10, <1>11

LEMMA ReadSerialKeeps ==
  ASSUME TypeOK, Threads, NEW a \in Attachments, Start(a) \/ Announce(a)
  PROVE  TypeOK' /\ Threads'
<1>1. PICK from \in {"start", "announce", "announce7"}, to \in {"lockdown", "left", "wait"} :
        /\ ReadSerial(a, from, to)
        /\ from = "announce7" => to = "wait"
  BY DEF Start, Announce
<1>2. UNCHANGED <<device, preflight_cb_data, notifier, np, is_device_connected, job, saves, main,
                  record, locals>>
  BY <1>1 DEF ReadSerial, others, mainVars, cbdata
<1>3. CASE Step(a, from, to) /\ UNCHANGED fault
  <2>1. TypeOK'
    BY <1>1, <1>2, <1>3, WorkerTypes DEF TypeOK, locals, WorkerStates, OnStack
  <2>2. Threads'
    BY <1>1, <1>2, <1>3, WorkerMoves DEF WorkerStates, OnStack
  <2> QED BY <2>1, <2>2
<1>4. CASE fault' = "use_after_free" /\ UNCHANGED worker
  <2>1. (job # NoJob => job.who = Client \/ Waiting(job.who))'
    BY <1>2, <1>4, JobKept
  <2>2. TypeOK'
    BY <1>2, <1>4, <2>1 DEF TypeOK, locals
  <2>3. Threads'
    BY <1>2, <1>4 DEF Threads, StackIsLive, Unregistered, Joinable, Fresh
  <2> QED BY <2>2, <2>3
<1> QED BY <1>1, <1>3, <1>4 DEF ReadSerial

\* The notification service: a notifier is started as np is set, and the worker
\* enters its function.
LEMMA ServiceKeeps ==
  ASSUME TypeOK, Threads, NEW a \in Attachments, Service(a)
  PROVE  TypeOK' /\ Threads'
<1>1. UNCHANGED <<device, preflight_cb_data, main, job, saves, record, locals, fault>>
  BY DEF Service, mainVars
<1>2. CASE Step(a, "service", "left") /\ UNCHANGED <<cbdata, notifier>>
  <2>1. TypeOK'
    BY <1>1, <1>2, WorkerTypes DEF TypeOK, locals, cbdata, WorkerStates
  <2>2. Threads'
    BY <1>1, <1>2, WorkerMoves DEF cbdata, WorkerStates, OnStack
  <2> QED BY <2>1, <2>2
<1>3. CASE /\ Step(a, "service", "register")
           /\ is_device_connected' = [is_device_connected EXCEPT ![a] = TRUE]
           /\ \/ /\ np' = [np EXCEPT ![a] = TRUE]
                 /\ \E s \in {"run", "deaf"} : notifier' = [notifier EXCEPT ![a] = s]
              \/ UNCHANGED <<np, notifier>>
  <2>0. notifier[a] = "off"
    BY <1>3 DEF Step, Threads, StackIsLive, OnStack
  <2>1. /\ np' \in [Attachments -> BOOLEAN] /\ is_device_connected' \in [Attachments -> BOOLEAN]
        /\ notifier' \in [Attachments -> {"off", "deaf", "run", "save"}]
        /\ \A b \in Attachments : notifier[b] = "save" => notifier'[b] = "save"
    BY <1>3, <2>0 DEF TypeOK
  <2>2. TypeOK'
    BY <1>1, <1>3, <2>1, WorkerTypes DEF TypeOK, locals, WorkerStates, OnStack
  <2>3. worker' = [worker EXCEPT ![a] = "register"] /\ worker[a] = "service"
    BY <1>3 DEF Step
  <2>4. StackIsLive'
    BY <1>1, <1>3, <2>3 DEF TypeOK, Threads, StackIsLive, OnStack
  <2>5. Unregistered' /\ Fresh'
    BY <1>1, <2>3 DEF TypeOK, Threads, Unregistered, Fresh
  <2>6. Joinable'
    BY <1>3 DEF TypeOK, Threads, Joinable
  <2> QED BY <2>2, <2>4, <2>5, <2>6 DEF Threads
<1> QED BY <1>2, <1>3 DEF Service

\* device_set_preflight_cb_data, with the pointer and with NULL.
LEMMA RegisterKeeps ==
  ASSUME TypeOK, Threads, NEW a \in Attachments, Register(a) \/ Unregister(a)
  PROVE  TypeOK' /\ Threads'
<1>1. UNCHANGED <<device, notifier, main, job, saves, record, locals, cbdata, fault>>
  BY DEF Register, Unregister, mainVars
<1>2. CASE Register(a)
  <2>1. Step(a, "register", "announce7") /\ preflight_cb_data' \in [Attachments -> BOOLEAN]
    BY <1>2 DEF Register, TypeOK
  <2>2. TypeOK'
    BY <1>1, <2>1, WorkerTypes DEF TypeOK, locals, cbdata, WorkerStates, OnStack
  <2>3. \A b \in Attachments : b # a => preflight_cb_data'[b] = preflight_cb_data[b] /\ worker'[b] = worker[b]
    BY <1>2 DEF Register, Step, TypeOK
  <2>4. worker'[a] = "announce7" /\ worker[a] = "register"
    BY <2>1 DEF Step, TypeOK
  <2>5. Threads'
    BY <1>1, <2>3, <2>4 DEF Threads, StackIsLive, Unregistered, Joinable, Fresh, OnStack, cbdata
  <2> QED BY <2>2, <2>5
<1>3. CASE Unregister(a)
  <2>1. Step(a, "unregister", "release") /\ preflight_cb_data' \in [Attachments -> BOOLEAN]
    BY <1>3 DEF Unregister, TypeOK
  <2>2. TypeOK'
    BY <1>1, <2>1, WorkerTypes DEF TypeOK, locals, cbdata, WorkerStates, OnStack
  <2>3. \A b \in Attachments : b # a => preflight_cb_data'[b] = preflight_cb_data[b] /\ worker'[b] = worker[b]
    BY <1>3 DEF Unregister, Step, TypeOK
  <2>4. worker'[a] = "release" /\ worker[a] = "unregister" /\ ~preflight_cb_data'[a]
    BY <1>3 DEF Unregister, Step, TypeOK
  <2>5. Threads'
    BY <1>1, <2>3, <2>4 DEF Threads, StackIsLive, Unregistered, Joinable, Fresh, OnStack, cbdata
  <2> QED BY <2>2, <2>5
<1> QED BY <1>2, <1>3

\* The worker leaves its function.
LEMMA ReleaseKeeps ==
  ASSUME TypeOK, Threads, NEW a \in Attachments, Release(a)
  PROVE  TypeOK' /\ Threads'
<1>1. UNCHANGED <<device, preflight_cb_data, main, job, saves, record, locals, fault>>
  BY DEF Release, mainVars
<1>2. PICK from \in {"release", "join"}, to \in {"join", "left"} :
        /\ Step(a, from, to)
        /\ to = "left" => notifier'[a] = "off"
        /\ to = "join" => from = "release"
  BY DEF Release, Step, Threads, Joinable, TypeOK
<1>3. /\ np' \in [Attachments -> BOOLEAN] /\ notifier' \in [Attachments -> {"off", "deaf", "run", "save"}]
      /\ notifier'[a] = "off" \/ (notifier'[a] = notifier[a] /\ np'[a] = np[a])
      /\ \A b \in Attachments : /\ b # a => notifier'[b] = notifier[b] /\ np'[b] = np[b]
                                /\ notifier[b] = "save" => notifier'[b] = "save"
  <2>1. CASE UNCHANGED <<np, notifier>>
    BY <2>1 DEF TypeOK
  <2>2. CASE /\ notifier[a] = "deaf"
             /\ np' = [np EXCEPT ![a] = FALSE] /\ notifier' = [notifier EXCEPT ![a] = "off"]
    <3>1. /\ np' \in [Attachments -> BOOLEAN]
          /\ \A b \in Attachments : b # a => np'[b] = np[b]
      BY <2>2 DEF TypeOK
    <3>2. /\ notifier' \in [Attachments -> {"off", "deaf", "run", "save"}]
          /\ notifier'[a] = "off" /\ notifier[a] # "save"
          /\ \A b \in Attachments : b # a => notifier'[b] = notifier[b]
      BY <2>2 DEF TypeOK
    <3>3. \A b \in Attachments : notifier[b] = "save" => notifier'[b] = "save"
      BY <3>2
    <3> QED BY <3>1, <3>2, <3>3
  <2> QED BY <2>1, <2>2 DEF Release
<1>4. TypeOK'
  <2>1. is_device_connected' \in [Attachments -> BOOLEAN]
    BY DEF Release, TypeOK
  <2> QED BY <1>1, <1>2, <1>3, <2>1, WorkerTypes DEF TypeOK, locals, WorkerStates, OnStack
<1>5. ~preflight_cb_data[a] /\ worker[a] = from
  BY <1>2 DEF Threads, Unregistered, Step
<1>6. worker'[a] = to /\ \A b \in Attachments : b # a => worker'[b] = worker[b]
  BY <1>2 DEF Step, TypeOK
<1>7. StackIsLive'
  BY <1>1, <1>2, <1>3, <1>5, <1>6 DEF Threads, StackIsLive, OnStack
<1>8. Unregistered' /\ Fresh' /\ Joinable'
  BY <1>1, <1>2, <1>3, <1>5, <1>6 DEF Threads, Unregistered, Fresh, Joinable
<1> QED BY <1>4, <1>7, <1>8 DEF Threads

LEMMA WorkerKeeps ==
  ASSUME TypeOK, Threads, NEW a \in Attachments, Worker(a)
  PROVE  TypeOK' /\ Threads'
BY WorkerQuiet, ReadSerialKeeps, ServiceKeeps, RegisterKeeps, ReleaseKeeps DEF Worker

-----------------------------------------------------------------------------
\* The notifier: np is cleared by its last notification, and it ends with that.
LEMMA NotifierKeeps ==
  ASSUME TypeOK, Threads, NEW a \in Attachments, Notifier(a)
  PROVE  TypeOK' /\ Threads'
<1>1. UNCHANGED <<device, worker, main, job, saves, record, locals, is_device_connected, preflight_cb_data, fault>>
  BY DEF Notifier, Notified, NotifierEnds, mainVars, cbdata
<1>2. PICK to \in {"off", "save"} :
        /\ notifier[a] = "run" /\ notifier' = [notifier EXCEPT ![a] = to]
        /\ IF to = "off" THEN np' = [np EXCEPT ![a] = FALSE] ELSE np' = np
  BY DEF Notifier, Notified, NotifierEnds, NotifierStep, cbdata
<1>3. TypeOK'
  <2>1. \A b \in Attachments : notifier[b] = "save" => notifier'[b] = "save"
    BY <1>2 DEF TypeOK
  <2>2. (job # NoJob => job.who = Client \/ Waiting(job.who))'
    BY <1>1, <2>1, JobKept
  <2>3. np' \in [Attachments -> BOOLEAN] /\ notifier' \in [Attachments -> {"off", "deaf", "run", "save"}]
    BY <1>2 DEF TypeOK
  <2> QED BY <1>1, <2>2, <2>3 DEF TypeOK, locals
<1>4. StackIsLive' /\ Unregistered' /\ Fresh'
  BY <1>1, <1>2 DEF TypeOK, Threads, StackIsLive, Unregistered, Fresh
<1>5. Joinable'
  BY <1>2 DEF TypeOK, Threads, Joinable
<1> QED BY <1>3, <1>4, <1>5 DEF Threads

\* Arrival, departure and removal of a device.
LEMMA DeviceKeeps ==
  ASSUME TypeOK, Threads, NEW a \in Attachments, Plug(a) \/ Unplug(a) \/ DeviceRemove(a)
  PROVE  TypeOK' /\ Threads'
<1>1. CASE Plug(a)
  <2>1. PICK s \in {"start", "left"} : worker' = [worker EXCEPT ![a] = s]
    BY <1>1 DEF Plug
  <2>2. /\ device[a] = "new" /\ worker[a] = "none"
        /\ device' = [device EXCEPT ![a] = "plugged"]
        /\ UNCHANGED <<record, locals, cbdata, preflight_cb_data, notifier, mainVars, fault>>
    BY <1>1 DEF Plug, Threads, Fresh
  <2>3. (job # NoJob => job.who = Client \/ Waiting(job.who))'
    BY <2>1, <2>2, JobKept DEF TypeOK, mainVars
  <2>4. worker' \in [Attachments -> WorkerStates]
    BY <2>1 DEF TypeOK, WorkerStates
  <2>5. TypeOK'
    BY <2>2, <2>3, <2>4 DEF TypeOK, mainVars, locals, cbdata
  <2>6. Threads'
    BY <2>1, <2>2 DEF TypeOK, Threads, StackIsLive, Unregistered, Joinable, Fresh, OnStack, cbdata
  <2> QED BY <2>5, <2>6
<1>2. CASE Unplug(a)
  <2>1. (job # NoJob => job.who = Client \/ Waiting(job.who))'
    BY <1>2, JobKept DEF Unplug, threadVars, mainVars
  <2>2. TypeOK'
    BY <1>2, <2>1 DEF Unplug, TypeOK, threadVars, mainVars, locals, cbdata
  <2>3. Threads'
    BY <1>2 DEF Unplug, TypeOK, Threads, StackIsLive, Unregistered, Joinable, Fresh, threadVars, cbdata
  <2> QED BY <2>2, <2>3
<1>3. CASE DeviceRemove(a)
  <2>1. (job # NoJob => job.who = Client \/ Waiting(job.who))'
    BY <1>3, JobKept DEF DeviceRemove, mainVars
  <2>2. TypeOK'
    BY <1>3, <2>1 DEF DeviceRemove, TypeOK, mainVars, locals
  <2>3. Threads'
    BY <1>3 DEF DeviceRemove, TypeOK, Threads, StackIsLive, Unregistered, Joinable, Fresh
  <2> QED BY <2>2, <2>3
<1> QED BY <1>1, <1>2, <1>3

-----------------------------------------------------------------------------
\* The main thread saves and deletes the record.
LEMMA SetRecordKeeps ==
  ASSUME TypeOK, Threads, NEW who \in Savers, NEW kind \in Kinds, SetRecord(who, kind)
  PROVE  TypeOK' /\ Threads'
<1>1. UNCHANGED <<device, worker, locals, cbdata, preflight_cb_data, notifier, fault>>
  BY DEF SetRecord, threadVars
<1>2. record' \in Records /\ main' = "removed" /\ job' \in [who : Savers, of : Kinds] /\ job'.who = who
  BY DEF SetRecord, Records
<1>3. job' # NoJob
  <2>1. job'.of \in Kinds /\ NoJob.of \notin Kinds
    BY <1>2 DEF NoJob, Kinds
  <2> QED BY <2>1
<1>4. saves' \in 0..MaxSaves
  BY PairingAssumption DEF SetRecord, TypeOK, Waiting
<1>5. who = Client \/ Waiting(job.who)'
  <2>1. ASSUME who # Client PROVE Waiting(job.who)'
    BY <1>1, <1>2, <2>1 DEF SetRecord, Waiting
  <2> QED BY <2>1
<1>6. TypeOK'
  BY <1>1, <1>2, <1>3, <1>4, <1>5 DEF TypeOK, locals, cbdata
<1>7. Threads'
  BY <1>1 DEF Threads, StackIsLive, Unregistered, Joinable, Fresh, cbdata
<1> QED BY <1>6, <1>7

LEMMA FileKeeps ==
  ASSUME TypeOK, Threads, OpenRecord \/ DeleteRecord
  PROVE  TypeOK' /\ Threads'
<1>1. UNCHANGED <<device, worker, locals, cbdata, preflight_cb_data, notifier, job, saves, fault>>
  BY DEF OpenRecord, DeleteRecord, threadVars, mainVars
<1>2. record' \in Records /\ main' \in {"idle", "removed", "opened", "unlinked"} /\ (main' = "idle") = (main = "idle")
  BY DEF OpenRecord, DeleteRecord, TypeOK, mainVars, Records, Kinds
<1>3. (job # NoJob => job.who = Client \/ Waiting(job.who))'
  BY <1>1, JobKept
<1>4. TypeOK'
  BY <1>1, <1>2, <1>3 DEF TypeOK, locals, cbdata
<1>5. Threads'
  BY <1>1 DEF Threads, StackIsLive, Unregistered, Joinable, Fresh, cbdata
<1> QED BY <1>4, <1>5

\* The answer to whoever had the record saved.
LEMMA RecordSetKeeps ==
  ASSUME TypeOK, Threads, RecordSet
  PROVE  TypeOK' /\ Threads'
<1>1. UNCHANGED <<device, locals, cbdata, preflight_cb_data, saves, fault>>
  BY DEF RecordSet
<1>2. main \in {"opened", "removed", "unlinked"} /\ main' = "idle" /\ job' = NoJob
  BY DEF RecordSet
<1>3. job # NoJob /\ job \in [who : Savers, of : Kinds]
  BY <1>2 DEF TypeOK
<1>4. record' \in Records
  BY <1>3 DEF RecordSet, TypeOK, Records, Kinds
<1>5. CASE job.who = Client
  <2>1. UNCHANGED <<worker, notifier>>
    BY <1>5 DEF RecordSet
  <2>2. TypeOK'
    BY <1>1, <1>2, <1>4, <2>1 DEF TypeOK, locals, cbdata
  <2>3. Threads'
    BY <1>1, <2>1 DEF Threads, StackIsLive, Unregistered, Joinable, Fresh, cbdata
  <2> QED BY <2>2, <2>3
<1>6. CASE job.who # Client
  <2>1. PICK t \in {"worker", "notifier"}, a \in Attachments : job.who = <<t, a>>
    BY <1>3, <1>6 DEF Savers
  <2>2. Waiting(job.who)
    BY <1>3, <1>6 DEF TypeOK
  <2>3. CASE t = "worker"
    <3>1. worker[a] \in {"save", "save6"}
      BY <1>6, <2>1, <2>2, <2>3 DEF Waiting
    <3>2. PICK to \in {"announce", "check6"} : Step(a, worker[a], to) /\ UNCHANGED notifier
      BY <1>6, <2>1, <2>3 DEF RecordSet
    <3>3. worker' = [worker EXCEPT ![a] = to]
      BY <3>2 DEF Step
    <3>4. worker' \in [Attachments -> WorkerStates]
      BY <3>3 DEF TypeOK, WorkerStates
    <3>5. TypeOK'
      BY <1>1, <1>2, <1>4, <3>2, <3>4 DEF TypeOK, locals, cbdata
    <3>6. Threads'
      BY <1>1, <3>1, <3>2, <3>3 DEF TypeOK, Threads, StackIsLive, Unregistered, Joinable, Fresh, cbdata, OnStack
    <3> QED BY <3>5, <3>6
  <2>4. CASE t = "notifier"
    <3>1. notifier[a] = "save"
      BY <1>6, <2>1, <2>2, <2>4 DEF Waiting
    <3>2. notifier' = [notifier EXCEPT ![a] = "run"] /\ UNCHANGED worker
      BY <1>6, <2>1, <2>4 DEF RecordSet
    <3>3. notifier' \in [Attachments -> {"off", "deaf", "run", "save"}]
      BY <3>2 DEF TypeOK
    <3>4. TypeOK'
      BY <1>1, <1>2, <1>4, <3>2, <3>3 DEF TypeOK, locals, cbdata
    <3>5. Threads'
      BY <1>1, <3>1, <3>2 DEF TypeOK, Threads, StackIsLive, Unregistered, Joinable, Fresh, cbdata
    <3> QED BY <3>4, <3>5
  <2> QED BY <2>1, <2>3, <2>4
<1> QED BY <1>5, <1>6

LEMMA CrashKeeps ==
  ASSUME TypeOK, Threads, Crash
  PROVE  TypeOK' /\ Threads'
<1>1. worker' \in [Attachments -> WorkerStates] /\ device' \in [Attachments -> {"new", "plugged", "unplugged", "removed"}]
  BY DEF Crash, WorkerStates
<1>2. TypeOK'
  BY <1>1 DEF Crash, TypeOK, Records, locals, cbdata
<1>3. Threads'
  BY DEF Crash, Threads, StackIsLive, Unregistered, Joinable, Fresh, TypeOK
<1> QED BY <1>2, <1>3

-----------------------------------------------------------------------------
LEMMA PInvKept == PInv /\ [Next]_vars => PInv'
<1> SUFFICES ASSUME TypeOK, Threads, [Next]_vars PROVE TypeOK' /\ Threads'
  BY DEF PInv
<1>1. CASE Next
  <2>1. CASE Save
    BY <2>1, SetRecordKeeps, FileKeeps, RecordSetKeeps DEF Save
  <2>2. CASE DeleteRecord \/ Crash
    BY <2>2, FileKeeps, CrashKeeps
  <2>3. CASE \E a \in Attachments : Plug(a) \/ Unplug(a) \/ DeviceRemove(a) \/ Worker(a) \/ Notifier(a)
    BY <2>3, DeviceKeeps, WorkerKeeps, NotifierKeeps
  <2> QED BY <1>1, <2>1, <2>2, <2>3 DEF Next
<1>2. CASE UNCHANGED vars
  <2>1. UNCHANGED <<record, device, worker, is_device_paired, host, np, is_device_connected,
                    preflight_cb_data, notifier, main, job, saves, fault>>
    BY <1>2 DEF vars, threadVars, mainVars, locals, cbdata
  <2>2. (job # NoJob => job.who = Client \/ Waiting(job.who))'
    BY <2>1, JobKept
  <2>3. TypeOK'
    BY <2>1, <2>2 DEF TypeOK
  <2>4. Threads'
    BY <2>1 DEF Threads, StackIsLive, Unregistered, Joinable, Fresh
  <2> QED BY <2>3, <2>4
<1> QED BY <1>1, <1>2

\* PInv holds throughout: what the rest of this module draws from.
THEOREM PairingInvariant == Spec => []PInv
<1> QED BY PInvInitially, PInvKept, PTL DEF Spec

\* The variables keep their types, whatever the threads, the clients and the bus do:
\* in particular the main thread saves for somebody who is waiting for it.
THEOREM TypeCorrect == Spec => []TypeOK
<1>1. PInv => TypeOK
  BY DEF PInv
<1> QED BY <1>1, PairingInvariant, PTL

\* A pointer to a worker's cbdata is there only while the worker is in the function
\* that has it on its stack (preflight.c:248-279), for any number of attachments.
THEOREM StackLives == Spec => []StackIsLive
<1>1. PInv => StackIsLive
  BY DEF PInv, Threads
<1> QED BY <1>1, PairingInvariant, PTL

-----------------------------------------------------------------------------
(***************************************************************************)
(* WillBeWoken.                                                            *)
(***************************************************************************)

\* np and the notifier come and go together; a pointer in the entry of a device is one
\* that device_remove will find; and a worker that has been to its device's entry left
\* one there, unless the device had been removed.
Waking(a) ==
  /\ np[a] <=> notifier[a] # "off"
  /\ preflight_cb_data[a] => device[a] \in {"plugged", "unplugged"}
  /\ worker[a] \in {"announce7", "wait"} =>
       preflight_cb_data[a] \/ ~is_device_connected[a] \/ device[a] \in {"new", "removed"}

Wakes == \A a \in Attachments : Waking(a)

\* The attachments a step is not about.
LEMMA WakingSame ==
  ASSUME NEW b \in Attachments, Waking(b), np'[b] = np[b], notifier'[b] = notifier[b],
         preflight_cb_data'[b] = preflight_cb_data[b], device'[b] = device[b],
         is_device_connected'[b] = is_device_connected[b],
         worker'[b] = worker[b] \/ worker'[b] \notin {"announce7", "wait"}
  PROVE  Waking(b)'
BY DEF Waking

\* A worker leaves the other workers where they are, and the device.
LEMMA WorkerAlone ==
  ASSUME TypeOK, NEW a \in Attachments, Worker(a)
  PROVE  /\ device' = device
         /\ \A b \in Attachments : b # a => worker'[b] = worker[b]
<1>1. CASE Handshake(a)
  BY <1>1 DEF Handshake, Step, Locals, locals, others, TypeOK
<1>2. CASE Start(a) \/ Announce(a)
  <2>1. PICK from \in {"start", "announce", "announce7"}, to \in {"lockdown", "left", "wait"} :
          ReadSerial(a, from, to)
    BY <1>2 DEF Start, Announce
  <2> QED BY <2>1 DEF ReadSerial, Step, locals, others, TypeOK
<1>3. CASE Lockdown(a) \/ Look(a) \/ ReadHost(a) \/ StartSession(a)
  BY <1>3 DEF Lockdown, Look, ReadHost, StartSession, Step, Locals, locals, others, TypeOK
<1>4. CASE RemoveRecord(a) \/ Version(a) \/ Pair(a) \/ Service(a)
  BY <1>4 DEF RemoveRecord, Version, Pair, Service, Step, Locals, locals, others, TypeOK
<1>5. CASE Register(a) \/ Wait(a) \/ Unregister(a)
  BY <1>5 DEF Register, Wait, Unregister, Step, locals, others, TypeOK
<1>6. CASE Release(a) \/ Pair6(a) \/ Check6(a)
  BY <1>6 DEF Release, Pair6, Check6, Step, locals, others, TypeOK
<1> QED BY <1>1, <1>2, <1>3, <1>4, <1>5, <1>6 DEF Worker

LEMMA WorkerWakes ==
  ASSUME TypeOK, Threads, Wakes, NEW a \in Attachments, Worker(a)
  PROVE  Wakes'
<1> USE DEF TypeOK, Step, others, cbdata
<1>1. ASSUME NEW b \in Attachments, b # a PROVE Waking(b)'
  <2>1. /\ np'[b] = np[b] /\ notifier'[b] = notifier[b] /\ device'[b] = device[b]
        /\ preflight_cb_data'[b] = preflight_cb_data[b]
        /\ is_device_connected'[b] = is_device_connected[b]
    <3>1. CASE Start(a) \/ Announce(a)
      <4>1. PICK from \in {"start", "announce", "announce7"}, to \in {"lockdown", "left", "wait"} :
              ReadSerial(a, from, to)
        BY <3>1 DEF Start, Announce
      <4> QED BY <4>1 DEF ReadSerial
    <3>2. CASE Lockdown(a) \/ Look(a) \/ ReadHost(a) \/ StartSession(a) \/ Handshake(a)
      BY <3>2 DEF Lockdown, Look, ReadHost, StartSession, Handshake
    <3>3. CASE RemoveRecord(a) \/ Version(a) \/ Pair(a) \/ Service(a)
      BY <1>1, <3>3 DEF RemoveRecord, Version, Pair, Service
    <3>4. CASE Register(a) \/ Wait(a) \/ Unregister(a) \/ Release(a) \/ Pair6(a) \/ Check6(a)
      BY <1>1, <3>4 DEF Register, Wait, Unregister, Release, Pair6, Check6
    <3> QED BY <3>1, <3>2, <3>3, <3>4 DEF Worker
  <2>2. worker'[b] = worker[b]
    BY <1>1, WorkerAlone
  <2> QED BY <2>1, <2>2, WakingSame DEF Wakes
<1>2. Waking(a)'
  <2>0. Waking(a)
    BY DEF Wakes
  <2>1. CASE Start(a) \/ Announce(a)
    <3>1. PICK from \in {"start", "announce", "announce7"}, to \in {"lockdown", "left", "wait"} :
            ReadSerial(a, from, to) /\ (to = "wait" => from = "announce7")
      BY <2>1 DEF Start, Announce
    <3> QED BY <2>0, <3>1 DEF ReadSerial, Waking
  <2>2. CASE Lockdown(a) \/ Look(a) \/ ReadHost(a) \/ StartSession(a) \/ Handshake(a)
    BY <2>0, <2>2 DEF Lockdown, Look, ReadHost, StartSession, Handshake, Waking
  <2>3. CASE RemoveRecord(a) \/ Version(a) \/ Pair(a) \/ Service(a)
    <3>1. Service(a) => notifier[a] = "off"
      BY DEF Service, Threads, StackIsLive, OnStack
    <3> QED BY <2>0, <2>3, <3>1 DEF RemoveRecord, Version, Pair, Service, Waking
  <2>4. CASE Register(a)
    BY <2>0, <2>4 DEF Register, Waking
  <2>5. CASE Wait(a) \/ Unregister(a) \/ Release(a) \/ Pair6(a) \/ Check6(a)
    BY <2>0, <2>5 DEF Wait, Unregister, Release, Pair6, Check6, Waking
  <2> QED BY <2>1, <2>2, <2>3, <2>4, <2>5 DEF Worker
<1> QED BY <1>1, <1>2 DEF Wakes

LEMMA WakesKept ==
  ASSUME PInv, Wakes, [Next]_vars
  PROVE  Wakes'
<1> USE DEF PInv
<1>1. ASSUME UNCHANGED <<device, cbdata, preflight_cb_data, notifier>>,
             \A b \in Attachments :
               worker'[b] = worker[b] \/ worker'[b] \notin {"announce7", "wait"}
      PROVE  Wakes'
  BY <1>1, WakingSame DEF Wakes, cbdata
<1>2. ASSUME NEW a \in Attachments, Worker(a) PROVE Wakes'
  BY <1>2, WorkerWakes
<1>3. ASSUME NEW a \in Attachments, Notifier(a) PROVE Wakes'
  <2>1. UNCHANGED <<device, worker, is_device_connected, preflight_cb_data>>
    BY <1>3 DEF Notifier, Notified, NotifierEnds, cbdata
  <2>2. \A b \in Attachments : b # a => np'[b] = np[b] /\ notifier'[b] = notifier[b]
    BY <1>3 DEF Notifier, Notified, NotifierEnds, NotifierStep, TypeOK, cbdata
  <2>3. np'[a] <=> notifier'[a] # "off"
    <3>1. CASE Notified(a)
      BY <3>1 DEF Notified, NotifierStep, Wakes, Waking, TypeOK, cbdata
    <3>2. CASE NotifierEnds(a)
      BY <3>2 DEF NotifierEnds, NotifierStep, TypeOK
    <3> QED BY <1>3, <3>1, <3>2 DEF Notifier
  <2> QED BY <2>1, <2>2, <2>3 DEF Wakes, Waking
<1>4. ASSUME NEW a \in Attachments, Plug(a) PROVE Wakes'
  BY <1>4 DEF Plug, Wakes, Waking, TypeOK, cbdata
<1>5. ASSUME NEW a \in Attachments, Unplug(a) PROVE Wakes'
  BY <1>5 DEF Unplug, Wakes, Waking, TypeOK, threadVars, cbdata
<1>6. ASSUME NEW a \in Attachments, DeviceRemove(a) PROVE Wakes'
  BY <1>6 DEF DeviceRemove, Wakes, Waking, TypeOK
<1>7. CASE \E who \in Savers, kind \in Kinds : SetRecord(who, kind)
  BY <1>1, <1>7 DEF SetRecord, threadVars
<1>8. CASE OpenRecord \/ DeleteRecord
  BY <1>1, <1>8 DEF OpenRecord, DeleteRecord, threadVars
<1>9. CASE RecordSet
  <2>1. UNCHANGED <<device, cbdata, preflight_cb_data>>
    BY <1>9 DEF RecordSet
  <2>2. \A b \in Attachments : worker'[b] = worker[b] \/ worker'[b] \notin {"announce7", "wait"}
    BY <1>9 DEF RecordSet, Step, TypeOK
  <2>3. CASE UNCHANGED notifier
    BY <1>1, <2>1, <2>2, <2>3
  <2>4. CASE notifier' # notifier
    <3>1. job # NoJob
      BY <1>9 DEF RecordSet, TypeOK
    <3>2. job.who # Client /\ job.who[1] # "worker" /\ job.who[2] \in Attachments /\ Waiting(job.who)
      BY <1>9, <2>4, <3>1 DEF RecordSet, TypeOK, Savers
    <3>3. notifier[job.who[2]] = "save" /\ notifier' = [notifier EXCEPT ![job.who[2]] = "run"]
      BY <1>9, <2>4, <3>2 DEF RecordSet, Waiting
    <3>4. \A b \in Attachments : (notifier'[b] # "off") = (notifier[b] # "off")
      BY <3>2, <3>3 DEF TypeOK
    <3> QED BY <2>1, <2>2, <3>4 DEF Wakes, Waking, cbdata
  <2> QED BY <2>3, <2>4
<1>10. CASE Crash
  BY <1>10 DEF Crash, Wakes, Waking
<1>11. CASE UNCHANGED vars
  BY <1>1, <1>11 DEF vars, threadVars
<1> QED BY <1>2, <1>3, <1>4, <1>5, <1>6, <1>7, <1>8, <1>9, <1>10, <1>11 DEF Next, Save

\* A worker waits for a device that nobody will tell it has gone only if its np is deaf
\* and the device was removed before the worker registered (preflight.c:253-268),
\* whichever of the removal, the registration and the end of the notifications comes
\* first, for any number of attachments.
THEOREM NobodyWaitsInVain == Spec => []WillBeWoken
<1>1. Init => Wakes
  BY DEF Init, Wakes, Waking
<1>2. PInv /\ Wakes /\ [Next]_vars => Wakes'
  BY WakesKept
<1>3. PInv /\ Wakes => WillBeWoken
  BY DEF PInv, TypeOK, Threads, Fresh, Wakes, Waking, WillBeWoken, Forgotten
<1> QED BY <1>1, <1>2, <1>3, PairingInvariant, PTL DEF Spec
=============================================================================
