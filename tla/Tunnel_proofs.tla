---- MODULE Tunnel_proofs ----
(***************************************************************************)
(* Proofs about Tunnel for any number of starts, descriptors and callers   *)
(* of Restart.                                                             *)
(***************************************************************************)
EXTENDS Tunnel, TLAPS

IInv == TypeOK /\ RunningIsStarted /\ NoOrphan

\* A new process takes the place of none that runs: it is started only while the flag is down
\* (StartTunnelFromFDWithConfig)
LEMMA LaunchStep ==
    ASSUME IInv, NEW f \in FDs \cup {0}, ~running, Launch(f), UNCHANGED <<held, misled>>
    PROVE  /\ running' \in BOOLEAN /\ misled' \in BOOLEAN /\ starts' \in 0..MaxStarts
           /\ cmd' \in 0..starts' /\ tunFD' \in FDs \cup {-1, 0}
           /\ fd' \in [Procs -> FDs \cup {0}]
           /\ proc' \in [Procs -> {"none", "failed", "alive", "killed", "exited", "reaped"}]
           /\ monitor' \in [Procs -> {"none", "new", "waiting", "done"}]
           /\ held' \in [Procs -> {Nobody} \cup 0..starts']
           /\ RunningIsStarted' /\ NoOrphan'
<1> DEFINE p == starts + 1
<1>1. /\ starts \in 0..MaxStarts /\ starts' = p /\ cmd' = p /\ tunFD' = f
      /\ p \in Procs /\ p # None /\ held \in [Procs -> {Nobody} \cup 0..starts]
  BY TunnelAssumption DEF Launch, IInv, TypeOK, Procs, None
<1>2. /\ misled' \in BOOLEAN /\ starts' \in 0..MaxStarts /\ cmd' \in 0..starts'
      /\ tunFD' \in FDs \cup {-1, 0} /\ held' \in [Procs -> {Nobody} \cup 0..starts']
  <2>1. {Nobody} \cup 0..starts \subseteq {Nobody} \cup 0..starts'
    BY <1>1
  <2>2. held' \in [Procs -> {Nobody} \cup 0..starts']
    BY <1>1, <2>1
  <2>3. p \in 0..MaxStarts /\ p \in 0..p
    BY <1>1, TunnelAssumption DEF Procs
  <2> QED
    BY <1>1, <2>2, <2>3 DEF IInv, TypeOK
<1>3. fd' \in [Procs -> FDs \cup {0}]
  BY <1>1 DEF Launch, IInv, TypeOK
<1>4. ~misled => \A q \in Procs : proc[q] # "alive"
  BY DEF IInv, NoOrphan
<1>5. CASE proc' = [proc EXCEPT ![p] = "alive"] /\ running'
  <2>1. monitor' \in [Procs -> {"none", "new", "waiting", "done"}]
        /\ proc' \in [Procs -> {"none", "failed", "alive", "killed", "exited", "reaped"}]
        /\ running' \in BOOLEAN
    BY <1>1, <1>5 DEF Launch, IInv, TypeOK
  <2>2. proc'[p] = "alive" /\ \A q \in Procs \ {p} : proc'[q] = proc[q]
    BY <1>1, <1>5 DEF IInv, TypeOK
  <2>3. RunningIsStarted' /\ NoOrphan'
    BY <1>1, <1>4, <1>5, <2>2 DEF RunningIsStarted, NoOrphan
  <2> QED
    BY <1>2, <1>3, <2>1, <2>3
<1>6. CASE proc' = [proc EXCEPT ![p] = "failed"] /\ UNCHANGED <<running, monitor>>
  <2>1. /\ proc' \in [Procs -> {"none", "failed", "alive", "killed", "exited", "reaped"}]
        /\ monitor' \in [Procs -> {"none", "new", "waiting", "done"}]
        /\ running' \in BOOLEAN /\ ~running'
    BY <1>1, <1>6 DEF IInv, TypeOK
  <2>2. \A q \in Procs : proc'[q] = "alive" => proc[q] = "alive"
    BY <1>1, <1>6 DEF IInv, TypeOK
  <2>3. RunningIsStarted' /\ NoOrphan'
    BY <1>4, <2>1, <2>2 DEF RunningIsStarted, NoOrphan
  <2> QED
    BY <1>2, <1>3, <2>1, <2>3
<1> QED
  BY <1>5, <1>6 DEF Launch

\* The command of a tunnel that runs is a process
LEMMA RunningCmd ==
    ASSUME IInv, running
    PROVE  cmd \in Procs /\ proc[cmd] \in {"alive", "exited", "reaped"}
<1>1. starts \in 0..MaxStarts /\ cmd \in 0..starts
  BY DEF IInv, TypeOK
<1>2. cmd # None /\ proc[cmd] \in {"alive", "exited", "reaped"}
  BY DEF IInv, RunningIsStarted
<1> QED
  BY <1>1, <1>2, TunnelAssumption DEF Procs, None

\* Stop kills the only process that may run (StopTunnel)
LEMMA StopStep ==
    ASSUME IInv, running, Stop, UNCHANGED <<starts, misled>>
    PROVE  /\ running' \in BOOLEAN /\ cmd' \in 0..starts' /\ tunFD' \in FDs \cup {-1, 0}
           /\ proc' \in [Procs -> {"none", "failed", "alive", "killed", "exited", "reaped"}]
           /\ RunningIsStarted' /\ NoOrphan'
<1>1. cmd \in Procs /\ 0 \in 0..starts
  BY RunningCmd, TunnelAssumption DEF IInv, TypeOK
<1>2. proc' \in [Procs -> {"none", "failed", "alive", "killed", "exited", "reaped"}]
  BY DEF Stop, Kill, IInv, TypeOK
<1>3. \A q \in Procs : proc'[q] = "alive" => proc[q] = "alive" /\ q # cmd
  BY <1>1 DEF Stop, Kill, IInv, TypeOK
<1>4. RunningIsStarted' /\ NoOrphan'
  BY <1>3 DEF Stop, IInv, RunningIsStarted, NoOrphan
<1>5. running' \in BOOLEAN /\ cmd' \in 0..starts' /\ tunFD' \in FDs \cup {-1, 0}
  BY <1>1 DEF Stop, None
<1> QED
  BY <1>2, <1>4, <1>5

\* A start keeps the invariant (StartTunnelFromFDWithConfig)
LEMMA StartTunnelStep ==
    ASSUME IInv, NEW f \in FDs, StartTunnel(f)
    PROVE  IInv'
<1>1. ~running /\ Launch(f) /\ UNCHANGED <<held, restart, restartFD, misled>>
  BY DEF StartTunnel
<1> QED
  BY <1>1, LaunchStep DEF IInv, TypeOK

\* A stop keeps the invariant (StopTunnel)
LEMMA StopTunnelStep ==
    ASSUME IInv, StopTunnel
    PROVE  IInv'
<1>1. running /\ Stop /\ UNCHANGED <<starts, fd, monitor, held, restart, restartFD, misled>>
  BY DEF StopTunnel
<1> QED
  BY <1>1, StopStep DEF IInv, TypeOK

\* Restart reads, stops and starts, whoever comes between (Restart)
LEMMA RestartStep ==
    ASSUME IInv, NEW r \in Restarters, RestartReads(r) \/ RestartStops(r) \/ RestartStarts(r)
    PROVE  IInv'
<1>1. CASE RestartReads(r)
  <2>1. tunFD \in FDs \cup {0}
    BY <1>1 DEF RestartReads, IInv, TypeOK
  <2>2. /\ restart' \in [Restarters -> {"idle", "stop", "start"}]
        /\ restartFD' \in [Restarters -> FDs \cup {0}]
    BY <1>1, <2>1 DEF RestartReads, IInv, TypeOK
  <2> QED
    BY <1>1, <2>2 DEF RestartReads, IInv, TypeOK, RunningIsStarted, NoOrphan
<1>2. CASE RestartStops(r)
  <2>1. /\ restart' \in [Restarters -> {"idle", "stop", "start"}]
        /\ UNCHANGED <<starts, fd, monitor, held, restartFD, misled>>
    BY <1>2 DEF RestartStops, IInv, TypeOK
  <2>2. CASE running /\ Stop
    BY <2>1, <2>2, StopStep DEF IInv, TypeOK
  <2>3. CASE UNCHANGED <<running, cmd, tunFD, proc>>
    BY <2>1, <2>3 DEF IInv, TypeOK, RunningIsStarted, NoOrphan
  <2> QED
    BY <1>2, <2>2, <2>3 DEF RestartStops
<1>3. CASE RestartStarts(r)
  <2>1. /\ restart' \in [Restarters -> {"idle", "stop", "start"}]
        /\ restartFD' \in [Restarters -> FDs \cup {0}]
        /\ UNCHANGED <<held, misled>> /\ restartFD[r] \in FDs \cup {0}
    BY <1>3 DEF RestartStarts, IInv, TypeOK
  <2>2. CASE ~running /\ Launch(restartFD[r])
    BY <2>1, <2>2, LaunchStep DEF IInv, TypeOK
  <2>3. CASE UNCHANGED <<running, cmd, tunFD, starts, fd, proc, monitor>>
    BY <2>1, <2>3 DEF IInv, TypeOK, RunningIsStarted, NoOrphan
  <2> QED
    BY <1>3, <2>2, <2>3 DEF RestartStarts
<1> QED
  BY <1>1, <1>2, <1>3

\* A process ends, and its monitor may take the flag of another down: misled says so
\* (monitorProcess)
LEMMA MonitorStep ==
    ASSUME IInv, NEW p \in Procs, Exit(p) \/ MonitorLooks(p) \/ MonitorWakes(p)
    PROVE  IInv'
<1>1. CASE Exit(p)
  <2>1. /\ proc' \in [Procs -> {"none", "failed", "alive", "killed", "exited", "reaped"}]
        /\ \A q \in Procs : proc'[q] = IF q = p THEN "exited" ELSE proc[q]
        /\ UNCHANGED <<running, cmd, tunFD, starts, fd, monitor, held, restart, restartFD, misled>>
    BY <1>1 DEF Exit, IInv, TypeOK
  <2>2. RunningIsStarted'
    <3> SUFFICES ASSUME running PROVE cmd # None /\ proc'[cmd] \in {"alive", "exited", "reaped"}
      BY <2>1 DEF RunningIsStarted
    <3>1. cmd \in Procs /\ proc[cmd] \in {"alive", "exited", "reaped"}
      BY RunningCmd
    <3> QED
      BY <2>1, <3>1 DEF IInv, RunningIsStarted
  <2>3. NoOrphan'
    BY <2>1 DEF IInv, NoOrphan
  <2> QED
    BY <2>1, <2>2, <2>3 DEF IInv, TypeOK
<1>2. CASE MonitorLooks(p)
  <2>1. /\ held' \in [Procs -> {Nobody} \cup 0..starts]
        /\ monitor' \in [Procs -> {"none", "new", "waiting", "done"}]
    BY <1>2 DEF MonitorLooks, IInv, TypeOK
  <2> QED
    BY <1>2, <2>1 DEF MonitorLooks, IInv, TypeOK, RunningIsStarted, NoOrphan
<1>3. CASE MonitorWakes(p)
  <2>1. /\ proc' \in [Procs -> {"none", "failed", "alive", "killed", "exited", "reaped"}]
        /\ monitor' \in [Procs -> {"none", "new", "waiting", "done"}]
        /\ ~running' /\ running' \in BOOLEAN /\ misled' \in BOOLEAN
    BY <1>3 DEF MonitorWakes, IInv, TypeOK
  <2>2. \A q \in Procs : proc'[q] = "alive" => proc[q] = "alive" /\ q # held[p]
    BY <1>3 DEF MonitorWakes, IInv, TypeOK
  <2>3. NoOrphan'
    <3> SUFFICES ASSUME ~misled', NEW q \in Procs, proc'[q] = "alive" PROVE FALSE
      BY DEF NoOrphan
    <3>1. ~misled /\ (~running \/ held[p] = cmd)
      BY <1>3 DEF MonitorWakes, IInv, TypeOK
    <3>2. running /\ cmd = q
      BY <2>2, <3>1 DEF IInv, NoOrphan
    <3> QED
      BY <2>2, <3>1, <3>2
  <2> QED
    BY <1>3, <2>1, <2>3 DEF MonitorWakes, IInv, TypeOK, RunningIsStarted
<1> QED
  BY <1>1, <1>2, <1>3

\* The strengthening that every theorem of this module rests on: it is inductive
THEOREM Invariance == Spec => []IInv
<1>1. Init => IInv
  <2> SUFFICES ASSUME Init PROVE IInv
    OBVIOUS
  <2>1. 0 \in 0..MaxStarts /\ 0 \in 0..0
    BY TunnelAssumption
  <2>2. TypeOK
    BY <2>1 DEF Init, TypeOK, None
  <2>3. RunningIsStarted /\ NoOrphan
    BY DEF Init, RunningIsStarted, NoOrphan
  <2> QED
    BY <2>2, <2>3 DEF IInv
<1>2. IInv /\ [Next]_vars => IInv'
  <2>1. IInv /\ UNCHANGED vars => IInv'
    BY DEF vars, IInv, TypeOK, RunningIsStarted, NoOrphan
  <2> QED
    BY <2>1, StartTunnelStep, StopTunnelStep, RestartStep, MonitorStep DEF Next
<1> QED
  BY <1>1, <1>2, PTL DEF Spec

\* Every variable of the tunnel keeps its type, whatever the callers do (tunnel.go)
THEOREM TypeCorrect == Spec => []TypeOK
<1>1. IInv => TypeOK
  BY DEF IInv
<1> QED
  BY <1>1, Invariance, PTL

\* A tunnel that says that it runs has a process that was started, however starts, stops,
\* restarts and the ends of processes interleave (StartTunnelFromFDWithConfig, StopTunnel)
THEOREM FlagHasProcess == Spec => []RunningIsStarted
<1>1. IInv => RunningIsStarted
  BY DEF IInv
<1> QED
  BY <1>1, Invariance, PTL

\* As long as no monitor has cleared the flag of a process that is not its own, at most one
\* process runs, and Stop would kill it (StopTunnel, monitorProcess)
THEOREM NothingOrphaned == Spec => []NoOrphan
<1>1. IInv => NoOrphan
  BY DEF IInv
<1> QED
  BY <1>1, Invariance, PTL

\* The process in cmd that has not been waited for has its own monitor, which has yet to look
\* or waits for it; while the flag is up nobody has waited for it, and a process that was
\* killed is no longer in cmd
Watched ==
    /\ running => proc[cmd] \in {"alive", "exited"}
    /\ cmd # None => proc[cmd] # "killed"
    /\ cmd # None /\ proc[cmd] \in {"alive", "exited"} =>
          monitor[cmd] = "new" \/ (monitor[cmd] = "waiting" /\ held[cmd] = cmd)

\* A start makes the process and its monitor together (StartTunnelFromFDWithConfig)
LEMMA LaunchWatched ==
    ASSUME IInv, Watched, NEW f, ~running, Launch(f), UNCHANGED held
    PROVE  Watched'
<1> DEFINE p == starts + 1
<1>1. p \in Procs /\ cmd' = p
  BY TunnelAssumption DEF Launch, IInv, TypeOK, Procs
<1>2. CASE proc' = [proc EXCEPT ![p] = "alive"] /\ monitor' = [monitor EXCEPT ![p] = "new"]
  <2>1. proc'[cmd'] = "alive" /\ monitor'[cmd'] = "new"
    BY <1>1, <1>2 DEF IInv, TypeOK
  <2> QED
    BY <2>1 DEF Watched
<1>3. CASE proc' = [proc EXCEPT ![p] = "failed"] /\ UNCHANGED <<running, monitor>>
  <2>1. proc'[cmd'] = "failed" /\ ~running'
    BY <1>1, <1>3 DEF IInv, TypeOK
  <2> QED
    BY <2>1 DEF Watched
<1> QED
  BY <1>2, <1>3 DEF Launch

\* However late other monitors come and whatever they wait for, the exit of the process in cmd
\* finds its own monitor waiting: cmd never returns to an earlier process, so a monitor that
\* looks while its process is in cmd takes that one (monitorProcess)
THEOREM ProcessIsWatched == Spec => []Watched
<1>1. Init => Watched
  BY DEF Init, Watched
<1>2. ASSUME IInv, IInv', Watched, [Next]_vars PROVE Watched'
  <2>0. cmd # None => cmd \in Procs
    BY <1>2, TunnelAssumption DEF IInv, TypeOK, None, Procs
  <2>1. CASE UNCHANGED vars
    BY <1>2, <2>1 DEF vars, Watched
  <2>2. ASSUME NEW f \in FDs, StartTunnel(f) PROVE Watched'
    BY <1>2, <2>2, LaunchWatched DEF StartTunnel
  <2>3. ASSUME Stop PROVE Watched'
    BY <2>3 DEF Stop, Watched
  <2>4. ASSUME NEW r \in Restarters, RestartReads(r) \/ RestartStops(r) \/ RestartStarts(r)
        PROVE  Watched'
    <3>1. CASE RestartReads(r)
      BY <1>2, <3>1 DEF RestartReads, Watched
    <3>2. CASE RestartStops(r)
      BY <1>2, <2>3, <3>2 DEF RestartStops, Watched
    <3>3. CASE RestartStarts(r)
      BY <1>2, <3>3, LaunchWatched DEF RestartStarts, Watched
    <3> QED
      BY <2>4, <3>1, <3>2, <3>3
  <2>5. ASSUME NEW m \in Procs, Exit(m) PROVE Watched'
    <3>1. UNCHANGED <<running, cmd, monitor, held>>
      BY <2>5 DEF Exit
    <3>2. CASE cmd = None
      BY <1>2, <3>1, <3>2 DEF Watched, IInv, RunningIsStarted
    <3>3. CASE cmd # None
      BY <1>2, <2>0, <2>5, <3>1, <3>3 DEF Exit, Watched, IInv, TypeOK
    <3> QED
      BY <3>2, <3>3
  <2>6. ASSUME NEW m \in Procs, MonitorLooks(m) PROVE Watched'
    BY <1>2, <2>0, <2>6 DEF MonitorLooks, Watched, IInv, TypeOK, None
  <2>7. ASSUME NEW m \in Procs, MonitorWakes(m) PROVE Watched'
    BY <1>2, <2>0, <2>7 DEF MonitorWakes, Watched, IInv, TypeOK, None, Nobody
  <2> QED
    BY <1>2, <2>1, <2>2, <2>3, <2>4, <2>5, <2>6, <2>7 DEF Next, StopTunnel
<1> QED
  BY Invariance, <1>1, <1>2, PTL DEF Spec
====
