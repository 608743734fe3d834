---- MODULE Tunnel ----
(***************************************************************************)
(* The TUN tunnel (pkg/tunnel/tunnel.go): tun2socks as a child process,    *)
(* the goroutine that waits for each one, and callers that start, stop and *)
(* restart it at any time.  StartTunnelFromFD and StopTunnel hold t.mu and *)
(* are one step each; the flag running is also written without it.         *)
(* A process is the number of the start that made it.                      *)
(* Bug... is a mutated form of the definition after it.                    *)
(***************************************************************************)
EXTENDS Integers, FiniteSets

CONSTANTS
    FDs,          \* descriptors that callers give
    Restarters,   \* goroutines that may be in Restart
    MaxStarts     \* bound: processes made, or attempted

ASSUME TunnelAssumption == FDs \subseteq Nat \ {0} /\ MaxStarts \in Nat

Procs == 1..MaxStarts
None == 0
Nobody == -1      \* no process in a monitor's hands yet

VARIABLES
    running, cmd, tunFD,
    starts,       \* starts so far
    fd,           \* the descriptor each process was made for
    proc,         \* "none", "failed", "alive", "killed", "exited", "reaped"
    monitor,      \* per start: "none", "new", "waiting", "done"
    held,         \* the process a monitor waits for
    restart,      \* per restarter: "idle", "stop", "start"
    restartFD,    \* the descriptor it read
    misled        \* history: running was cleared for a process that is not in cmd

vars == <<running, cmd, tunFD, starts, fd, proc, monitor, held, restart, restartFD, misled>>

\* A new Tunnel has 0 for a descriptor
Init ==
    /\ running = FALSE /\ cmd = None /\ tunFD = 0 /\ starts = 0
    /\ fd = [p \in Procs |-> 0]
    /\ proc = [p \in Procs |-> "none"]
    /\ monitor = [p \in Procs |-> "none"] /\ held = [p \in Procs |-> Nobody]
    /\ restart = [r \in Restarters |-> "idle"] /\ restartFD = [r \in Restarters |-> 0]
    /\ misled = FALSE

-----------------------------------------------------------------------------

\* cmd, tunFD and mtu are set before the process is, and stay if it is not
Launch(f) ==
    /\ starts < MaxStarts
    /\ LET p == starts + 1
       IN  /\ starts' = p /\ cmd' = p /\ tunFD' = f
           /\ fd' = [fd EXCEPT ![p] = f]
           /\ \/ proc' = [proc EXCEPT ![p] = "alive"] /\ running' = TRUE
                 /\ monitor' = [monitor EXCEPT ![p] = "new"]
              \/ proc' = [proc EXCEPT ![p] = "failed"] /\ UNCHANGED <<running, monitor>>

\* StartTunnelFromFDWithConfig; without a tun2socks binary nothing changes
StartTunnel(f) ==
    /\ ~running
    /\ Launch(f)
    /\ UNCHANGED <<held, restart, restartFD, misled>>

\* Kill takes effect later, and on a process that has exited none
Kill(p) == IF proc[p] = "alive" THEN [proc EXCEPT ![p] = "killed"] ELSE proc

BugStop ==
    /\ running' = FALSE /\ cmd' = None /\ tunFD' = -1
    /\ UNCHANGED proc
Stop ==
    /\ running' = FALSE /\ cmd' = None /\ tunFD' = -1
    /\ proc' = Kill(cmd)

\* StopTunnel, and ErrTunnelNotRunning when it is not running
StopTunnel ==
    /\ running
    /\ Stop
    /\ UNCHANGED <<starts, fd, monitor, held, restart, restartFD, misled>>

-----------------------------------------------------------------------------
(* Restart: three steps, t.mu is free between them.                        *)

\* No previous configuration after a Stop, but one with descriptor 0 in a new Tunnel
RestartReads(r) ==
    /\ restart[r] = "idle" /\ tunFD >= 0
    /\ restart' = [restart EXCEPT ![r] = "stop"]
    /\ restartFD' = [restartFD EXCEPT ![r] = tunFD]
    /\ UNCHANGED <<running, cmd, tunFD, starts, fd, proc, monitor, held, misled>>

RestartStops(r) ==
    /\ restart[r] = "stop"
    /\ \/ running /\ Stop
       \/ ~running /\ UNCHANGED <<running, cmd, tunFD, proc>>
    /\ restart' = [restart EXCEPT ![r] = "start"]
    /\ UNCHANGED <<starts, fd, monitor, held, restartFD, misled>>

\* ErrTunnelAlreadyRunning when another caller was faster
RestartStarts(r) ==
    /\ restart[r] = "start"
    /\ \/ ~running /\ Launch(restartFD[r])
       \/ running /\ UNCHANGED <<running, cmd, tunFD, starts, fd, proc, monitor>>
    /\ restart' = [restart EXCEPT ![r] = "idle"]
    /\ restartFD' = [restartFD EXCEPT ![r] = 0]
    /\ UNCHANGED <<held, misled>>

-----------------------------------------------------------------------------
(* The processes and monitorProcess.                                       *)

Exit(p) ==
    /\ proc[p] \in {"alive", "killed"}
    /\ proc' = [proc EXCEPT ![p] = "exited"]
    /\ UNCHANGED <<running, cmd, tunFD, starts, fd, monitor, held, restart, restartFD, misled>>

\* A monitor takes what is in cmd when it comes to run, which need not be its own process
MonitorLooks(m) ==
    /\ monitor[m] = "new"
    /\ held' = [held EXCEPT ![m] = cmd]
    /\ monitor' = [monitor EXCEPT ![m] = IF cmd = None THEN "done" ELSE "waiting"]
    /\ UNCHANGED <<running, cmd, tunFD, starts, fd, proc, restart, restartFD, misled>>

BugMonitorWakes(m) ==
    /\ monitor[m] = "waiting" /\ proc[held[m]] \in {"exited", "reaped"}
    /\ proc' = [proc EXCEPT ![held[m]] = "reaped"]
    /\ monitor' = [monitor EXCEPT ![m] = "done"]
    /\ UNCHANGED <<running, cmd, tunFD, starts, fd, held, restart, restartFD, misled>>
BugMonitorPolls(m) ==
    /\ monitor[m] = "waiting" /\ proc[held[m]] \in {"failed", "exited", "reaped"}
    /\ running' = FALSE
    /\ monitor' = [monitor EXCEPT ![m] = "done"]
    /\ misled' = (misled \/ (running /\ held[m] # cmd))
    /\ UNCHANGED <<proc, cmd, tunFD, starts, fd, held, restart, restartFD>>
\* Wait returns: at once for a process that never started or was waited for
MonitorWakes(m) ==
    /\ monitor[m] = "waiting" /\ proc[held[m]] \in {"failed", "exited", "reaped"}
    /\ proc' = [proc EXCEPT ![held[m]] = IF @ = "failed" THEN @ ELSE "reaped"]
    /\ running' = FALSE
    /\ monitor' = [monitor EXCEPT ![m] = "done"]
    /\ misled' = (misled \/ (running /\ held[m] # cmd))
    /\ UNCHANGED <<cmd, tunFD, starts, fd, held, restart, restartFD>>

Next ==
    \/ \E f \in FDs : StartTunnel(f)
    \/ StopTunnel
    \/ \E r \in Restarters : RestartReads(r) \/ RestartStops(r) \/ RestartStarts(r)
    \/ \E p \in Procs : Exit(p) \/ MonitorLooks(p) \/ MonitorWakes(p)

Spec == Init /\ [][Next]_vars

(* A monitor runs, a killed process exits.  Nothing is assumed of callers  *)
(* and of processes that nobody killed.                                    *)
Fairness ==
    /\ \A m \in Procs : WF_vars(MonitorLooks(m)) /\ WF_vars(MonitorWakes(m))
    /\ \A p \in Procs : WF_vars(proc[p] = "killed" /\ Exit(p))

FairSpec == Spec /\ Fairness

-----------------------------------------------------------------------------
\* Types, and cmd is none but a process that a start made (tunnel.go).
TypeOK ==
    /\ running \in BOOLEAN /\ misled \in BOOLEAN
    /\ starts \in 0..MaxStarts /\ cmd \in 0..starts
    /\ tunFD \in FDs \cup {-1, 0}
    /\ fd \in [Procs -> FDs \cup {0}]
    /\ proc \in [Procs -> {"none", "failed", "alive", "killed", "exited", "reaped"}]
    /\ monitor \in [Procs -> {"none", "new", "waiting", "done"}]
    /\ held \in [Procs -> {Nobody} \cup 0..starts]
    /\ restart \in [Restarters -> {"idle", "stop", "start"}]
    /\ restartFD \in [Restarters -> FDs \cup {0}]

\* While the tunnel says that it runs, its command is one whose process was started: neither a
\* failed start nor a Stop leaves the flag behind (StartTunnelFromFDWithConfig, StopTunnel).
RunningIsStarted == running => cmd # None /\ proc[cmd] \in {"alive", "exited", "reaped"}

\* A process that runs and that nobody killed is the one Stop would kill, and Stop would
\* kill it: unless the monitor of another process has cleared the flag (monitorProcess).
NoOrphan == ~misled => \A p \in Procs : proc[p] = "alive" => running /\ cmd = p

\* The end of the process is noticed, whoever waits for it (monitorProcess).
ExitNoticed ==
    \A p \in Procs : (cmd = p /\ proc[p] = "exited") ~> (~running \/ cmd # p)

\* A tunnel that was stopped, and whose monitor had its process in hand, leaves no zombie.
Reaped ==
    \A p \in Procs : (proc[p] \in {"killed", "exited"} /\ held[p] = p) ~> proc[p] = "reaped"

\* No exit is missed, whether the process died or was stopped, and whichever monitor waits
\* for it (monitorProcess).
ExitsHandled == ExitNoticed /\ Reaped
====
