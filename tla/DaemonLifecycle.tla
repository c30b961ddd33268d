-------------------------- MODULE DaemonLifecycle --------------------------
(***************************************************************************)
(* The life of a daemon process: the single-instance claim                 *)
(* (supervisor._claim_single_instance, _release_single_instance), the      *)
(* orphan sweep of its boot, the endpoint of loopback.py, the runs it owns *)
(* and its shutdown, with crashes and with process ids that the system     *)
(* hands out again.                                                        *)
(*                                                                         *)
(* A daemon is one process lifetime, its nonce and its control token in    *)
(* one; pid[d] is the number the system gave it.  Files hold the daemon    *)
(* whose bytes were published last.                                        *)
(***************************************************************************)
EXTENDS Naturals, FiniteSets

CONSTANTS
    Daemon,     \* daemon processes, past and to come
    NoDaemon,
    Pid,        \* process ids
    Row,        \* agent runs, by their rows
    NoRow

DaemonConstantsOK == NoDaemon \notin Daemon /\ NoRow \notin Row /\ Pid # {}

VARIABLES
    pc,         \* where each daemon is
    pid,        \* the process id of each daemon
    strangers,  \* process ids of programs that are no daemon
    lock,       \* holder of the process-lifetime instance lock
    pidfile,    \* daemon.pid
    token,      \* control.token
    endpoint,   \* who is bound at the control endpoint
    bound,      \* daemons with a loopback server
    run,        \* durable state of each run
    owner,      \* the ownership registry: runs
    step,       \* [by, at]: the daemon and the progress of each run's handler
    todo,       \* runs a sweep or a shutdown still has to look at
    at          \* the run a sweep has found open

files == <<lock, pidfile, token, endpoint, bound>>
runs == <<run, owner, step>>
daemonVars == <<pc, pid, strangers, files, runs, todo, at>>

Move(d, from, to) == pc[d] = from /\ pc' = [pc EXCEPT ![d] = to]

Running == {d \in Daemon : pc[d] \notin {"off", "gone"}}
PidAlive(p) == p \in strangers \/ \E d \in Running : pid[d] = p

(***************************************************************************)
(* The system around the daemons.                                          *)
(***************************************************************************)
\* Which of those that have not run yet is the next one makes no difference.
Start(d) ==
    /\ Move(d, "off", "lock") /\ d = CHOOSE x \in Daemon : pc[x] = "off"
    /\ \E p \in Pid : ~PidAlive(p) /\ pid' = [pid EXCEPT ![d] = p]
    /\ UNCHANGED <<strangers, files, runs, todo, at>>

StrangerStarts ==
    /\ \E p \in Pid : ~PidAlive(p) /\ strangers' = strangers \cup {p}
    /\ UNCHANGED <<pc, pid, files, runs, todo, at>>

StrangerEnds ==
    /\ \E p \in strangers : strangers' = strangers \ {p}
    /\ UNCHANGED <<pc, pid, files, runs, todo, at>>

\* A process that ends frees its lock and its socket and nothing else.
Freed(x, d) == IF x = d THEN NoDaemon ELSE x

Die(d) ==
    /\ d \in Running
    /\ pc' = [pc EXCEPT ![d] = "gone"]
    /\ lock' = Freed(lock, d) /\ endpoint' = Freed(endpoint, d)
    /\ UNCHANGED <<pid, strangers, pidfile, token, bound, runs, todo, at>>

(***************************************************************************)
(* _claim_single_instance: the lock, the pid file, the token.              *)
(***************************************************************************)
AcquireLock(d) ==
    /\ lock = NoDaemon
    /\ Move(d, "lock", "check") /\ lock' = d
    /\ UNCHANGED <<pid, strangers, pidfile, token, endpoint, bound, runs, todo, at>>

\* The pid file names a process that is alive and not this one.
Taken(d) == IF pidfile = NoDaemon THEN FALSE
            ELSE pid[pidfile] # pid[d] /\ PidAlive(pid[pidfile])

\* Locked, or the recorded process looks alive: the boot is denied.
DenyBoot(d) ==
    /\ \/ Move(d, "lock", "exit") /\ lock \notin {NoDaemon, d} /\ UNCHANGED lock
       \/ /\ Move(d, "check", "exit") /\ Taken(d)
          /\ lock' = Freed(lock, d)
    /\ UNCHANGED <<pid, strangers, pidfile, token, endpoint, bound, runs, todo, at>>

PublishPidfile(d) ==
    /\ ~Taken(d)
    /\ Move(d, "check", "token") /\ pidfile' = d
    /\ UNCHANGED <<pid, strangers, lock, token, endpoint, bound, runs, todo, at>>

PublishToken(d) ==
    /\ Move(d, "token", "scan") /\ token' = d
    /\ UNCHANGED <<pid, strangers, lock, pidfile, endpoint, bound, runs, todo, at>>

\* _remove_private_runtime: exactly these bytes.
\* A publication fails: what was published is taken back, the lock is closed.
PublishFails(d) ==
    /\ \/ Move(d, "check", "exit") /\ UNCHANGED token
       \/ Move(d, "token", "exit") /\ token' = Freed(token, d)
    /\ pidfile' = Freed(pidfile, d) /\ lock' = Freed(lock, d)
    /\ UNCHANGED <<pid, strangers, endpoint, bound, runs, todo, at>>

(***************************************************************************)
(* orphan_sweep, over the registry as it was read.                         *)
(***************************************************************************)
LoadOwnership(d) ==
    /\ Move(d, "scan", "sweep")
    /\ todo' = [todo EXCEPT ![d] = {<<r, owner[r]>> : r \in {r \in Row : owner[r] # NoDaemon}}]
    /\ UNCHANGED <<pid, strangers, files, runs, at>>

\* Mutant: the nonce alone, never the process.
OtherNonce(d, o) == o # d

OwnerDead(d, o) == o # d /\ ~PidAlive(pid[o])

\* A terminal run only loses its entry; an open one is finalized next.
SweepOne(d) ==
    /\ pc[d] = "sweep" /\ at[d] = NoRow
    /\ \E entry \in todo[d] :
          LET r == entry[1]
              dead == OwnerDead(d, entry[2])
          IN  /\ todo' = [todo EXCEPT ![d] = @ \ {entry}]
              /\ at' = [at EXCEPT ![d] = IF dead /\ run[r] = "open" THEN r ELSE NoRow]
              /\ owner' = IF dead /\ run[r] # "open" THEN [owner EXCEPT ![r] = NoDaemon] ELSE owner
    /\ UNCHANGED <<pc, pid, strangers, files, run, step>>

\* T8; somebody else's finalization in between fails the boot.
ForceFinalize(d) ==
    /\ at[d] # NoRow
    /\ IF run[at[d]] = "open"
       THEN Move(d, "sweep", "clear") /\ run' = [run EXCEPT ![at[d]] = "swept"]
       ELSE Move(d, "sweep", "stop") /\ UNCHANGED run
    /\ UNCHANGED <<pid, strangers, files, owner, step, todo, at>>

ClearSwept(d) ==
    /\ Move(d, "clear", "sweep")
    /\ owner' = [owner EXCEPT ![at[d]] = NoDaemon] /\ at' = [at EXCEPT ![d] = NoRow]
    /\ UNCHANGED <<pid, strangers, files, run, step, todo>>

EndSweep(d) ==
    /\ Move(d, "sweep", "listen") /\ todo[d] = {} /\ at[d] = NoRow
    /\ UNCHANGED <<pid, strangers, files, runs, todo, at>>

\* LoopbackServer.start; or boot fails before or in it.
StartLoopback(d) ==
    /\ \/ Move(d, "listen", "serve") /\ endpoint' = d /\ bound' = bound \cup {d}
       \/ Move(d, "listen", "stop") /\ UNCHANGED <<endpoint, bound>>
    /\ UNCHANGED <<pid, strangers, lock, pidfile, token, runs, todo, at>>

(***************************************************************************)
(* Runs.  A handler thread goes on until its process ends, also after the  *)
(* shutdown of the daemon has passed it by.                                *)
(***************************************************************************)
StartRun(d, r) ==
    /\ pc[d] = "serve" /\ run[r] = "none"
    /\ run' = [run EXCEPT ![r] = "open"]
    /\ step' = [step EXCEPT ![r] = [by |-> d, at |-> "inserted"]]
    /\ UNCHANGED <<pc, pid, strangers, files, owner, todo, at>>

Handling(r, places) == step[r].by \in Running /\ step[r].at \in places
Closed(r) == pc[step[r].by] = "exit"        \* the registry of its daemon

\* A registry that is closed refuses, and the start finalizes its run.
RecordOwnership(r) ==
    /\ Handling(r, {"inserted"})
    /\ IF Closed(r)
       THEN /\ run' = [run EXCEPT ![r] = IF @ = "open" THEN "ended" ELSE @]
            /\ step' = [step EXCEPT ![r].at = "done"] /\ UNCHANGED owner
       ELSE /\ owner' = [owner EXCEPT ![r] = step[r].by]
            /\ step' = [step EXCEPT ![r].at = "owned"] /\ UNCHANGED run
    /\ UNCHANGED <<pc, pid, strangers, files, todo, at>>

RegisterDriven(r) ==
    /\ Handling(r, {"owned"})
    /\ step' = [step EXCEPT ![r].at = "driven"]
    /\ UNCHANGED <<pc, pid, strangers, files, run, owner, todo, at>>

\* _finalize_driven, which tolerates a run somebody else finalized.
EndRun(r) ==
    /\ Handling(r, {"owned", "driven"})
    /\ run' = [run EXCEPT ![r] = IF @ = "open" THEN "ended" ELSE @]
    /\ step' = [step EXCEPT ![r].at = "ended"]
    /\ UNCHANGED <<pc, pid, strangers, files, owner, todo, at>>

ClearOwnership(r) ==
    /\ Handling(r, {"ended"})
    /\ step' = [step EXCEPT ![r].at = "done"]
    /\ owner' = IF Closed(r) THEN owner ELSE [owner EXCEPT ![r] = NoDaemon]
    /\ UNCHANGED <<pc, pid, strangers, files, run, todo, at>>

\* The agent-run finalize command writes to the ledger without a daemon.
FinalizeByHand(r) ==
    /\ run[r] = "open"
    /\ run' = [run EXCEPT ![r] = "ended"]
    /\ UNCHANGED <<pc, pid, strangers, files, owner, step, todo, at>>

(***************************************************************************)
(* shutdown: the driven sessions registered by then, the endpoint, the     *)
(* files, the lock.                                                        *)
(***************************************************************************)
\* The parent is gone, or a client asked for it.
Quiesce(d) ==
    /\ Move(d, "serve", "stop")
    /\ UNCHANGED <<pid, strangers, files, runs, todo, at>>

ShutdownDriven(d) ==
    /\ Move(d, "stop", "quiesce")
    /\ todo' = [todo EXCEPT ![d] = {<<r, d>> : r \in {r \in Row : step[r] = [by |-> d, at |-> "driven"]}}]
    /\ UNCHANGED <<pid, strangers, files, runs, at>>

StopLoopback(d) ==
    /\ \A entry \in todo[d] : step[entry[1]].at = "done"
    /\ Move(d, "quiesce", "release")
    /\ endpoint' = IF d \in bound THEN NoDaemon ELSE endpoint
    /\ bound' = bound \ {d}
    /\ UNCHANGED <<pid, strangers, lock, pidfile, token, runs, todo, at>>

ReleaseInstance(d) ==
    /\ \/ Move(d, "release", "unpublish") /\ token' = Freed(token, d) /\ UNCHANGED <<pidfile, lock>>
       \/ Move(d, "unpublish", "unlock") /\ pidfile' = Freed(pidfile, d) /\ UNCHANGED <<token, lock>>
       \/ Move(d, "unlock", "exit") /\ lock' = Freed(lock, d) /\ UNCHANGED <<token, pidfile>>
    /\ UNCHANGED <<pid, strangers, endpoint, bound, runs, todo, at>>

----------------------------------------------------------------------------
DaemonInit ==
    /\ pc = [d \in Daemon |-> "off"] /\ pid \in [Daemon -> {CHOOSE p \in Pid : TRUE}]
    /\ strangers = {}
    /\ lock = NoDaemon /\ pidfile = NoDaemon /\ token = NoDaemon
    /\ endpoint = NoDaemon /\ bound = {}
    /\ run = [r \in Row |-> "none"] /\ owner = [r \in Row |-> NoDaemon]
    /\ step = [r \in Row |-> [by |-> NoDaemon, at |-> "absent"]]
    /\ todo = [d \in Daemon |-> {}] /\ at = [d \in Daemon |-> NoRow]

DaemonNext ==
    \/ StrangerStarts \/ StrangerEnds
    \/ \E d \in Daemon :
          \/ Start(d) \/ Die(d)
          \/ AcquireLock(d) \/ DenyBoot(d)
          \/ PublishPidfile(d) \/ PublishToken(d) \/ PublishFails(d)
          \/ LoadOwnership(d) \/ SweepOne(d) \/ ForceFinalize(d) \/ ClearSwept(d)
          \/ EndSweep(d) \/ StartLoopback(d)
          \/ Quiesce(d) \/ ShutdownDriven(d) \/ StopLoopback(d) \/ ReleaseInstance(d)
          \/ \E r \in Row : StartRun(d, r)
    \/ \E r \in Row :
          \/ RecordOwnership(r) \/ RegisterDriven(r) \/ EndRun(r)
          \/ ClearOwnership(r) \/ FinalizeByHand(r)

DaemonSpec == DaemonInit /\ [][DaemonNext]_daemonVars

----------------------------------------------------------------------------
Places == {"off", "lock", "check", "token", "scan", "sweep", "clear", "listen", "serve",
           "stop", "quiesce", "release", "unpublish", "unlock", "exit", "gone"}

\* Every variable has the values the code can give it.
DaemonTypeOK ==
    /\ pc \in [Daemon -> Places] /\ pid \in [Daemon -> Pid] /\ strangers \subseteq Pid
    /\ {lock, pidfile, token, endpoint} \subseteq Daemon \cup {NoDaemon} /\ bound \subseteq Daemon
    /\ run \in [Row -> {"none", "open", "ended", "swept"}]
    /\ owner \in [Row -> Daemon \cup {NoDaemon}]
    /\ at \in [Daemon -> Row \cup {NoRow}]
    /\ \A d1, d2 \in Running : pid[d1] = pid[d2] => d1 = d2

\* A daemon that serves holds the lock, and its pid file, its token and its
\* endpoint are the ones a client finds, whoever boots, fails or stops beside
\* it; and no daemon finalizes a run of a process that still lives.
OneDaemonOwns ==
    /\ \A d \in Daemon : pc[d] = "serve" => {lock, pidfile, token, endpoint} = {d}
    /\ \A r \in Row : run[r] = "swept" => step[r].by \notin Running

=============================================================================
