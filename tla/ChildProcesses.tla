--------------------------- MODULE ChildProcesses ---------------------------
(***************************************************************************)
(* Processes that Lua spawns with an exit callback. The kernel runs them   *)
(* concurrently and tells about their end with SIGCHLD; its handler writes *)
(* a byte to a pipe that the main loop watches; the main loop empties the  *)
(* pipe, collects every child that has ended and calls back.               *)
(*                                                                         *)
(* Sources: spawn.c, common/array.h, and signal_child and reap_children of *)
(* awesome.c.                                                              *)
(***************************************************************************)
EXTENDS Naturals, FiniteSets

CONSTANTS
    Pids,        \* process ids; the kernel reuses them
    Callbacks,   \* exit callbacks, one for each spawn: bounds the spawns
    NoCallback,  \* no entry in running_children
    NoPid,
    ReadMax      \* the bytes one read takes from the pipe

ASSUME ChildAssumption ==
    /\ NoCallback \notin Callbacks
    /\ NoPid \notin Pids
    /\ ReadMax \in Nat \ {0}

VARIABLES
    proc,      \* kernel: the state of each process id
    owner,     \* the callback that the process was spawned with
    used,      \* the callbacks that were given to a spawn
    running,   \* running_children: the callback recorded for a process id
    spawning,  \* the process forked by a luaA_spawn that has not recorded it yet
    pc,        \* the main loop: idle, or collecting in reap_children
    calling,   \* the callback that spawn_child_exited is running
    called,    \* how often each callback was called
    pending,   \* kernel: SIGCHLD is pending
    pipe       \* bytes in sigchld_pipe

vars == <<proc, owner, used, running, spawning, pc, calling, called, pending, pipe>>

OptCallback == Callbacks \cup {NoCallback}

TypeOK ==
    /\ proc \in [Pids -> {"none", "alive", "zombie"}]
    /\ owner \in [Pids -> OptCallback]
    /\ used \subseteq Callbacks
    /\ running \in [Pids -> OptCallback]
    /\ spawning \in Pids \cup {NoPid}
    /\ pc \in {"idle", "reaping", "leaving"}
    /\ calling \in OptCallback
    /\ called \in [Callbacks -> Nat]
    /\ pending \in BOOLEAN
    /\ pipe \in Nat

-----------------------------------------------------------------------------
(* The kernel and the signal handler *)

\* a child ends, at any time; signals of one kind that are pending are one
Exit(p) ==
    /\ proc[p] = "alive"
    /\ proc' = [proc EXCEPT ![p] = "zombie"]
    /\ pending' = TRUE
    /\ UNCHANGED <<owner, used, running, spawning, pc, calling, called, pipe>>

\* signal_child interrupts whatever the manager is doing
SignalChild ==
    /\ pending
    /\ pending' = FALSE
    /\ pipe' = pipe + 1
    /\ UNCHANGED <<proc, owner, used, running, spawning, pc, calling, called>>

-----------------------------------------------------------------------------
(* luaA_spawn: called by Lua, from the main loop or from an exit callback *)

InLua == spawning = NoPid /\ (pc = "idle" \/ calling # NoCallback)

\* g_spawn_async_with_pipes: the child runs, and may end, from now on
Spawn(p, cb) ==
    /\ InLua
    /\ proc[p] = "none"
    /\ cb \notin used
    /\ proc' = [proc EXCEPT ![p] = "alive"]
    /\ owner' = [owner EXCEPT ![p] = cb]
    /\ used' = used \cup {cb}
    /\ spawning' = p
    /\ UNCHANGED <<running, pc, calling, called, pending, pipe>>

\* running_child_array_insert: an entry with the same pid is not replaced
Register ==
    /\ spawning # NoPid
    /\ running' = IF running[spawning] = NoCallback
                  THEN [running EXCEPT ![spawning] = owner[spawning]] ELSE running
    /\ spawning' = NoPid
    /\ UNCHANGED <<proc, owner, used, pc, calling, called, pending, pipe>>

-----------------------------------------------------------------------------
(* reap_children *)

\* mutant: a full buffer is always taken for granted
TakeBuffer == pipe' = pipe - ReadMax

\* read takes what is there, up to the size of the buffer
TakeBytes == pipe' = IF pipe > ReadMax THEN pipe - ReadMax ELSE 0

\* mutant: the pipe is emptied only after the children have been collected
DropBytes == pipe' = 0

\* reap_children reads before it collects and not afterwards
LeaveBytes == pipe' = pipe

\* GLib calls reap_children because the pipe is readable
ReadPipe ==
    /\ pc = "idle" /\ spawning = NoPid
    /\ pipe > 0
    /\ pc' = "reaping"
    /\ TakeBytes
    /\ UNCHANGED <<proc, owner, used, running, spawning, calling, called, pending>>

\* mutant: the entry of the child stays
KeepEntry(p) == running' = running

\* running_child_array_remove
Forget(p) == running' = [running EXCEPT ![p] = NoCallback]

\* waitpid returned p, whose id is free from then on: spawn_child_exited
\* removes the entry and then calls the callback, if there was one
Collect(p) ==
    /\ pc = "reaping" /\ calling = NoCallback
    /\ proc[p] = "zombie"
    /\ proc' = [proc EXCEPT ![p] = "none"]
    /\ owner' = [owner EXCEPT ![p] = NoCallback]
    /\ calling' = running[p]
    /\ called' = [cb \in Callbacks |-> IF cb = running[p] THEN called[cb] + 1 ELSE called[cb]]
    /\ Forget(p)
    /\ UNCHANGED <<used, spawning, pc, pending, pipe>>

\* the callback returns
Return ==
    /\ calling # NoCallback
    /\ spawning = NoPid
    /\ calling' = NoCallback
    /\ UNCHANGED <<proc, owner, used, running, spawning, pc, called, pending, pipe>>

\* waitpid finds no child that has ended
NoMore ==
    /\ pc = "reaping" /\ calling = NoCallback
    /\ \A p \in Pids : proc[p] # "zombie"
    /\ pc' = "leaving"
    /\ UNCHANGED <<proc, owner, used, running, spawning, calling, called, pending, pipe>>

\* reap_children returns
Leave ==
    /\ pc = "leaving"
    /\ pc' = "idle"
    /\ LeaveBytes
    /\ UNCHANGED <<proc, owner, used, running, spawning, calling, called, pending>>

-----------------------------------------------------------------------------
Init ==
    /\ proc = [p \in Pids |-> "none"] /\ owner = [p \in Pids |-> NoCallback]
    /\ used = {} /\ running = [p \in Pids |-> NoCallback] /\ spawning = NoPid
    /\ pc = "idle" /\ calling = NoCallback /\ called = [cb \in Callbacks |-> 0]
    /\ pending = FALSE /\ pipe = 0

Reap == ReadPipe \/ (\E p \in Pids : Collect(p)) \/ Return \/ NoMore \/ Leave

Next ==
    \/ \E p \in Pids : Exit(p)
    \/ SignalChild
    \/ \E p \in Pids, cb \in Callbacks : Spawn(p, cb)
    \/ Register
    \/ Reap

\* the kernel delivers signals, C code goes on, and GLib dispatches the pipe
Fairness == WF_vars(SignalChild) /\ WF_vars(Register) /\ WF_vars(Reap)

Spec == Init /\ [][Next]_vars
FairSpec == Spec /\ Fairness

-----------------------------------------------------------------------------
(* Properties *)

\* Although process ids are reused and children end before luaA_spawn has
\* recorded them, running_children holds exactly the live and ended processes
\* that were spawned with a callback, each with its own callback: there is
\* never an "Unknown child".
RunningExact ==
    \A p \in Pids :
        /\ proc[p] = "none" <=> owner[p] = NoCallback
        /\ running[p] = IF p = spawning THEN NoCallback ELSE owner[p]

\* A callback is called once, when the process it was given for has been
\* collected, and never for another process that has the same id.
CalledOnce ==
    \A cb \in Callbacks :
        /\ called[cb] \in {0, 1}
        /\ called[cb] = 1 <=> cb \in used /\ \A p \in Pids : owner[p] # cb

\* SIGCHLDs merge and bytes pile up, but no end of a process is missed: while
\* one waits to be collected, there is a signal, a byte, or the loop itself.
NoLostSignal ==
    (\E p \in Pids : proc[p] = "zombie") => pending \/ pipe > 0 \/ pc = "reaping"

\* Every process that ends is reported to the callback it was spawned with.
EveryExitReported ==
    \A cb \in Callbacks :
        (\E p \in Pids : owner[p] = cb /\ proc[p] = "zombie") ~> called[cb] > 0
=============================================================================
