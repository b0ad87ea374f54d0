------------------------------ MODULE WaitLoop ------------------------------
(***************************************************************************)
(* spawn() and wait_loop() of src/spawn/mod.rs: one blocking call that     *)
(* starts a child, multiplexes its pipes through an edge-triggered epoll   *)
(* instance, enforces a timeout by signals, and reaps the child.           *)
(*                                                                         *)
(* Actors: the calling thread (one action per system call with the local   *)
(* computation that follows it), the child and the processes it forks      *)
(* (Kin: they inherit the pipe ends and the process group; all of them may *)
(* leave the group), the clock and whoever else in the caller's process    *)
(* may reap children.                                                      *)
(*                                                                         *)
(* Data is abstracted to what control depends on: a pipe is the number of  *)
(* units it holds and the set of processes that hold its far end.  The     *)
(* bytes, the output limit and the write offset are the business of module *)
(* Drain.                                                                  *)
(***************************************************************************)
EXTENDS Integers, Sequences, FiniteSets

CONSTANTS
  Child,            \* the spawned process
  Kin,              \* processes that the child, or one of them, may fork
  Options,          \* the SpawnOptions a behaviour may start with
  MayFork,          \* bound: those of Kin that are forked with each of the options
  SelectedBackend,  \* what select_backend() answers on this platform
  Deadline, Grace,  \* timeout_ms and kill_grace_ms, in clock ticks
  PipeCap,          \* units a pipe holds
  StdinLen,         \* units of the stdin buffer
  Faults            \* the failures the environment may produce

Procs == {Child} \cup Kin
Streams == {"stdin", "stdout", "stderr"}
Outputs == {"stdout", "stderr"}
FaultKind == {"spawn", "setup", "poll", "io", "reaper", "eperm", "eintr"}

\* The fields of SpawnOptions that control depends on.  pipes: which of
\* stdin / capture_stdout / capture_stderr are requested; timed and early:
\* whether timeout_ms / early_exit is Some; leader: pgroup.leader is None,
\* Some(0) (the child leads a group of its own) or Some(pid) of another group.
OptionType ==
  [wait : BOOLEAN, pipes : SUBSET Streams, timed : BOOLEAN, early : BOOLEAN,
   cancel : {"None", "Graceful", "Kill"}, leader : {"none", "self", "other"},
   isolated : BOOLEAN, cwd : BOOLEAN,
   backend : {"Auto", "PosixSpawn", "Fork"}]

\* decode_status: Exited(code), or Signaled(SIGTERM | SIGKILL | SIGPIPE).
Status == {"exited", "sigterm", "sigkill", "sigpipe"}
Running == "running"   \* status_raw = None
NoStream == "no stream"

ASSUME ProcsAssumption == Child \notin Kin
ASSUME OptionsAssumption == Options \subseteq OptionType
ASSUME ForkAssumption == MayFork \in [Options -> SUBSET Kin]
ASSUME BackendAssumption == SelectedBackend \in {"PosixSpawn", "Fork"}
ASSUME ClockAssumption == Deadline \in Nat /\ Grace \in Nat
ASSUME PipeAssumption == PipeCap \in Nat \ {0} /\ StdinLen \in Nat
ASSUME FaultsAssumption == Faults \subseteq FaultKind

VARIABLES
  opts,         \* the options of this call (never changes)
  \* the calling thread
  pc,           \* the next system call of the thread
  status_raw,   \* Option<ExitStatus> of wait_loop
  kill_state,   \* KillState of wait_loop
  timed_out,
  poll_timeout, \* "forever" (-1), "deadline" (remaining) or "short" (<= 100 ms)
  batch,        \* streams whose events the last epoll_wait returned, unhandled
  cur,          \* the stream whose handler is running
  hit,          \* the early_exit callback has answered true
  \* DrainState and the epoll instance
  slots,        \* streams whose FdSlot is Some (the parent's end is open)
  to_write,     \* units of stdin not yet written (WriterState)
  edge,         \* streams on the epoll ready list
  \* the kernel: pipes and processes
  pend,         \* units in each pipe
  ends,         \* processes that hold the far end of each pipe
  proc,         \* "none", "setup" (forked, before exec), "live", "zombie", "gone"
  group,        \* process group: "parent", "own" (the child's pid), "other", or
                \* "moved": the process, or one it descends from, has changed it
  sig,          \* the pending signal of each process
  fate,         \* how the child terminated
  \* time and the signals sent so far
  elapsed,
  sent

thread == <<status_raw, kill_state, timed_out, poll_timeout>>
events == <<batch, cur, hit>>
pipes  == <<pend, ends>>
procs  == <<proc, group, sig, fate>>
vars   == <<opts, pc, thread, events, slots, to_write, edge, pipes, procs,
            elapsed, sent>>

-----------------------------------------------------------------------------
(* Helpers. *)

Alive(p)  == proc[p] \in {"setup", "live"}
Returned  == pc \in {"ok", "err"}
InLoop    == pc \in {"top", "reap", "poll", "dispatch", "block"}
MaxElapsed == Deadline + Grace + 1   \* the last threshold the code compares with

\* spawn_start rejects background spawns that want I/O.
Valid(o) == o.wait \/ o.pipes = {}

\* resolve_backend, with force_fork.
Backend(o) ==
  IF o.isolated \/ o.cwd THEN "Fork"
  ELSE IF o.backend = "Auto" THEN SelectedBackend ELSE o.backend

\* The group the child is in once setsid / setpgid have run.  A session leader
\* cannot change its group, so isolated wins over leader.
FinalGroup(o) ==
  IF o.isolated \/ o.leader = "self" THEN "own"
  ELSE IF o.leader = "other" THEN "other" ELSE "parent"

\* What poll(2) would say of the parent's end: stdin is writable or broken,
\* an output has data or has hung up.
Ready(s) ==
  \/ ends[s] = {}
  \/ IF s = "stdin" THEN pend[s] < PipeCap ELSE pend[s] > 0

Due == opts.timed /\ elapsed >= Deadline

TargetIsGroup == opts.isolated \/ opts.leader # "none"

-----------------------------------------------------------------------------
(* spawn(): everything before wait_loop. *)

Init ==
  /\ opts \in Options
  /\ pc = "start"
  /\ status_raw = Running /\ kill_state = "None" /\ timed_out = FALSE
  /\ poll_timeout = "forever"
  /\ batch = {} /\ cur = NoStream /\ hit = FALSE
  /\ slots = {}
  /\ to_write = IF "stdin" \in opts.pipes THEN StdinLen ELSE 0
  /\ edge = {}
  /\ pend = [s \in Streams |-> 0]
  /\ ends = [s \in Streams |-> {}]
  /\ proc = [p \in Procs |-> "none"]
  /\ group = [p \in Procs |-> "parent"]
  /\ sig = [p \in Procs |-> "none"]
  /\ fate = Running
  /\ elapsed = 0 /\ sent = <<>>

\* An error leaves the function: DrainState and Reactor are dropped, which
\* closes every descriptor of the parent.  Nothing is done to the child.
Fail ==
  /\ pc' = "err"
  /\ slots' = {} /\ edge' = {} /\ batch' = {} /\ cur' = NoStream

\* Reactor::new, the EINVAL check of spawn_start, Pipes::new, posix_spawn or
\* fork fails: there is no child.
SpawnFails ==
  /\ pc = "start"
  /\ ~Valid(opts) \/ "spawn" \in Faults
  /\ Fail
  /\ UNCHANGED <<opts, thread, hit, to_write, pipes, procs, elapsed, sent>>

\* The child exists and holds the far end of every pipe, the parent's ends are
\* in the slots of a new DrainState.  posix_spawn returns once the child has
\* run its attributes and exec; fork returns at once.
SpawnChild ==
  /\ pc = "start" /\ Valid(opts)
  /\ pc' = "register"
  /\ slots' = opts.pipes
  /\ ends' = [s \in Streams |-> IF s \in opts.pipes THEN {Child} ELSE {}]
  /\ IF Backend(opts) = "PosixSpawn"
       THEN /\ proc' = [proc EXCEPT ![Child] = "live"]
            /\ group' = [group EXCEPT ![Child] = FinalGroup(opts)]
       ELSE /\ proc' = [proc EXCEPT ![Child] = "setup"]
            /\ UNCHANGED group
  /\ UNCHANGED <<opts, thread, events, to_write, edge, pend, sig, fate,
                 elapsed, sent>>

\* set_nonblock in DrainState::new or epoll_ctl in register_with_reactor fails
\* after the child was started.
SetupFails ==
  /\ pc = "register" /\ opts.pipes # {} /\ "setup" \in Faults
  /\ Fail
  /\ UNCHANGED <<opts, thread, hit, to_write, pipes, procs, elapsed, sent>>

\* register_with_reactor: EPOLL_CTL_ADD queues a descriptor that is ready.
\* Then spawn() returns at once if wait is false.
Register ==
  /\ pc = "register"
  /\ edge' = {s \in slots : Ready(s)}
  /\ pc' = IF opts.wait THEN "first" ELSE "ok"
  /\ UNCHANGED <<opts, thread, events, slots, to_write, pipes, procs,
                 elapsed, sent>>

-----------------------------------------------------------------------------
(* Process::wait_step and wait_blocking. *)

\* waitpid returns the status of the zombie and removes it.
Reap ==
  /\ proc[Child] = "zombie"
  /\ proc' = [proc EXCEPT ![Child] = "gone"]
  /\ status_raw' = fate

\* waitpid(WNOHANG) answers 0: the child is still there.
NotYet == Alive(Child) /\ UNCHANGED <<proc, status_raw>>

\* Mutant: the thread waits again for a child it has reaped.
WaitsAgain ==
  /\ pc \in {"first", "block", "reap"} /\ proc[Child] = "gone"
  /\ Fail
  /\ UNCHANGED <<opts, thread, hit, to_write, pipes, procs, elapsed, sent>>

\* waitpid answers ECHILD: somebody else reaped the child.
WaitFails ==
  /\ proc[Child] = "gone"
  /\ \/ pc \in {"first", "block"}
     \/ pc = "reap" /\ status_raw = Running
  /\ Fail
  /\ UNCHANGED <<opts, thread, hit, to_write, pipes, procs, elapsed, sent>>

\* The wait_step before the loop.
FirstWaitStep ==
  /\ pc = "first"
  /\ Reap \/ NotYet
  /\ pc' = "top"
  /\ UNCHANGED <<opts, kill_state, timed_out, poll_timeout, events, slots,
                 to_write, edge, pipes, group, sig, fate, elapsed, sent>>

\* Mutants: the loop ends when the child has ended; wait_blocking is skipped.
WaitStepIgnoresDrain ==
  /\ pc = "reap"
  /\ \/ status_raw = Running /\ (Reap \/ NotYet)
     \/ status_raw # Running /\ UNCHANGED <<proc, status_raw>>
  /\ pc' = IF status_raw' # Running THEN "ok"
           ELSE IF slots # {} THEN "poll" ELSE "block"
  /\ UNCHANGED <<opts, kill_state, timed_out, poll_timeout, events, slots,
                 to_write, edge, pipes, group, sig, fate, elapsed, sent>>

WaitStepDoesNotBlock ==
  /\ pc = "reap"
  /\ \/ status_raw = Running /\ (Reap \/ NotYet)
     \/ status_raw # Running /\ UNCHANGED <<proc, status_raw>>
  /\ pc' = IF slots # {} THEN "poll" ELSE "ok"
  /\ UNCHANGED <<opts, kill_state, timed_out, poll_timeout, events, slots,
                 to_write, edge, pipes, group, sig, fate, elapsed, sent>>

\* Mutant: there is no wait_blocking, the loop goes on without a pipe.
WaitStepPolls ==
  /\ pc = "reap"
  /\ \/ status_raw = Running /\ (Reap \/ NotYet)
     \/ status_raw # Running /\ UNCHANGED <<proc, status_raw>>
  /\ pc' = IF slots = {} /\ status_raw' # Running THEN "ok" ELSE "poll"
  /\ UNCHANGED <<opts, kill_state, timed_out, poll_timeout, events, slots,
                 to_write, edge, pipes, group, sig, fate, elapsed, sent>>

\* The wait_step of an iteration, then the is_done test: return, block until
\* the child ends, or go on to epoll_wait.
WaitStep ==
  /\ pc = "reap"
  /\ \/ status_raw = Running /\ (Reap \/ NotYet)
     \/ status_raw # Running /\ UNCHANGED <<proc, status_raw>>
  /\ pc' = IF slots # {} THEN "poll"
           ELSE IF status_raw' # Running THEN "ok" ELSE "block"
  /\ UNCHANGED <<opts, kill_state, timed_out, poll_timeout, events, slots,
                 to_write, edge, pipes, group, sig, fate, elapsed, sent>>

WaitBlocking ==
  /\ pc = "block"
  /\ Reap
  /\ pc' = "ok"
  /\ UNCHANGED <<opts, kill_state, timed_out, poll_timeout, events, slots,
                 to_write, edge, pipes, group, sig, fate, elapsed, sent>>

-----------------------------------------------------------------------------
(* The top of an iteration: the deadline and the signals.                   *)

\* Mutants: the group is always, or never, the target.
TargetsGroup == {p \in Procs : Alive(p) /\ group[p] = "own"}
TargetsChild == {p \in {Child} : Alive(p)}

\* kill(pid) addresses the child, kill(-pid) the group named by its pid.
Targets ==
  IF TargetIsGroup THEN {p \in Procs : Alive(p) /\ group[p] = "own"}
                   ELSE {p \in {Child} : Alive(p)}

\* What one kill may find: who has changed its group may have come back to it.
Found ==
  {Targets \cup J : J \in
     SUBSET {p \in Procs : TargetIsGroup /\ Alive(p) /\ group[p] = "moved"}}

\* Process::kill / kill_pgroup return Ok: the signal reaches the targets, if
\* there are any (ESRCH is Ok too).  A pending SIGKILL is never downgraded.
Signal(x) ==
  /\ \E T \in Found :
       sig' = [p \in Procs |-> IF p \in T /\ sig[p] # "KILL" THEN x ELSE sig[p]]
  /\ sent' = Append(sent, [sig |-> x, at |-> elapsed,
                           reaped |-> proc[Child] = "gone"])

\* They fail (EPERM: a target changed its credentials): nothing is delivered.
Refused == "eperm" \in Faults /\ Found # {{}} /\ UNCHANGED <<sig, sent>>

\* Mutant: timed_out is not recorded.
DueStepUnreported ==
  /\ pc = "top" /\ Due
  /\ pc' = "reap" /\ poll_timeout' = "short"
  /\ UNCHANGED <<opts, status_raw, timed_out, events, slots, edge, pipes,
                 to_write, proc, group, fate, elapsed>>

\* What the due branches have in common.
DueStep ==
  /\ pc = "top" /\ Due
  /\ pc' = "reap" /\ timed_out' = TRUE /\ poll_timeout' = "short"
  /\ UNCHANGED <<opts, status_raw, events, slots, to_write, edge, pipes,
                 proc, group, fate, elapsed>>

\* No deadline, or the deadline is ahead.
TopNotDue ==
  /\ pc = "top" /\ ~Due
  /\ pc' = "reap"
  /\ poll_timeout' = IF opts.timed THEN "deadline" ELSE "forever"
  /\ UNCHANGED <<opts, status_raw, kill_state, timed_out, events, slots,
                 to_write, edge, pipes, procs, elapsed, sent>>

\* Mutant: SIGTERM is taken for the last signal.
TopTermIsFinal ==
  /\ DueStep
  /\ kill_state = "None" /\ opts.cancel = "Graceful"
  /\ Signal("TERM") \/ Refused
  /\ kill_state' = "KillSent"

\* CancelPolicy::Graceful, first due iteration.  On an error the code takes the
\* child for gone and never signals again.
TopTerm ==
  /\ DueStep
  /\ kill_state = "None" /\ opts.cancel = "Graceful"
  /\ \/ Signal("TERM") /\ kill_state' = "TermSent"
     \/ Refused /\ kill_state' = "KillSent"

\* CancelPolicy::Kill, first due iteration; the result of kill is ignored.
TopKill ==
  /\ DueStep
  /\ kill_state = "None" /\ opts.cancel = "Kill"
  /\ Signal("KILL") \/ Refused
  /\ kill_state' = "KillSent"

\* Mutant: >= in place of >.
TopEscalateEarly ==
  /\ DueStep
  /\ kill_state = "TermSent" /\ elapsed - Deadline >= Grace
  /\ Signal("KILL") \/ Refused
  /\ kill_state' = "KillSent"

\* The grace period, counted from the deadline, is over.
TopEscalate ==
  /\ DueStep
  /\ kill_state = "TermSent" /\ elapsed - Deadline > Grace
  /\ Signal("KILL") \/ Refused
  /\ kill_state' = "KillSent"

\* Due, and nothing (more) to send.
TopDueIdle ==
  /\ DueStep
  /\ \/ kill_state = "None" /\ opts.cancel = "None"
     \/ kill_state = "TermSent" /\ elapsed - Deadline <= Grace
     \/ kill_state = "KillSent"
  /\ UNCHANGED <<kill_state, sig, sent>>

-----------------------------------------------------------------------------
(* Reactor::wait and the handlers of DrainState.                            *)

\* epoll_wait re-polls the ready list: it returns the streams that are still
\* ready and takes them off the list.
PollEvents ==
  /\ pc = "poll"
  /\ batch' = {s \in edge : Ready(s)}
  /\ batch' # {}
  /\ edge' = {}
  /\ cur' \in batch'
  /\ pc' = "dispatch"
  /\ UNCHANGED <<opts, thread, hit, slots, to_write, pipes, procs, elapsed, sent>>

\* The timeout wait_loop passes: at most 1 ms once the status is known.  A tick
\* is longer than the millisecond by which the deadline is rounded down.
MayExpire ==
  \/ status_raw # Running
  \/ poll_timeout = "short"
  \/ poll_timeout = "deadline" /\ Due

\* epoll_wait returns no event: it timed out, or EINTR (mapped to Ok(0)).
PollIdle ==
  /\ pc = "poll"
  /\ \A s \in edge : ~Ready(s)
  /\ MayExpire \/ "eintr" \in Faults
  /\ pc' = "top"
  /\ UNCHANGED <<opts, thread, events, slots, to_write, edge, pipes, procs,
                 elapsed, sent>>

PollFails ==
  /\ pc = "poll" /\ "poll" \in Faults
  /\ Fail
  /\ UNCHANGED <<opts, thread, hit, to_write, pipes, procs, elapsed, sent>>

\* A handler returns; the loop over the events goes on with the next one.  The
\* `else if ev.error` arms are dead: Reactor::wait reports an error as readable
\* and writable too.
EventHandled ==
  /\ batch' = batch \ {cur}
  /\ IF batch' = {}
       THEN cur' = NoStream /\ pc' = "top"
       ELSE cur' \in batch' /\ pc' = "dispatch"

\* Mutant: the descriptor is not taken off the epoll instance.
DropSlotOnly(s) == slots' = slots \ {s} /\ UNCHANGED edge

\* drop_stdin / drop_stdout / drop_stderr: deregister and close.
DropSlot(s) == slots' = slots \ {s} /\ edge' = edge \ {s}

\* Mutant: the handler returns after one read.
ReadDataOnce ==
  /\ pc = "dispatch" /\ cur \in Outputs
  /\ pend[cur] > 0
  /\ \E n \in 1..pend[cur] : pend' = [pend EXCEPT ![cur] = @ - n]
  /\ EventHandled
  /\ UNCHANGED <<opts, thread, hit, slots, edge, to_write, ends, procs,
                 elapsed, sent>>

\* One read() of read_from_fd: data (the loop reads again, unless early_exit
\* stops it), EAGAIN, or end of file.
ReadData ==
  /\ pc = "dispatch" /\ cur \in Outputs
  /\ pend[cur] > 0
  /\ \E n \in 1..pend[cur] : pend' = [pend EXCEPT ![cur] = @ - n]
  /\ \/ UNCHANGED <<pc, events, slots, edge>>
     \/ /\ cur = "stdout" /\ opts.early
        /\ hit' = TRUE
        /\ DropSlot(cur) /\ EventHandled
  /\ UNCHANGED <<opts, thread, to_write, ends, procs, elapsed, sent>>

ReadWouldBlock ==
  /\ pc = "dispatch" /\ cur \in Outputs
  /\ pend[cur] = 0 /\ ends[cur] # {}
  /\ EventHandled
  /\ UNCHANGED <<opts, thread, hit, slots, to_write, edge, pipes, procs,
                 elapsed, sent>>

ReadEof ==
  /\ pc = "dispatch" /\ cur \in Outputs
  /\ pend[cur] = 0 /\ ends[cur] = {}
  /\ DropSlot(cur) /\ EventHandled
  /\ UNCHANGED <<opts, thread, hit, to_write, pipes, procs, elapsed, sent>>

\* One write() of write_to_fd: units are written (and the loop goes on or is
\* done), EAGAIN, or EPIPE, which ends the stream like a complete write.
WriteData ==
  /\ pc = "dispatch" /\ cur = "stdin"
  /\ to_write > 0 /\ ends[cur] # {}
  /\ \E n \in 1..to_write :
       /\ pend[cur] + n <= PipeCap
       /\ pend' = [pend EXCEPT ![cur] = @ + n]
       /\ to_write' = to_write - n
       /\ IF n = to_write THEN DropSlot(cur) /\ EventHandled
                          ELSE UNCHANGED <<pc, batch, cur, slots, edge>>
  /\ UNCHANGED <<opts, thread, hit, ends, procs, elapsed, sent>>

WriteWouldBlock ==
  /\ pc = "dispatch" /\ cur = "stdin"
  /\ to_write > 0 /\ ends[cur] # {} /\ pend[cur] = PipeCap
  /\ EventHandled
  /\ UNCHANGED <<opts, thread, hit, slots, to_write, edge, pipes, procs,
                 elapsed, sent>>

WriteDone ==
  /\ pc = "dispatch" /\ cur = "stdin"
  /\ to_write = 0 \/ ends[cur] = {}
  /\ DropSlot(cur) /\ EventHandled
  /\ UNCHANGED <<opts, thread, hit, to_write, pipes, procs, elapsed, sent>>

\* Any other errno of read or write.
IoFails ==
  /\ pc = "dispatch" /\ "io" \in Faults
  /\ Fail
  /\ UNCHANGED <<opts, thread, hit, to_write, pipes, procs, elapsed, sent>>

-----------------------------------------------------------------------------
(* The environment: the child and its kin, the clock, another reaper.       *)

env == <<opts, pc, thread, events, slots, to_write, elapsed, sent>>

\* fork backend: the child runs dup2, setsid, setpgid and exec.  A failing
\* setpgid is ignored.
ChildExec ==
  /\ proc[Child] = "setup"
  /\ proc' = [proc EXCEPT ![Child] = "live"]
  /\ \E g \in {FinalGroup(opts), "parent"} :
       /\ g = FinalGroup(opts) \/ FinalGroup(opts) = "other"
       /\ group' = [group EXCEPT ![Child] = g]
  /\ UNCHANGED <<env, edge, pipes, sig, fate>>

\* A process forks; the new one inherits its ends and its group.  A fork does
\* not complete while a signal is pending.
ForkKin(p, k) ==
  /\ proc[p] = "live" /\ sig[p] = "none" /\ proc[k] = "none" /\ k \in MayFork[opts]
  /\ proc' = [proc EXCEPT ![k] = "live"]
  /\ group' = [group EXCEPT ![k] = group[p]]
  /\ ends' = [s \in Streams |-> IF p \in ends[s] THEN ends[s] \cup {k} ELSE ends[s]]
  /\ UNCHANGED <<env, edge, pend, sig, fate>>

\* setsid or setpgid by the child's program or by kin, for instance a daemon's.  The
\* leader of a session can do neither.  Groups matter only where kill looks for one.
ProcMoves(p) ==
  /\ proc[p] = "live" /\ TargetIsGroup
  /\ ~(p = Child /\ opts.isolated) /\ group[p] # "moved"
  /\ group' = [group EXCEPT ![p] = "moved"]
  /\ UNCHANGED <<env, edge, pipes, proc, sig, fate>>

\* A process writes to its stdout or stderr (a full pipe refuses the write: the
\* child's ends are non-blocking too).  The pipe wakes epoll when it was empty,
\* the least any kernel does.
ProcWrites(p, s) ==
  /\ proc[p] = "live" /\ p \in ends[s] /\ s \in slots
  /\ pend[s] < PipeCap
  /\ pend' = [pend EXCEPT ![s] = @ + 1]
  /\ edge' = IF pend[s] = 0 THEN edge \cup {s} ELSE edge
  /\ UNCHANGED <<env, ends, procs>>

\* A process reads its stdin; the pipe wakes epoll when it was full.
ProcReads(p) ==
  /\ proc[p] = "live" /\ p \in ends["stdin"] /\ pend["stdin"] > 0
  /\ pend' = [pend EXCEPT !["stdin"] = @ - 1]
  /\ edge' = IF pend["stdin"] = PipeCap THEN edge \cup ({"stdin"} \cap slots)
                                        ELSE edge
  /\ UNCHANGED <<env, ends, procs>>

\* p lets go of its ends in S; the last one to leave a pipe wakes epoll.
LeaveEnds(p, S) ==
  /\ ends' = [s \in Streams |-> IF s \in S THEN ends[s] \ {p} ELSE ends[s]]
  /\ edge' = edge \cup {s \in S \cap slots : ends[s] = {p}}

ProcCloses(p, s) ==
  /\ proc[p] = "live" /\ p \in ends[s]
  /\ LeaveEnds(p, {s})
  /\ UNCHANGED <<env, pend, procs>>

\* p ends with status x: the child becomes a zombie of its parent, kin are
\* reaped by init.
Terminate(p, x) ==
  /\ proc' = [proc EXCEPT ![p] = IF p = Child THEN "zombie" ELSE "gone"]
  /\ fate' = IF p = Child THEN x ELSE fate
  /\ sig' = [sig EXCEPT ![p] = "none"]
  /\ LeaveEnds(p, Streams)
  /\ UNCHANGED <<env, pend, group>>

\* exit, or _exit(127) when chdir or execve fails in the forked child.
ProcExits(p) == Alive(p) /\ Terminate(p, "exited")

\* SIGPIPE (reset to its default in the child) on a write to a closed pipe.
ProcBrokenPipe(p, s) ==
  /\ proc[p] = "live" /\ p \in ends[s] /\ s \in Outputs \ slots
  /\ Terminate(p, "sigpipe")

\* SIGKILL cannot be caught; SIGTERM ends the process or is handled.
ProcKilled(p) == Alive(p) /\ sig[p] = "KILL" /\ Terminate(p, "sigkill")
ProcTermed(p) == Alive(p) /\ sig[p] = "TERM" /\ Terminate(p, "sigterm")
ProcCatches(p) ==
  /\ Alive(p) /\ sig[p] = "TERM"
  /\ sig' = [sig EXCEPT ![p] = "none"]
  /\ UNCHANGED <<env, edge, pipes, proc, group, fate>>

\* Another thread's waitpid(-1), or SIGCHLD ignored, takes the zombie away.
ExternalReap ==
  /\ "reaper" \in Faults /\ proc[Child] = "zombie"
  /\ proc' = [proc EXCEPT ![Child] = "gone"]
  /\ UNCHANGED <<env, edge, pipes, group, sig, fate>>

\* start_time is taken after the first wait_step.  Time beyond the last
\* threshold is not told apart.
Tick ==
  /\ InLoop /\ opts.timed /\ elapsed < MaxElapsed
  /\ elapsed' = elapsed + 1
  /\ UNCHANGED <<opts, pc, thread, events, slots, to_write, edge, pipes,
                 procs, sent>>

\* The call has returned and no process is left.
Finished ==
  /\ Returned /\ \A p \in Procs : ~Alive(p)
  /\ UNCHANGED vars

-----------------------------------------------------------------------------

Top == TopNotDue \/ TopTerm \/ TopKill \/ TopEscalate \/ TopDueIdle

Handler == ReadData \/ ReadWouldBlock \/ ReadEof
             \/ WriteData \/ WriteWouldBlock \/ WriteDone

Thread ==
  \/ SpawnFails \/ SpawnChild \/ SetupFails \/ Register
  \/ FirstWaitStep \/ WaitFails \/ WaitStep \/ WaitBlocking
  \/ Top \/ PollEvents \/ PollFails \/ Handler \/ IoFails

Process(p) ==
  \/ \E s \in Outputs : ProcWrites(p, s) \/ ProcBrokenPipe(p, s)
  \/ ProcReads(p)
  \/ \E s \in Streams : ProcCloses(p, s)
  \/ ProcExits(p) \/ ProcKilled(p) \/ ProcTermed(p) \/ ProcCatches(p)
  \/ ProcMoves(p)

Environment ==
  \/ ChildExec
  \/ \E p \in Procs, k \in Kin : ForkKin(p, k)
  \/ \E p \in Procs : Process(p)
  \/ ExternalReap \/ Tick

Next == Thread \/ PollIdle \/ Environment \/ Finished

\* The thread is scheduled, a timeout that can expire does, time passes and
\* SIGKILL ends a process.  Nothing is assumed of what the child does, nor of
\* EINTR.
Fairness ==
  /\ WF_vars(Thread)
  /\ WF_vars(PollIdle /\ MayExpire)
  /\ WF_vars(Tick)
  /\ \A p \in Procs : WF_vars(ProcKilled(p))

Spec == Init /\ [][Next]_vars /\ Fairness
-----------------------------------------------------------------------------
(* Properties.                                                              *)

\* Every variable keeps its type.
TypeOK ==
  /\ opts \in Options
  /\ pc \in {"start", "register", "first", "top", "reap", "poll", "dispatch",
             "block", "ok", "err"}
  /\ status_raw \in Status \cup {Running} /\ fate \in Status \cup {Running}
  /\ kill_state \in {"None", "TermSent", "KillSent"}
  /\ timed_out \in BOOLEAN /\ hit \in BOOLEAN
  /\ poll_timeout \in {"forever", "deadline", "short"}
  /\ batch \subseteq Streams /\ cur \in Streams \cup {NoStream}
  /\ slots \subseteq opts.pipes /\ edge \subseteq slots
  /\ to_write \in 0..StdinLen
  /\ pend \in [Streams -> 0..PipeCap]
  /\ ends \in [Streams -> SUBSET Procs]
  /\ proc \in [Procs -> {"none", "setup", "live", "zombie", "gone"}]
  /\ group \in [Procs -> {"parent", "own", "other", "moved"}]
  /\ sig \in [Procs -> {"none", "TERM", "KILL"}]
  /\ elapsed \in 0..MaxElapsed
  /\ sent \in Seq([sig : {"TERM", "KILL"}, at : 0..MaxElapsed,
                   reaped : BOOLEAN])

\* The edge-triggered contract of Reactor ("all handlers MUST drain their
\* sources until EAGAIN"): whenever the thread enters epoll_wait, every open
\* stream that is ready is on the ready list, so no readiness is ever lost.
NoLostWakeup ==
  pc = "poll" => \A s \in slots : Ready(s) => s \in edge

\* What the CancelPolicy of the call allows wait_loop to send: nothing before
\* the deadline, nothing for None, one SIGKILL for Kill, one SIGTERM and then,
\* once the grace period after the deadline is over, one SIGKILL for Graceful.
CancelContract ==
  /\ sent # <<>> => opts.timed
  /\ \A i \in 1..Len(sent) : sent[i].at >= Deadline
  /\ opts.cancel = "None" => sent = <<>>
  /\ opts.cancel = "Kill" =>
       Len(sent) <= 1 /\ \A i \in 1..Len(sent) : sent[i].sig = "KILL"
  /\ opts.cancel = "Graceful" =>
       /\ Len(sent) <= 2
       /\ Len(sent) >= 1 => sent[1].sig = "TERM"
       /\ Len(sent) = 2 => /\ sent[2].sig = "KILL"
                           /\ sent[2].at > Deadline + Grace

\* Output.timed_out is true of every run whose child died of a signal that
\* wait_loop sent.
KilledIsReported ==
  pc = "ok" /\ status_raw \in {"sigterm", "sigkill"} => timed_out

\* A successful run has captured everything: when it returns, each captured
\* pipe has no writer left and nothing in it, unless early_exit cut stdout
\* short; and stdin was written in full unless its readers went away.
CompleteIo ==
  pc = "ok" =>
    /\ \A s \in opts.pipes \cap Outputs :
         \/ ends[s] = {} /\ pend[s] = 0
         \/ s = "stdout" /\ hit
    /\ "stdin" \in opts.pipes => to_write = 0 \/ ends["stdin"] = {}

\* A successful run that waits leaves no zombie, and the status it reports is
\* the one the child ended with.
ReapedWithStatus ==
  pc = "ok" /\ opts.wait =>
    proc[Child] = "gone" /\ status_raw = fate /\ fate # Running

\* Without a failing system call the run does not fail: in particular
\* wait_loop never waits again for a child it has already reaped.
NoSpuriousError ==
  Faults = {} /\ Valid(opts) => pc # "err"

KillSent == \E i \in 1..Len(sent) : sent[i].sig = "KILL"

\* CancelPolicy::Kill / Graceful ("Send SIGKILL"): once wait_loop counts the
\* SIGKILL as sent, a child that is still there has it pending, unless kill looks
\* for it in a group and its program has gone to another one.
KillReachesChild ==
  KillSent => (Alive(Child) /\ group[Child] # "moved" => sig[Child] = "KILL")

\* CancelPolicy::Kill / Graceful: SIGKILL to a group that the child leads is pending
\* for everybody who has stayed in it, whatever was forked, ended or moved before or
\* meanwhile.
KillReachesGroup ==
  opts.leader = "self" /\ KillSent =>
    \A p \in Procs : Alive(p) /\ group[p] # "moved" => sig[p] = "KILL"

\* The signals are not late: an iteration that finds the deadline passed and the
\* policy Kill, or the grace period over and SIGTERM sent in an earlier iteration,
\* does not go on before a child that is still there (and has not left the group in
\* which kill looks for it) has SIGKILL pending.
DeadlineObeyed ==
  [][ pc = "top" /\ pc' = "reap" /\ Due /\ Alive(Child) /\ group[Child] # "moved"
      /\ \/ opts.cancel = "Kill"
         \/ opts.cancel = "Graceful" /\ kill_state # "None" /\ elapsed > Deadline + Grace
      => sig'[Child] = "KILL" ]_vars

\* p can read, or write, at its end of s without waiting for the parent.
CanMove(p, s) ==
  Alive(p) /\ IF s = "stdin" THEN pend[s] > 0 ELSE pend[s] < PipeCap

\* Parent and child never wait for each other ("stdin" larger than its pipe while
\* the child fills its output): when epoll_wait has nothing to report, a pipe is
\* open, and each open pipe is held by processes that are there and not blocked on it.
NoMutualWait ==
  pc = "poll" /\ (\A s \in edge : ~Ready(s)) =>
    /\ slots # {}
    /\ \A s \in slots : ends[s] # {} /\ \A p \in ends[s] : CanMove(p, s)

\* wait_loop returns once every process is gone: no readiness of the hang-up
\* is lost, no wait blocks on a child that was already reaped.
ReturnsWhenDone ==
  (pc # "start" /\ \A p \in Procs : ~Alive(p)) ~> Returned

MustKill == Due /\ opts.cancel # "None"

\* A due run that keeps looping ends its child: SIGKILL is sent, and reaches
\* it, as long as the thread comes back to the top of the loop and the child does
\* not leave the group in which kill looks for it.
TimeoutKills ==
  []<>(pc = "top") /\ [](group[Child] # "moved") => (MustKill ~> ~Alive(Child))

\* "Block until completion or timeout": a due run ends its child.
TimeoutEnforced == MustKill ~> ~Alive(Child)

\* Who has changed its group and still holds an open pipe, or is the child.
Strays ==
  {p \in Procs : /\ group[p] = "moved"
                 /\ (p = Child /\ Alive(p)) \/ \E s \in slots : p \in ends[s]}

\* Once SIGKILL was sent to a group that the child leads the run ends, unless a process
\* that has left the group (a daemon) still holds a pipe: nobody else can hold it up,
\* neither by a pipe nor by handling signals.
KillEndsRun ==
  opts.leader = "self" /\ KillSent /\ Strays = {} ~> Returned

ChildState ==
  CASE proc[Child] \in {"setup", "live"} -> "running"
    [] proc[Child] = "zombie" -> "ended"
    [] proc[Child] = "gone" -> "reaped"
    [] OTHER -> "none"

\* Every step of the thread, the processes and the clock is one that module Spawn
\* promises of a call of spawn(), or none of its business.
Contract == INSTANCE Spawn WITH
  child <- ChildState, now <- elapsed, open <- slots, status <- status_raw,
  result <- IF Returned THEN pc ELSE "none"
KeepsContract == Contract!Spec
=============================================================================
