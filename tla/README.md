# A TLA+ model of coreshift-lowlevel

`coreshift-lowlevel` is a Rust library of Linux primitives: it starts a child
process with `posix_spawn` or `fork`, moves data through its pipes without
blocking, waits for descriptors with an edge-triggered epoll instance, watches
files with inotify and turns signals into a shutdown flag. This directory models
the parts whose correctness depends on the order of steps, checks them with TLC
and proves the central invariants with TLAPS.

Contents: [inventory](#inventory), [modules](#modules),
[WaitLoop](#waitloop-one-blocking-spawn), [Drain](#drain-and-capture-the-data),
[SpawnSetup](#spawnsetup-descriptors), [Shutdown](#shutdown-a-flag-set-by-signals),
[Reactor](#reactor-and-watcher-descriptors-and-tokens),
[Sigchld](#sigchld-children-behind-one-signal), [Inotify](#inotify-a-queue-of-events),
[runs](#runs), [fairness](#fairness), [proofs](#proofs),
[what is only model-checked](#what-is-only-model-checked),
[findings](#findings), [not modelled](#not-modelled), [plan](#plan).

## Inventory

| part | source | state it keeps | operations | what makes it hard |
|---|---|---|---|---|
| wait loop | `spawn/mod.rs` 632-674, 1056-1185 | `status_raw`, `kill_state`, `timed_out`, the poll timeout, the batch of events | `spawn`, `spawn_start`, `wait_loop`, `register_with_reactor` | the child, the kernel and the clock move between any two system calls; signals race with exit and with `setsid`; every `?` leaves a child behind |
| process handle | `spawn/mod.rs` 240-353 | a pid | `wait_step`, `wait_blocking`, `kill`, `kill_pgroup` | a pid means nothing after it was reaped; ECHILD, ESRCH and EPERM are told apart differently |
| spawn backends | `spawn/mod.rs` 571-1031 | pipes, file actions, attributes | `resolve_backend`, `spawn_posix_internal`, `spawn_fork_internal` | the child's steps run concurrently with the parent under `fork`; partial failure |
| spawn options | `spawn/mod.rs` 356-570, `sys/mod.rs` 140-420 | plain data | the builder, `ExecContext` | validation only |
| drain state | `io/{drain,buffer,writer}.rs` | `FdSlot`s, the two output Vecs, stdin buffer and offset, `early_exit` | `new`, `read_fd`, `write_stdin`, `is_done`, `into_parts`, the `handle_*` of `wait_loop` | loops until EAGAIN, limit inside a chunk, short writes, a callback in the middle of the loop |
| reactor | `reactor/mod.rs` | epoll descriptor, token counter, event buffer | `add`, `del`, `wait`, `read_raw`, `write_raw`, the drop of an `Fd` | edges are reported once; events of dropped descriptors, reused numbers, copies held by another process, small batches |
| signalfd | `reactor/mod.rs` 268-311 | a descriptor and its token, the thread's signal mask | `setup_signalfd`, `drain_signalfd` | a setup that stops half way, or is repeated; many ends behind one signal |
| shutdown flag | `sys/mod.rs` 60-139 | a global pointer, two handlers | `install_shutdown_flag` | a signal between two steps of the installation, concurrent callers |
| inotify | `inotify.rs` | a descriptor | `add_watch`, `read_events`, `decode_events` | cut events, overflow, errors after a partial read |
| probes | `sys/mod.rs` | none | procfs and stat readers, `readahead`, `parse_proc_status` | none that depends on order |

How they interact. `spawn` is one blocking call of one thread: it makes a
`Reactor`, asks a backend for a child (`spawn_start`), puts the parent's pipe ends
into a `DrainState`, registers them with the reactor and runs `wait_loop`, which
alternates between the process handle (`wait_step`, `kill`), the reactor (`wait`)
and the handlers of the drain state. The child shares the pipes with the parent,
processes it forks inherit them, and the parent's other threads share its pids
(`waitpid(-1)`), its descriptors and its signal dispositions. `DrainState`,
`BufferState`, `WriterState`, `Reactor` and `Process` are public and can be driven
by a caller's own loop: module Drain models them that way, under a caller that
calls in any order, and module Reactor under one that drains what it is told of.
`setup_signalfd` and `setup_inotify` put one more descriptor into the caller's
reactor; the caller compares the tokens of a batch with theirs and calls
`drain_signalfd`, then `wait_step` of each child, or `read_events`.

What makes each part correct:

* wait loop: no readiness is lost; the policy decides which signals are sent and
  when; SIGKILL reaches the child; a successful run captured everything and
  reaped its child, once, with the right status; the call returns.
* drain state: what is captured is a prefix of what was written, as long as the
  limit allows; `early_exit` sees it once and in order; stdin arrives without gap
  or repetition; a stream is given up only when it is exhausted; `is_done` becomes
  true.
* spawn backends: each child descriptor ends up where it belongs, in each backend.
* reactor: an event bears the token of the descriptor that is ready; a caller that
  drains is told of everything, although epoll reports edges only.
* signalfd: one descriptor and one token at most; no child's end goes unnoticed.
* shutdown flag: a signal after a successful installation sets the flag; a failed
  one leaves the previous handlers in place.
* inotify: every event the kernel queued is returned once and in order, and a
  program that keeps watching gets it.

`PROJECT.json` lists the hazards of the code at their lines and the properties
that cover them.

## Modules

| module | models | kind |
|---|---|---|
| `WaitLoop` | `spawn()` and `wait_loop()`, the process handle, the reactor and drain handlers as the loop uses them; the child, its kin, pipes, epoll, the clock; refines `Spawn` | system |
| `Spawn` | what one call of `spawn()` promises its caller | abstract specification |
| `MCWaitLoop` | sets of options for the runs | model checking |
| `WaitLoopProofs` | theorems about `WaitLoop`, the refinement among them | proofs |
| `Capture` | what a `DrainState` promises about captured output | abstract specification |
| `Drain` | `DrainState`, `BufferState`, `WriterState`; a caller and the child's ends of the pipes; refines `Capture` | component |
| `MCDrain` | root of the runs of `Drain` | model checking |
| `DrainProofs` | theorems about `Drain`: the refinement, and that its handlers are those of `WaitLoop` | proofs |
| `SpawnSetup` | the descriptors of `spawn_posix_internal` and `spawn_fork_internal`: parent, child, other threads | component |
| `MCSpawnSetup` | root of the run of `SpawnSetup` | model checking |
| `SpawnSetupProofs` | theorems about `SpawnSetup` | proofs |
| `Shutdown` | `install_shutdown_flag`, its handler, signals | component |
| `MCShutdown` | symmetry for the runs of `Shutdown` | model checking |
| `ShutdownProofs` | theorems about `Shutdown` | proofs |
| `Watcher` | a level-triggered watcher, which a reactor promises to a caller that drains | abstract specification |
| `Reactor` | `Reactor` and `Fd` with several descriptors, epoll, a caller, a forked process; refines `Watcher` | component |
| `MCReactor` | root of the run of `Reactor` | model checking |
| `ReactorProofs` | theorems about `Reactor`, the refinement among them | proofs |
| `Sigchld` | `setup_signalfd`, `drain_signalfd`, children, a program that reaps them from its loop | component |
| `MCSigchld` | root of the run of `Sigchld` | model checking |
| `SigchldProofs` | theorems about `Sigchld` | proofs |
| `Inotify` | `setup_inotify`, `add_watch`, `read_events`, `decode_events` in the loop of `examples/watch_temp.rs` | component |
| `MCInotify` | names of files, and a lossy conversion of them, for the run of `Inotify` | model checking |
| `StreamProofs` | theorems about the packed stream: `Encode`, `Decode`, `Fitting` | proofs |
| `InotifyProofs` | theorems about `Inotify` | proofs |

The definitions marked `Mutant:` in a comment are plausible mistakes; no
specification uses them. Each stands in front of the definition it distorts and
is substituted for it to see that the property it names notices.

The split follows one question: what does control depend on? In `WaitLoop` a
pipe is a number of units and data has no identity, and the child is created in
one step. The sizes of chunks, the
limit and the positions of bytes do not change which system call comes next in
`wait_loop`, except through "would block", "end", "error" and `early_exit`, and
those are all nondeterministic there; that the handlers of `Drain` make no other
steps is a theorem, `HandlersDoAsTheLoopExpects`. `Drain` then keeps the identity of every
unit (its position in its stream) and leaves the wait loop out, and `SpawnSetup`
takes the one step `SpawnChild` apart, down to descriptor numbers. `WaitLoop` knows its
three streams by name; `Reactor` drops that and gives epoll, tokens and numbers all the
freedom they have. `Sigchld` and `Inotify` are two users of a reactor, each with what the
kernel does behind its descriptor. `Shutdown` shares nothing with the rest but the
process.

### WaitLoop: one blocking spawn

An action of the thread is one system call with the local computation up to the
next one. `pc` names the next call:

| `pc` | code | actions |
|---|---|---|
| `start` | `Reactor::new`, `spawn_start` | `SpawnFails`, `SpawnChild` |
| `register` | `DrainState::new`, `register_with_reactor` | `SetupFails`, `Register` |
| `first` | `wait_step` before the loop | `FirstWaitStep`, `WaitFails` |
| `top` | deadline and signals, 1073-1123 | `TopNotDue`, `TopTerm`, `TopKill`, `TopEscalate`, `TopDueIdle` |
| `reap` | `wait_step` and the `is_done` test, 1125-1148 | `WaitStep`, `WaitFails` |
| `poll` | timeout, `Reactor::wait`, 1150-1161 | `PollEvents`, `PollIdle`, `PollFails` |
| `dispatch` | one `read`/`write` of a handler, 1163-1184 | `ReadData`, `ReadWouldBlock`, `ReadEof`, `WriteData`, `WriteWouldBlock`, `WriteDone`, `IoFails` |
| `block` | `wait_blocking` | `WaitBlocking`, `WaitFails` |
| `ok`, `err` | the call has returned | `Finished` |

`status_raw`, `kill_state` and `timed_out` are the code's variables. `slots` are the
streams whose `FdSlot` is `Some`, `to_write` what is left of stdin, `batch` the events of
the last `epoll_wait` not yet handled. `sent` records the calls of `kill` that returned
Ok, with the time and whether the pid had been reaped.

The kernel: `edge` is epoll's ready list. A pipe enters it when a write makes it
non-empty, a read makes it non-full, or its last far end closes. These are the
fewest wake-ups a Linux kernel produces; a kernel that produces more makes
strictly more streams visible. `epoll_wait` polls the list again and reports what is
still ready (`PollEvents`). A process is forked (`setup`: `setsid`, `setpgid` and
`execve` are still to come, so a signal to its group finds nobody), `live`, a `zombie`
or `gone`. Signals are pending until the process dies of them or, SIGTERM only,
handles them.

The environment are the child's program and what it starts: each of them may write, read,
close, fork (`ForkKin`), leave its process group by `setsid` or `setpgid` (`ProcMoves`), exit, break the
pipe, ignore SIGTERM, hold a pipe after the child's death. A process that has left the group,
and what it forks then, is "moved". Where it went is not followed: it may also have
come back, so a `kill` of the group finds any subset of those that moved (`Found`). Other
signals than those of `wait_loop` and SIGPIPE, ends of pipes passed to unrelated processes, and
further children beyond `Kin` are left out. `Faults` selects
which system calls may fail: `spawn`, `setup`, `poll`, `io`, `reaper` (somebody else's
`waitpid`), `eperm` (of `kill`), `eintr` (of `epoll_wait`).

Abstractions worth knowing:

* Time is a counter of ticks up to `Deadline + Grace + 1`, beyond which the code
  compares with nothing. A tick is longer than the millisecond that rounding of
  the poll timeout can cost.
* `ProcMoves` is taken only where the target of `kill` is a group; elsewhere groups decide nothing.
* `poll_timeout` has three values: no timeout, the time left to the deadline, and
  the short poll (at most 100 ms) after the deadline.
* The three `write` outcomes "all written", "EPIPE" and "nothing to write" end
  stdin in the same way and are told apart only by guards.
* A background spawn (`wait: false`) returns the handle; what the caller does with
  it is outside.

`Spawn` is the contract of the call without pipes, epoll or system calls: one child is
started, the signals go out as the `CancelPolicy` has them and not before their time,
the child is reaped at most once, with the status it ended with, a call that waits
returns Ok only when every stream is closed and the status known, and it returns once.
Somebody else may reap the child (`Lose`) and the call may fail at any point (`Fail`).
`WaitLoop` implements it (`KeepsContract`) with `child <- ChildState` (forked and live are
"running"), `open <- slots`, `status <- status_raw`, `now <- elapsed`. Handlers, the epoll rounds
and the pipes are steps the contract does not see.

### Drain and Capture: the data

`Drain` lets a caller call `read_fd` and `write_stdin` for any stream in any order. A call
is a sequence of steps, one system call each, between which the child writes,
reads and closes. A unit is its position in its stream; 0 would be the zero
padding of `Vec::resize`. `buffer`, `seen` (what `early_exit` was shown), `off` and `buf` are the
code's state; `taken` and `pushed` are history. `failing` says whether system calls
fail in this behaviour, so that one specification serves the safety properties
with errors and the liveness property without.

`Capture` is the promise: per stream `kept` is extended by the next units while they
fit, else they are dropped while `Len(kept) = Limit`; a stream is closed only when
everything written was taken, or cut by the caller. `Drain` implements it with
`kept <- buffer` and `open <- slots \cap Outputs`.

### SpawnSetup: descriptors

A table maps each number up to `MaxFd` to an open file; a pipe end is named by its stream
and side. `table` and `cloexec` are the parent's, `child` and `ccloexec` the child's copy, `ends` is the
struct `Pipes`. `actions` is what the child still has to do before exec: for `posix_spawn` the
file actions the parent has added, for `fork` the code after `pid == 0`. Both use the
same steps `ChildDup2`, `ChildClose`, `ChildCloseRange`, so that the two backends are
compared by one set of properties.

`pc` follows the code: `pipes` (`Pipes::new`, then the file actions or `fork`), `list` and
`scan` (`/proc/self/fd`, one number per step of `readdir`), `spawn`, `vfork` (`posix_spawn` returns
when the child has run exec or failed), `drop`, `new` (`DrainState::new`), `ok`, `err`. An error
return closes whatever is in `Pipes`, either by `close_all` or by its drop: `Fail`.

Other threads open and close a descriptor, with or without `O_CLOEXEC`, between any
two steps. Open files take the lowest free number, so with 0, 1 or 2 closed a pipe
gets one of these numbers, and a full table makes `pipe2` and `open` fail. `leaky`
records the three cases in which a descriptor is inherited after all: the listing
or an `addclose` failed, the kernel has no `close_range`, or another thread opened
a file without `O_CLOEXEC` after its number was passed.

`StdioConnected` says what holds when 0, 1 and 2 are open in the parent. With one of
them closed it can fail: `close_all` or `addclose` closes a pipe end that is already at its
target. `OnlyStdio` and `ParentKeepsItsEnds` are checked for every subset.

### Shutdown: a flag set by signals

Each call of `install_shutdown_flag` has its own flag and takes one step per `sigaction` or
store: `InstallInt`, `InstallTerm`, `Publish` or `Restore`. A signal arrives at any point (`Arrive`) and its
handler runs in two steps, the load of the pointer and the store into the flag,
interleaved with everything, another handler included. `broken` records that restoring SIGINT failed, `last`
the last success, for the properties. `OnlySuccessFlips` is about the handlers that run while nothing, or
something else, is published: in the window between installation and publication, and after
a failure that left a handler behind, they flip no flag of a call that has not succeeded. With `Exclusive` callers take turns; without, they run at once.
Memory is sequentially consistent: the handler loads the pointer with
`Relaxed`, but the flags are static and initialised before they are published, so
that the order of other stores does not matter.

A signal that arrives between the installation and the publication sets the previous
flag or, on a first installation, none; `FutureSignalsFlip` is therefore about signals
that arrive after a success.

### Reactor and Watcher: descriptors and tokens

A file is what an open descriptor refers to. The caller opens it at the lowest free
number (`Open`), registers it (`Add`, `AddFails`), gives it up with `del` (`Del`), by dropping the
`Fd` (`Drop`), or from the handler at end of file as `DrainState` does (`ReadEof`), and may
do all of this in the middle of a batch. `reg` is epoll's interest list: it is keyed by
file, not by number, and an entry lives until *every* copy of the descriptor is
closed. `copies` are those of a process another thread forked and which has not called
exec yet; so events can arrive for a file the caller dropped.

`pc` follows `wait` and the loop in the documentation of `Reactor`: `loop`, `epoll_wait`,
`dispatch` (one event of the batch at a time), `handler` (one `read` or `write` at a time until it
would block). As in `WaitLoop` the kernel produces the fewest wake-ups. `WaitReports` returns
any non-empty set of at most `max_events` ready files, which includes what epoll's
order allows and covers every smaller batch.

`Watcher` is the promise: what is ready stays so until it is drained, `wait` reports
something whenever something watched is ready, and no edges are mentioned. `lingering` are dropped
files the kernel still knows: they may take the place of others in a batch, which is
all they can do. `Reactor` implements it with `watched` the files with a token, `told` those
whose token is in the batch, `unserved` those that are ready.

### Sigchld: children behind one signal

`setup_signalfd` is four steps: the mask (`BlockSigchld`, `BlockFails`), `signalfd` (`MakeSignalfd`, `MakeFails`), `epoll_ctl`
(`AddSignalfd`, `AddFails`), the two fields (`Store`, which drops the signalfd of an earlier
setup). A child may end between any two. SIGCHLD is one bit: `Ends` wakes epoll only if it was not pending, and while the mask does not block it the
signal is discarded (`lost`). The caller's loop is `Wait`, `Dispatch`, `Drain` until EAGAIN, and `Poll` of
every child. It must drain *before* it polls; in the other order a child that ends in
between would be lost. `Renew` drops the whole `Reactor` and starts with another.

### Inotify: a queue of events

The queue of the kernel is a sequence of events with serial numbers. The packed
stream is a sequence of cells: `Base` cells of header, then the name and its padding
with zeros, to whole headers as the kernel does. `DecodeStep` is one turn of the loop of
`decode_events`, over its two variables, the offset and the events so far; `Decode` repeats it
as often as headers fit into the buffer, and a turn that breaks changes nothing.
`Fitting` is the reference: the events that fit whole. `Read`
is one `read(2)` of `read_events`, which takes as many whole events as fit in the buffer,
decodes them and appends them to `all_events`; `ReadFails` drops what the call had
taken. At `MaxQueue` the kernel queues one overflow event and discards the rest until it
is is read. A deleted object takes its watch along (`Removed`).

A name is a sequence of bytes, none of them zero; nothing else is known of it, for a file may be called
anything. `decode_events` cuts the padding off (`Unpadded`) and hands the rest to
`String::from_utf8_lossy`, here the constant operator `FromUtf8Lossy`, of which nothing is assumed: the
theorems hold for any function. So the properties never say that a name comes out as it
was. They compare with `Told(e)`, the event with what the conversion makes of *its own* name. In the
run, `Replaced` turns every byte that is not UTF-8 into the replacement character, and two of
the three names become the same one.

The loop is that of `examples/watch_temp.rs`; `ReadFails` may also go on, as a caller with
other error handling would.

## Runs

All runs of `WaitLoop` use one child. `loop` has one process forked, which is enough
for an inherited pipe. Where a group is killed (`leader = "self"`, `Kill`) two processes are forked, of
which one may be forked by the other (a daemon that forks twice), stay in the group while
the other leaves, or be forked outside it. The bound is `MayFork`, which gives the processes that are forked
under each of the options: two there, none with all three pipes or under faults, else one.

| run | checks | shows |
|---|---|---|
| `loop` | `CancelContract`, `KilledIsReported`, `KillReachesChild`, `KillReachesGroup`, `NoSpuriousError`, `NoLostWakeup`, `NoMutualWait`, `CompleteIo`, `DeadlineObeyed`, `TimeoutKills`, `KillEndsRun`, `ReturnsWhenDone` | the three cancel policies with and without a deadline and `early_exit`, a child that leads its group, all eight sets of pipes, stdin longer than its pipe, partial reads and writes, a child that forks, processes that leave the group: SIGKILL reaches all who stayed in it, and ends the run unless one who left holds a pipe |
| `faults` | `TypeOK`, `ReapedWithStatus`, `KeepsContract` | both backends, foreign groups, background and rejected spawns, every fault; the refinement of `Spawn` |
| `capture` | `CapturedPrefix`, `DoneMeansTaken`, `EarlyExitSeesAll`, `StdinInOrder`, `Captures`, `DoneWhenClosed` | the handlers, called in any order, over every set of descriptors |
| `setup` | `TypeOK`, `StdioConnected`, `OnlyStdio`, `ParentKeepsItsEnds` | both backends, every set of pipes, every subset of 0-2 open, failing calls, another thread |
| `shutdown` | `InstalledStays`, `AllOrNothing`, `OnlySuccessFlips`, `FutureSignalsFlip` | three calls in turn, every failure of `sigaction`, two signals |
| `reactor` | `EventsNameTheirFile`, `ReadinessKept`, `Served`, `Watches` | a reader and a writer, opened, added, deleted, dropped and reusing each other's number while a batch is handled; copies in a forked process; hang-ups; the refinement of `Watcher` |
| `sigchld` | `OneSignalfd`, `NoExitUnseen`, `ExitsNoticed` | three children that end at any point of three setups, each of which may fail at any call, and new reactors |
| `inotify` | `TruncationIgnored`, `NoSilentLoss`, `EdgeKept`, `Delivered` | changes and removals at any point of the loop, a queue that overflows, buffers shorter than the queue, failing reads, names that are not UTF-8 |
| `nocapture`, `setsid_race`, `combined`, `shutdown_race` | one property each, violated | see [findings](#findings) |

The type invariants of the other five components are theorems (`TypeCorrect` of each proof
module) and no run repeats them.

Bounds.

* `Deadline = Grace = 1`: the clock then takes the values before the deadline, at it,
  within the grace period, and past it, which are all the comparisons the code
  makes.
* `PipeCap = 2` with `StdinLen = 3` in `loop`: a pipe is empty, full or neither, a write is cut
  short, and stdin does not fit. `faults` needs `PipeCap = 1` only: every transition wakes epoll.
* `Limit = 2`, `ReadChunk = 2`, `DropChunk = 1`, `MaxOut = 3`: a read that fits, one cut by the
  limit, one that ends exactly at it, and units to discard afterwards.
  `WriteChunk = PipeCap = 2`, `StdinLen = 3`: full and short writes, a last chunk that is
  shorter than the rest, and EAGAIN.
* `MaxOut` bounds what the child writes in `Drain`; the theorems hold for every value.
* `MaxFd = 10` is exactly what the largest call needs: three standard descriptors, six
  pipe ends, the directory and one file of another thread. Every smaller call
  leaves room, and closed standard descriptors shift all numbers. `MaxOther = 1`.
* Three calls of `install_shutdown_flag`: one that succeeded, one in progress and one to
  come; they are interchangeable and the symmetry is used. `MaxSignals = 2` gives two
  handlers that overlap. `shutdown_race` needs two calls.
* `reactor` has one file of each direction: the reuse of a number needs two, and the
  roles are then all there are. `MaxEvents = 2` allows batches of both and of one. `MaxToken = 4` lets
  a file be registered again after its first token was given up; `MaxLevel = 1`
  makes every fill an edge. The theorems hold for every value of all four.
* `sigchld`: three children, so that two ends are merged while a third comes
  between the drain and the polls; three setups, so that a failed and a successful one
  precede the last.
* `inotify`: `Base = 2`, `BufLen = 6` and names of one and two cells: an event takes two, four or
  six cells, a buffer is filled exactly, or not, and one event can fill it. `MaxQueue = 2` with four
  events: the queue overflows, is read and overflows again. `TruncationIgnored` cuts the
  stream at every cell.
* Deadlock is checked except in the runs of `Shutdown`, `Sigchld` and `Inotify`, where the bounded
  calls, signals, children and events come to an end and a program that is told of nothing waits for ever. The
  state after the return of `spawn`, with every process gone, stutters through `Finished`; `Drain`
  and `Reactor` never stop because a caller may always call.

## Fairness

`WaitLoop`: weak fairness of the thread (it is scheduled), of `epoll_wait` returning when
its timeout has expired, of the clock, and of the kernel delivering SIGKILL.
Nothing is assumed about the child, its kin, or SIGTERM: they may do nothing for
ever. EINTR may, but need not, happen. No fairness is given to
particular actions of the thread, so a handler that always finds data may stay
in its loop; that is what the code does.

`Drain`: weak fairness of the running call and strong fairness of calling for each
open stream, which is a caller that keeps serving all of them (`wait_loop` does, by
`NoLostWakeup`). `DoneWhenClosed` is conditional on the far ends being closed.

`Reactor`: weak fairness of the caller's steps, and strong fairness of each ready file
being part of a batch: epoll moves what it reported to the end of its list, so that a
file is not passed over for ever. Other files, other ends and the forking thread
are free. `Served` is conditional on a caller that returns to `wait` again and again; a handler
whose peer always writes need not.

`Sigchld` and `Inotify`: weak fairness of the program's own steps. Nothing is assumed of
children, of setups being called, or of files being changed.

## Proofs

All theorems hold for every value of the constants that meets the named
assumptions: the child is not one of its kin, options have the fields of
`OptionType`, numbers are naturals, chunks, pipes and batches are not empty, the null
pointer is no flag, descriptor numbers go up to 3 at least (`close_range` starts there), the
set of files is finite, the name of a file has no zero byte and every event fits into the buffer of
`read_events`.

`WaitLoopProofs`:

* `TypeCorrect`. `TypeOK` is inductive. The one conjunct with content is
  `edge \subseteq slots`: every place that drops a slot also deregisters it.
* `WakeupsKept` (`NoLostWakeup`). The property speaks of `poll` only and is not
  inductive: while a batch is handled the streams in it are off the ready list.
  `Watched` adds that every open ready stream is on the list *or still in the batch*,
  from registration on. A handler may leave the batch only when its stream is
  not ready (EAGAIN) or no longer open; `HandledStaysWatched` states this once for
  all handlers.
* `CancelObeyed` (`CancelContract`). `Cancelling` ties `kill_state` to the history `sent`:
  how many signals were sent in each state, which ones, and that the deadline
  had passed.
* `ChildReaped` (`ReapedWithStatus`). `Accounted`: status known means reaped by this
  thread with the recorded fate; unknown means the child is not gone unless a
  stranger took it, in which case the next wait fails.
* `IoCompleted` (`CompleteIo`). `Captured`: a stream of the call without a slot is
  exhausted, or was cut by `early_exit`, and nobody can refill it, because it has no
  far end left.
* `KillsAreReported` (`KilledIsReported`). `Unsignalled`: as long as `timed_out` is not set, no
  process has a signal pending and nobody has died of one.
* `NoErrorOfItsOwn` (`NoSpuriousError`). `Unfailing`, with `Accounted`: without a foreign reaper a
  child that is gone was reaped here, and no wait comes after that.
* `KillsReach` (`KillReachesChild`) has a premise on the options, `Reachable`: the child is in no group of its
  own, or in one that `posix_spawn` has made. `Reached` keeps the child where the signals go.
  The property speaks of a child that has not left the group it leads.
* `KillsReachGroup` (`KillReachesGroup`), under the same premise for children that lead a group. The property
  speaks of every process that has not left the group. `Together`: such a process is in the
  group of the child, because it was forked by one that was, and one forked after SIGKILL
  cannot be there: its parent would have had the signal pending, with which a fork
  does not complete. Of those who left nothing is claimed.
* `SignalsInTime` (`DeadlineObeyed`), under the premise of `KillsReach` and if no signal is refused: `Counted` says that SIGKILL is in `sent` once
  `kill_state` is `KillSent`, so that an iteration that sends nothing has nothing left to send.
* `NobodyWaitsForTheOther` (`NoMutualWait`), without a premise. `Held`: a pipe is held by processes that are
  there, and `epoll_wait` is entered with a stream open. With `NoLostWakeup`, a round that
  has nothing to report means that no open pipe is ready, so its holders can move.
  This is the safety half of `ReturnsWhenDone`: when all processes are gone, `epoll_wait` has
  something to report.
* `SpawnKeepsContract`: `Spec => KeepsContract`, one step of the proof per action. `Cancelling` supplies
  that a signal is allowed, `Accounted` that what is reaped is what ended, `Captured` that Ok comes with
  every stream closed, and `Begun` that a signal the child dies of was sent and that only
  a call that waits enters the loop.

`DrainProofs`:

* `TypeCorrect`, of which `off \in 0..StdinLen` matters: no write goes past the buffer.
* `CaptureIsPrefix`, `EarlyExitMissesNothing`, `StdinIsPrefix` follow from `Faithful`, whose
  parts need each other: the position a read appends is that of the units taken,
  which equals the length of the Vec as long as the limit is not reached.
* `NothingGivenUpEarly` (`DoneMeansTaken`) is another part of `Faithful`.
* `DrainCaptures`: `Spec => Captures`, step by step, with `TypeOK` and `Faithful` as the
  invariants. A read is `Take`, end of file is `Close`, a write of the child is
  `Write`, and everything else stutters.
* `HandlersDoAsTheLoopExpects`: without errors every step of `Read` and `Write` is a step of
  `WaitLoop!Handler` or changes nothing `WaitLoop` sees, for every limit, chunk and pipe
  (`HandlersAgree`; no run has it as a property). A call that
  moves is `pc = "dispatch"` with the stream as `cur`; what a pipe holds is `wrote - taken`, or
  `unread` for stdin; the last write and the answer after it are one step of `WaitLoop`
  and two of `Drain`. The steps of `Drain` in which a call begins or the child acts are outside it.
  `Faithful` is needed: stdin has a slot only as long as there is a buffer to write.

`ShutdownProofs`:

* `TypeCorrect`, with the handler's guard against a null pointer, and `NoFailureFlips`
  (`OnlySuccessFlips`) need no assumption on the callers. `Published`: the pointer is null or the flag of a
  call that has succeeded, which stays so, and what a handler has loaded was the
  pointer of some earlier moment.
* `SuccessIsLasting`, `FailureUndone` and `SignalsFlip` assume `Exclusive`, and the run
  `shutdown_race` shows that they must. `Installing` relates the call in progress to the
  handlers: before its first step they are as the last success left them, after it
  SIGINT is installed and `saved` holds what a failure has to bring back. `Flipped` says of one signal what
  its handler has done so far: the pointer it loaded is the newest flag of its
  arrival or one published later.

`SpawnSetupProofs`, for every `MaxFd`, every set of streams and any number of descriptors of
other threads:

* `TypeCorrect` and `ParentEndsOnly` (`ParentKeepsItsEnds`) from `Sound`, whose parts are `TypeOK`, `Owned`
  and `Paired`. `Owned`: `Pipes` and the table agree in both directions, so that a number in `Pipes` is
  open and belongs to that end, and an end that is open is in `Pipes`. `Paired`: both ends of
  a pipe are there or neither, until the thread drops the child's.
* `NothingElseInherited` (`OnlyStdio`). `Listed`: above 2 only files of other threads can lack `FD_CLOEXEC`;
  those that `readdir` has passed are going to be closed by an action, and what the
  child has open is marked or about to be closed.
* `StdioIsConnected` (`StdioConnected`). If 0, 1 and 2 are open at the start they stay so (`Kept`), so
  every pipe is above 2. Then the actions of both backends are a `Plan`: no close of theirs
  touches 0, 1 or 2, no dup2 comes after a close of its source or after `close_range`
  (`Ordered`), and every wanted stream is connected by one. `PosixPlan` and `ForkPlan` show this of the two
  lists; the listing only appends closes. `Halfway` is the state of the child that carries it
  out: what is not connected yet still will be, and a pipe end above 2 is marked `FD_CLOEXEC`.

`ReactorProofs`, for every set of files, batch size, level and any fork:

* `TypeCorrect`; the conjunct that matters says that the token a caller holds is the one epoll
  has for that file.
* `EventsName` (`EventsNameTheirFile`) from `Tokens`: a token is new when it is handed out and
  registered for one file, and an event bears that of its file.
* `ReadinessIsKept` (`ReadinessKept`) is inductive together with the type invariant. A file leaves the
  ready list only into the batch, with a flag its handler asks for (a hang-up sets
  both), the batch only into a handler, and the handler only when it would block.
* `ReactorWatches`: `Spec => Watches`, the refinement. `Batch` adds that a caller that holds a registered
  file knows its token and that the events of a batch are of different
  registrations.

`SigchldProofs`, for any children and any number of setups:

* `NoSecondSignalfd` (`OneSignalfd`) from `Shape`, which says what is open at each step of a setup.
* `ExitsSeen` (`NoExitUnseen`) from `Told` (a pending SIGCHLD is on epoll's list, in the batch, or about to be
  drained; a setup under way has it for the new descriptor) and `Noted` (a child that ended
  left SIGCHLD pending unless it is about to be polled).

`StreamProofs`, for every header size, every list of events and every place where the stream is cut:

* `DecodeCut`: decoding the first `l` cells of an encoded list gives the events that fit into
  `l` cells whole, each as `Told`, whatever function `FromUtf8Lossy` is. The provers have no induction over an operator; `Induction` is stated for a
  *set* of numbers instead and follows from the well-foundedness of `<` on the naturals,
  by a least counterexample. `Recursion` gives a recursive function on `0..n` its solution and
  `SameRecursion` its uniqueness, from which the recursion equations of `Cells`, `FlattenSeq` and `Decode` follow.
  `EncodeContents` then says which cell of the stream is which cell of which event, and
  `TurnDecodes` that the k-th turn on a cut stream yields the k-th event or breaks
  because that event is cut.

`InotifyProofs`, for every queue length and buffer in which an event fits:

* `WholeEventsDecode` (`TruncationIgnored`) is `DecodeCut` for the queue of any reachable state.
* `NothingLostSilently` (`NoSilentLoss`) and `EdgesKept` (`EdgeKept`) from `Inv`, which joins them with `TypeOK` and
  `Shape` (before the descriptor is added there is no watch and no event; only
  `dispatch` has a batch). `Read` moves the events that fit from the queue to `all_events` because
  decoding what was encoded gives them back; `AccountedAppend`, `AccountedTold` and `AccountedWithout` say what queueing
  an event and losing the events of a failed call do to the account.

## What is only model-checked

Liveness (`ReturnsWhenDone`, `TimeoutKills`, `KillEndsRun`, `DoneWhenClosed`, `Served`, `ExitsNoticed`, `Delivered`) is beyond the
prover. What each of them rests on is proved: for `ReturnsWhenDone` `NoLostWakeup` and `NoMutualWait`, for `TimeoutKills`
`DeadlineObeyed` and `KillReachesChild`, for `KillEndsRun` `KillReachesGroup`, for `Served` `ReadinessKept`, for `ExitsNoticed`
`NoExitUnseen`, for `Delivered` `EdgeKept` and `NoSilentLoss`. `DoneWhenClosed` has no such half.

`KillReachesChild` is proved for the options that `Reachable` describes. For a group of another process
and for a child that has still to call `setsid` it is false (run `setsid_race` shows the latter), so that there is
no theorem about all options; `DeadlineObeyed` and `KillReachesGroup` have the same limit.

## Findings

Each is a run whose property states what a line of the repository says.

| run | what happens |
|---|---|
| `nocapture` | with no pipe open the loop enters `wait_blocking` in the iteration before the deadline: the timeout has no effect |
| `setsid_race` | the deadline expires before the forked child has called `setsid`: `kill(-pid)` answers ESRCH, which counts as success, and the signal is not repeated |
| `combined` | `max_output` is per stream, the comment says combined |
| `shutdown_race` | of two concurrent calls one fails and restores the SIGINT handler of before the other one, which has succeeded |

Seen while modelling, without a run of their own:

* `spawn`: a child that writes as fast as it is read keeps the thread in the loop of
  `read_from_fd` (`buffer.rs` 56), where the deadline is not looked at; `TimeoutKills` is about a loop
  that is left now and then. The deadline branch (1082) does not ask whether the child
  was reaped already and signals its old pid. A child that joined a foreign group
  leads none, so `kill(-pid)` never finds it (1099). A SIGTERM refused with EPERM is taken for
  "process already gone" (1093) and SIGKILL is never tried. A failure after the child was
  started (652) leaves it running and unreaped. The grace period is counted from the
  deadline, so an iteration that comes late sends SIGTERM and SIGKILL close together
  (1108; `CancelContract` states what holds). A process that has left the group by `setsid` (a daemon) survives
  the SIGKILL to the group, and if it holds a pipe the call waits for it although the timeout has
  expired (1099, 1131; the premise `Strays = {}` of `KillEndsRun`); with a signal to the child alone, any process
  it forked can do that. The child's own ends of the pipes are non-blocking (162).
* Drain: a second `write_stdin` after an error answers `Ok(true)` because the buffer is gone
  (`writer.rs` 30-34, the `failing` disjunct of `DoneMeansTaken`).
* Reactor: the text above `wait` says that events are appended, the code clears the buffer first;
  the model does the latter, so that a caller has to handle a batch before the next.
* Signalfd: `sigprocmask` blocks SIGCHLD in the calling thread only; threads started before
  may take the signal, and the model assumes that they block it. A setup that fails
  leaves SIGCHLD blocked (278), which nothing undoes and a later setup builds on. A program that polls its
  children before it drains can miss one.
* Inotify: names that are not UTF-8 come out altered (120), and two such names of one directory can
  come out equal, so that a program cannot tell which file changed. An error of `read` loses the events its call had taken (85; `NoSilentLoss` says
  which), and the edge is used up for those that remain. `base + event.len` is computed in
  `usize` and could overflow only where that has 32 bits and for lengths the
  kernel never writes. A second `setup_inotify` overwrites the first token while the first
  descriptor stays registered; the model calls it once.

## Not modelled

The probes of procfs and `stat` (`parse_proc_status` among them), `readahead` and the path functions
are stateless reads: one system call, a range check or a scan of lines, with no
order of steps that could go wrong. Error types and signal-set wrappers carry values
only. The builder of `SpawnOptions` is plain assignment: `WaitLoop` starts from its results (the
rejection of background spawns with pipes is `Valid`). `ExecContext` rejects an empty argv and
strings with NUL before anything is started. The signal mask of the child is one assignment
before exec, and `close_range_fast(Some(_))` has no caller. Wording, logging and the layout of C
structures are left out.

## Plan

1. `WaitLoop`, `Spawn`, `WaitLoopProofs` - done.
2. `Capture`, `Drain`, `DrainProofs` - done.
3. `Shutdown`, `ShutdownProofs` - done.
4. `SpawnSetup`, `SpawnSetupProofs` - done.
5. `Watcher`, `Reactor`, `ReactorProofs` - done.
6. `Sigchld`, `SigchldProofs` - done.
7. `Inotify`, `StreamProofs`, `InotifyProofs` - done.
8. Left: an abstract specification of the shutdown flag whose installation is one step, and
   of the inotify descriptor as a queue, each with its refinement; the safety half of
   `DoneWhenClosed`.
