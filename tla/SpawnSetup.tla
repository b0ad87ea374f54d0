----------------------------- MODULE SpawnSetup -----------------------------
(***************************************************************************)
(* The descriptors of spawn_posix_internal and spawn_fork_internal of      *)
(* src/spawn/mod.rs: the pipes, what the child does to its copy of the     *)
(* descriptor table before exec, and what the parent keeps.                *)
(*                                                                         *)
(* Actors: the calling thread, the child, and the other threads of the     *)
(* parent, which open and close descriptors of their own.  A table maps    *)
(* numbers to open files; an open file is a name, a pipe end is named by   *)
(* its stream and side.                                                    *)
(***************************************************************************)
EXTENDS Integers, Sequences, FiniteSetsExt

CONSTANTS
  MaxFd,    \* the limit on descriptor numbers
  Backends, \* subset of {"PosixSpawn", "Fork"}
  StdSets,  \* which of 0, 1 and 2 the parent may have open
  MayFail,  \* system calls may fail
  MaxOther  \* bound: descriptors the other threads have open at a time

Streams == {"stdin", "stdout", "stderr"}
Target == [stdin |-> 0, stdout |-> 1, stderr |-> 2]
Ends == Streams \X {"r", "w"}
Fds == 0..MaxFd
Free == <<"free">>
Std(n) == <<"std", n>>   \* what the parent was started with
Dir == <<"dir">>         \* /proc/self/fd
Other == <<"other">>     \* a file of another thread
NoFd == -1

ASSUME FdAssumption == MaxFd \in Nat /\ MaxFd >= 3 /\ StdSets \subseteq SUBSET (0..2)
ASSUME BackendsAssumption == Backends \subseteq {"PosixSpawn", "Fork"}
ASSUME MayFailAssumption == MayFail \in BOOLEAN /\ MaxOther \in Nat

\* The end the child uses, and the one the parent uses.
ChildEnd(s) == <<s, IF s = "stdin" THEN "r" ELSE "w">>
ParentEnd(s) == <<s, IF s = "stdin" THEN "w" ELSE "r">>

VARIABLES
  want,     \* the streams with a pipe (never changes)
  backend,  \* the backend of the call (never changes)
  std,      \* the open ones of 0, 1 and 2 when it starts (never changes)
  pc,       \* where the calling thread is
  table,    \* the parent's descriptor table
  cloexec,  \* its descriptors with FD_CLOEXEC
  ends,     \* the numbers in Pipes, NoFd for None
  actions,  \* what the child still has to do: file actions, or its code
  scan,     \* the next number readdir looks at
  cpc,      \* the child: "none", "setup", "running" or "dead"
  child,    \* its descriptor table
  ccloexec,
  leaky     \* history: what was open could not be listed or closed

config == <<want, backend, std>>
kid == <<cpc, child, ccloexec>>
vars == <<config, pc, table, cloexec, ends, actions, scan, kid, leaky>>

-----------------------------------------------------------------------------

FreeFds == {n \in Fds : table[n] = Free}
Lowest == Min(FreeFds)
Handled == {ends[e] : e \in Ends} \ {NoFd}
DirFd == {n \in Fds : table[n] = Dir}

Init ==
  /\ want \in SUBSET Streams /\ backend \in Backends /\ std \in StdSets
  /\ pc = "pipes"
  /\ table = [n \in Fds |-> IF n \in std THEN Std(n) ELSE Free]
  /\ cloexec = {}
  /\ ends = [e \in Ends |-> NoFd]
  /\ actions = <<>> /\ scan = 0
  /\ cpc = "none" /\ child = table /\ ccloexec = {}
  /\ leaky = FALSE

\* Mutant: the descriptors are closed and stay in Pipes.
CloseTwice(E) ==
  /\ table' = [n \in Fds |-> IF n \in {ends[e] : e \in E} THEN Free ELSE table[n]]
  /\ cloexec' = cloexec \ {ends[e] : e \in E}
  /\ UNCHANGED ends

\* The parent closes the pipe ends in E (Option::take and the drop of Fd).
Close(E) ==
  /\ table' = [n \in Fds |-> IF n \in {ends[e] : e \in E} THEN Free ELSE table[n]]
  /\ cloexec' = cloexec \ {ends[e] : e \in E}
  /\ ends' = [e \in Ends |-> IF e \in E THEN NoFd ELSE ends[e]]

\* An error return: whatever is in Pipes is closed.
Fail == pc' = "err" /\ Close(Ends)

-----------------------------------------------------------------------------
(* Pipes::new.                                                              *)

Missing == {s \in want : ends[ChildEnd(s)] = NoFd}
NextStream == CHOOSE s \in Missing : \A t \in Missing : Target[s] <= Target[t]

\* make_pipe: pipe2(O_CLOEXEC | O_NONBLOCK) takes the two lowest numbers.
MakePipe ==
  /\ pc = "pipes" /\ Missing # {} /\ Cardinality(FreeFds) >= 2
  /\ LET r == Lowest
         w == Min(FreeFds \ {r}) IN
     /\ table' = [table EXCEPT ![r] = <<NextStream, "r">>, ![w] = <<NextStream, "w">>]
     /\ cloexec' = cloexec \cup {r, w}
     /\ ends' = [ends EXCEPT ![<<NextStream, "r">>] = r, ![<<NextStream, "w">>] = w]
  /\ UNCHANGED <<config, pc, actions, scan, kid, leaky>>

MakePipeFails ==
  /\ pc = "pipes" /\ Missing # {}
  /\ MayFail \/ Cardinality(FreeFds) < 2
  /\ Fail
  /\ UNCHANGED <<config, actions, scan, kid, leaky>>

-----------------------------------------------------------------------------
(* What the child is told to do.                                            *)

Dup2(n, m) == [op |-> "dup2", fd |-> n, to |-> m]
CloseFd(n) == [op |-> "close", fd |-> n, to |-> NoFd]
CloseRange == [op |-> "range", fd |-> 3, to |-> NoFd]

\* For each stream that is wanted, in order.
InOrder(block) ==
  LET one(s) == IF s \in want THEN block[s] ELSE <<>> IN
  one("stdin") \o one("stdout") \o one("stderr")

Connect(s) == <<Dup2(ends[ChildEnd(s)], Target[s])>>

CloseBoth(s) == <<CloseFd(ends[ChildEnd(s)]), CloseFd(ends[ParentEnd(s)])>>

\* Mutant: closed before it is duplicated.
ConnectClosed(s) == CloseBoth(s) \o Connect(s)

ConnectAndClose(s) == Connect(s) \o CloseBoth(s)

\* The file actions of the pipes; adding one may fail.
AddFileActions ==
  /\ pc = "pipes" /\ Missing = {} /\ backend = "PosixSpawn"
  /\ actions' = InOrder([s \in want |-> ConnectAndClose(s)])
  /\ pc' = "list"
  /\ UNCHANGED <<config, table, cloexec, ends, scan, kid, leaky>>

\* /proc/self/fd is opened, or cannot be: then no other descriptor is closed.
OpenDir ==
  /\ pc = "list" /\ FreeFds # {}
  /\ table' = [table EXCEPT ![Lowest] = Dir]
  /\ cloexec' = cloexec \cup {Lowest}
  /\ pc' = "scan" /\ scan' = 0
  /\ UNCHANGED <<config, ends, actions, kid, leaky>>

OpenDirFails ==
  /\ pc = "list" /\ (MayFail \/ FreeFds = {})
  /\ pc' = "spawn" /\ leaky' = TRUE
  /\ UNCHANGED <<config, table, cloexec, ends, actions, scan, kid>>

\* Mutant: 3 counts as one of the standard descriptors.
MustCloseAbove3(n) ==
  table[n] \notin {Free, Dir} /\ n > 3 /\ n \notin Handled

MustClose(n) ==
  table[n] \notin {Free, Dir} /\ n > 2 /\ n \notin Handled

\* readdir goes through the numbers in order; each is looked at once.  That
\* addclose fails is not noticed.
ScanEntry ==
  /\ pc = "scan" /\ scan \in Fds
  /\ \/ ~MustClose(scan) /\ UNCHANGED <<actions, leaky>>
     \/ MustClose(scan) /\ actions' = Append(actions, CloseFd(scan)) /\ UNCHANGED leaky
     \/ MustClose(scan) /\ MayFail /\ leaky' = TRUE /\ UNCHANGED actions
  /\ scan' = scan + 1
  /\ UNCHANGED <<config, pc, table, cloexec, ends, kid>>

CloseDir ==
  /\ pc = "scan" /\ scan > MaxFd
  /\ table' = [n \in Fds |-> IF n \in DirFd THEN Free ELSE table[n]]
  /\ cloexec' = cloexec \ DirFd
  /\ pc' = "spawn"
  /\ UNCHANGED <<config, ends, actions, scan, kid, leaky>>

\* A file action or an attribute cannot be set up.
PrepareFails ==
  /\ pc \in {"list", "spawn"} /\ MayFail
  /\ Fail
  /\ UNCHANGED <<config, actions, scan, kid, leaky>>

-----------------------------------------------------------------------------
(* The child is created with a copy of the table.                           *)

NewChild == cpc' = "setup" /\ child' = table /\ ccloexec' = cloexec

\* posix_spawn: the thread waits until the child has run exec or failed.
PosixSpawn ==
  /\ pc = "spawn"
  /\ NewChild
  /\ pc' = "vfork"
  /\ UNCHANGED <<config, table, cloexec, ends, actions, scan, leaky>>

\* fork: the child runs dup2, Pipes::close_all, close_range_fast.
Fork ==
  /\ pc = "pipes" /\ Missing = {} /\ backend = "Fork"
  /\ NewChild
  /\ actions' = InOrder([s \in want |-> Connect(s)])
                  \o InOrder([s \in want |-> CloseBoth(s)]) \o <<CloseRange>>
  /\ pc' = "drop"
  /\ UNCHANGED <<config, table, cloexec, ends, scan, leaky>>

ForkFails ==
  /\ pc = "pipes" /\ Missing = {} /\ backend = "Fork" /\ MayFail
  /\ Fail
  /\ UNCHANGED <<config, actions, scan, kid, leaky>>

Now == Head(actions)

\* The next thing the child does is op.
Doing(op) ==
  /\ cpc = "setup" /\ actions # <<>> /\ Now.op = op
  /\ actions' = Tail(actions)
  /\ UNCHANGED <<config, pc, table, cloexec, ends, scan>>

\* dup2 onto the same number does nothing; posix_spawn clears FD_CLOEXEC then.
\* The source is always open.
ChildDup2 ==
  /\ Doing("dup2")
  /\ child' = [child EXCEPT ![Now.to] = child[Now.fd]]
  /\ ccloexec' = IF Now.fd = Now.to /\ backend = "Fork" THEN ccloexec
                                                       ELSE ccloexec \ {Now.to}
  /\ UNCHANGED <<cpc, leaky>>

ChildClose ==
  /\ Doing("close")
  /\ child' = [child EXCEPT ![Now.fd] = Free]
  /\ ccloexec' = ccloexec \ {Now.fd}
  /\ UNCHANGED <<cpc, leaky>>

\* close_range_fast(None) ignores a kernel without close_range.
ChildCloseRange ==
  /\ Doing("range")
  /\ \/ /\ child' = [n \in Fds |-> IF n >= 3 THEN Free ELSE child[n]]
        /\ UNCHANGED leaky
     \/ MayFail /\ leaky' = TRUE /\ UNCHANGED child
  /\ UNCHANGED <<cpc, ccloexec>>

\* execve closes the descriptors with FD_CLOEXEC.
ChildExec ==
  /\ cpc = "setup" /\ actions = <<>>
  /\ cpc' = "running"
  /\ child' = [n \in Fds |-> IF n \in ccloexec THEN Free ELSE child[n]]
  /\ UNCHANGED <<config, pc, table, cloexec, ends, actions, scan, ccloexec, leaky>>

\* chdir or execve fails.
ChildFails ==
  /\ cpc = "setup" /\ actions = <<>> /\ MayFail
  /\ cpc' = "dead"
  /\ UNCHANGED <<config, pc, table, cloexec, ends, actions, scan, child, ccloexec,
                 leaky>>

-----------------------------------------------------------------------------
(* The parent goes on.                                                      *)

SpawnReturns ==
  /\ pc = "vfork" /\ cpc = "running"
  /\ pc' = "drop"
  /\ UNCHANGED <<config, table, cloexec, ends, actions, scan, kid, leaky>>

SpawnFails ==
  /\ pc = "vfork" /\ cpc = "dead"
  /\ Fail
  /\ UNCHANGED <<config, actions, scan, kid, leaky>>

\* Mutant: the write end of stderr is kept.
DropKeepsStderr ==
  /\ pc = "drop"
  /\ Close({ChildEnd("stdin"), ChildEnd("stdout")})
  /\ pc' = "new"
  /\ UNCHANGED <<config, actions, scan, kid, leaky>>

\* The ends of the child are dropped.
DropChildEnds ==
  /\ pc = "drop"
  /\ Close({ChildEnd(s) : s \in Streams})
  /\ pc' = "new"
  /\ UNCHANGED <<config, actions, scan, kid, leaky>>

\* DrainState::new takes the others, or fails in set_nonblock.
NewDrain ==
  /\ pc = "new"
  /\ pc' = "ok"
  /\ UNCHANGED <<config, table, cloexec, ends, actions, scan, kid, leaky>>

NewDrainFails ==
  /\ pc = "new" /\ want # {} /\ MayFail
  /\ Fail
  /\ UNCHANGED <<config, actions, scan, kid, leaky>>

-----------------------------------------------------------------------------
(* Other threads.                                                           *)

others == <<config, pc, ends, actions, scan, kid>>

\* With or without O_CLOEXEC.  Without, between the listing and posix_spawn, the
\* child inherits it.
OtherOpens ==
  /\ FreeFds # {} /\ Cardinality({n \in Fds : table[n] = Other}) < MaxOther
  /\ table' = [table EXCEPT ![Lowest] = Other]
  /\ \E c \in SUBSET {Lowest} :
       /\ cloexec' = cloexec \cup c
       /\ leaky' = (leaky \/ (c = {} /\ pc \in {"scan", "spawn"}))
  /\ UNCHANGED others

OtherCloses ==
  /\ \E n \in Fds :
       /\ table[n] = Other
       /\ table' = [table EXCEPT ![n] = Free] /\ cloexec' = cloexec \ {n}
  /\ UNCHANGED <<others, leaky>>

-----------------------------------------------------------------------------

Parent ==
  \/ MakePipe \/ MakePipeFails \/ AddFileActions
  \/ OpenDir \/ OpenDirFails \/ ScanEntry \/ CloseDir \/ PrepareFails
  \/ PosixSpawn \/ Fork \/ ForkFails \/ SpawnReturns \/ SpawnFails
  \/ DropChildEnds \/ NewDrain \/ NewDrainFails

Child ==
  ChildDup2 \/ ChildClose \/ ChildCloseRange \/ ChildExec \/ ChildFails

Next == Parent \/ Child \/ OtherOpens \/ OtherCloses

Spec == Init /\ [][Next]_vars

-----------------------------------------------------------------------------
(* Properties.                                                              *)

File == Ends \cup {Free, Dir, Other} \cup {Std(n) : n \in 0..2}

\* Every variable keeps its type, and what Pipes owns is open: no number is
\* closed twice.
TypeOK ==
  /\ want \subseteq Streams /\ backend \in Backends /\ std \in StdSets
  /\ pc \in {"pipes", "list", "scan", "spawn", "vfork", "drop", "new", "ok", "err"}
  /\ cpc \in {"none", "setup", "running", "dead"}
  /\ table \in [Fds -> File] /\ child \in [Fds -> File]
  /\ cloexec \subseteq Fds /\ ccloexec \subseteq Fds
  /\ ends \in [Ends -> Fds \cup {NoFd}]
  /\ \A e \in Ends : ends[e] # NoFd => table[ends[e]] = e
  /\ actions \in Seq([op : {"dup2", "close", "range"}, fd : Fds, to : {NoFd} \cup 0..2])
  /\ scan \in 0..(MaxFd + 1) /\ leaky \in BOOLEAN

\* If 0, 1 and 2 were open, the new program has each wanted pipe at its number and
\* nowhere else, and inherits the other standard descriptors: the parent alone
\* holds the other ends, so that end of file and SIGPIPE happen when they should.
StdioConnected ==
  cpc = "running" /\ std = 0..2 =>
    /\ \A s \in Streams :
         child[Target[s]] = IF s \in want THEN ChildEnd(s) ELSE Std(Target[s])
    /\ \A n \in Fds : n > 2 => child[n] \notin Ends

\* "FDs >= 3 are always closed in child": nothing else is inherited, if they
\* can be listed and closed and no other thread opens one in the meantime.
OnlyStdio == cpc = "running" /\ ~leaky => \A n \in Fds : n > 2 => child[n] = Free

\* A call that returns leaves the parent with its own ends, or with none of the
\* pipes if it fails.
ParentKeepsItsEnds ==
  LET held == {e \in Ends : \E n \in Fds : table[n] = e} IN
  /\ pc = "ok" => held = {ParentEnd(s) : s \in want}
  /\ pc = "err" => held = {}
=============================================================================
