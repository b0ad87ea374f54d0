----------------------------- MODULE MCWaitLoop -----------------------------
(* Options of the runs of WaitLoop.                                         *)
EXTENDS WaitLoop

Base == [wait |-> TRUE, pipes |-> {"stdout"}, timed |-> TRUE, early |-> FALSE,
         cancel |-> "Kill", leader |-> "none", isolated |-> FALSE,
         cwd |-> FALSE, backend |-> "Auto"]

Policies == {"None", "Graceful", "Kill"}
Deadly == {"Graceful", "Kill"}

\* A child that leads a group of its own.
GroupOptions == {[Base EXCEPT !.cancel = c, !.leader = "self"] : c \in Deadly}

\* Every policy, with and without deadline, over one captured stream, and a
\* child that leads a group of its own.
PolicyOptions ==
  {[Base EXCEPT !.cancel = c, !.timed = t, !.early = e] :
     c \in Policies, t \in BOOLEAN, e \in BOOLEAN}
  \cup GroupOptions

\* Every combination of pipes, no deadline.
IoOptions ==
  {[Base EXCEPT !.pipes = P, !.timed = FALSE, !.early = e] :
     P \in SUBSET Streams, e \in BOOLEAN}

LoopOptions == PolicyOptions \cup IoOptions

\* A group that is killed at once has two more members, others one; with all three
\* pipes nobody is forked.
SomeKin == {CHOOSE k \in Kin : TRUE}
LoopForks ==
  [o \in LoopOptions |->
     IF o.leader = "self" /\ o.cancel = "Kill" THEN Kin
     ELSE IF o.pipes = Streams THEN {} ELSE SomeKin]
NoForks == [o \in Options |-> {}]

\* Both backends, background spawns and rejected ones, all groups.
FaultOptions ==
  {[Base EXCEPT !.wait = w, !.pipes = P, !.cancel = c, !.leader = l,
                !.isolated = i, !.cwd = d, !.backend = b] :
     w \in BOOLEAN, P \in {{}, {"stdin"}, {"stdout"}}, c \in Deadly,
     l \in {"none", "other"}, i \in BOOLEAN, d \in BOOLEAN,
     b \in {"Auto", "PosixSpawn", "Fork"}}

NoCaptureOptions == {[Base EXCEPT !.pipes = {}]}
IsolatedOptions == {[Base EXCEPT !.isolated = TRUE]}
=============================================================================
