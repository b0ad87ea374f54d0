------------------------------ MODULE Watcher ------------------------------
(* What a Reactor promises to a caller that drains what it is told about: a *)
(* level-triggered watcher, although epoll is asked for edges only.         *)

CONSTANTS
  Files,
  Batches,  \* the sets of files that one call may report
  NoFile

VARIABLES
  watched,    \* the files the caller has registered and still holds
  lingering,  \* files it has dropped that the kernel still knows
  unserved,   \* the files with something to read, room to write, or a hang-up
  told,       \* reported and not looked at yet
  serving,    \* the file the caller is draining
  phase       \* the caller: "working" or "waiting"

vars == <<watched, lingering, unserved, told, serving, phase>>

Init ==
  /\ watched = {} /\ lingering = {} /\ unserved = {} /\ told = {}
  /\ serving = NoFile /\ phase = "working"

Watch(f) ==
  /\ phase = "working" /\ f \notin watched \cup lingering
  /\ watched' = watched \cup {f}
  /\ UNCHANGED <<lingering, unserved, told, serving, phase>>

\* What was reported of a file that is given up is void.
Unwatch(f) ==
  /\ phase = "working" /\ f \in watched
  /\ watched' = watched \ {f}
  /\ lingering' \in {lingering, lingering \cup {f}}
  /\ told' = told \ {f}
  /\ serving' = IF serving = f THEN NoFile ELSE serving
  /\ UNCHANGED <<unserved, phase>>

Vanish ==
  /\ lingering' = {} /\ lingering # {}
  /\ UNCHANGED <<watched, unserved, told, serving, phase>>

Become(f) ==
  /\ unserved' = unserved \cup {f}
  /\ UNCHANGED <<watched, lingering, told, serving, phase>>

Wait ==
  /\ phase = "working" /\ told = {} /\ serving = NoFile
  /\ phase' = "waiting"
  /\ UNCHANGED <<watched, lingering, unserved, told, serving>>

\* Only what is ready is reported, and nothing only if nothing is, or if files
\* that linger have taken the place.
Report(F) ==
  /\ phase = "waiting" /\ phase' = "working"
  /\ F \in Batches /\ F \subseteq watched \cap unserved
  /\ F = {} => watched \cap unserved = {} \/ lingering \cap unserved # {}
  /\ told' = F
  /\ UNCHANGED <<watched, lingering, unserved, serving>>

Serve(f) ==
  /\ phase = "working" /\ serving = NoFile /\ f \in told
  /\ told' = told \ {f} /\ serving' = f
  /\ UNCHANGED <<watched, lingering, unserved, phase>>

Drain ==
  /\ serving # NoFile
  /\ unserved' = unserved \ {serving}
  /\ UNCHANGED <<watched, lingering, told, serving, phase>>

\* The caller turns away only from a file that is drained.
Finish ==
  /\ serving # NoFile /\ serving \notin unserved
  /\ serving' = NoFile
  /\ UNCHANGED <<watched, lingering, unserved, told, phase>>

Next ==
  \/ \E f \in Files : Watch(f) \/ Unwatch(f) \/ Become(f) \/ Serve(f)
  \/ \E F \in Batches : Report(F)
  \/ Vanish \/ Wait \/ Drain \/ Finish

Spec == Init /\ [][Next]_vars
=============================================================================
