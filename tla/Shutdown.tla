------------------------------ MODULE Shutdown ------------------------------
(***************************************************************************)
(* install_shutdown_flag of src/sys/mod.rs: two process-wide signal        *)
(* handlers, a pointer to the flag they set, and the signals that arrive   *)
(* between any two steps of the installation.                              *)
(*                                                                         *)
(* Actors: the threads that call install_shutdown_flag (one system call or *)
(* atomic operation per step), and the kernel, which runs the handler in   *)
(* any thread: it loads the pointer, then stores into the flag.  Memory is *)
(* sequentially consistent.                                                *)
(***************************************************************************)
EXTENDS Naturals, Sequences

CONSTANTS
  Calls,       \* calls of install_shutdown_flag, each with a flag of its own
  Exclusive,   \* callers take turns
  Failing,     \* which sigaction may fail: "INT", "TERM" or "restore"
  MaxSignals   \* bound: signals that arrive

Signals == {"INT", "TERM"}
NoFlag == "null"

ASSUME CallsAssumption == NoFlag \notin Calls
ASSUME ExclusiveAssumption == Exclusive \in BOOLEAN
ASSUME FailingAssumption == Failing \subseteq {"INT", "TERM", "restore"}

VARIABLES
  handler,  \* the disposition of each signal: "shutdown" or what it was, "old"
  pointer,  \* SHUTDOWN_FLAG_PTR
  flags,    \* the AtomicBool of each call
  pc,       \* the next step of each call
  saved,    \* old_sigint of each call
  last,     \* history: the call that succeeded last
  broken,   \* history: the SIGINT handler could not be restored
  runs      \* history: each signal, in the order of arrival, and its handler

callers == <<pc, saved, last, broken>>
vars == <<handler, pointer, flags, callers, runs>>

-----------------------------------------------------------------------------
(* install_shutdown_flag.                                                   *)

Init ==
  /\ handler = [s \in Signals |-> "old"]
  /\ pointer = NoFlag
  /\ flags = [c \in Calls |-> FALSE]
  /\ pc = [c \in Calls |-> "idle"]
  /\ saved = [c \in Calls |-> "old"]
  /\ last = NoFlag /\ broken = FALSE
  /\ runs = <<>>

Goto(c, label) == pc' = [pc EXCEPT ![c] = label]
Install(s) == handler' = [handler EXCEPT ![s] = "shutdown"]

Busy(c) == pc[c] \in {"term", "publish", "restore"}

\* install_signal_handler(SIGINT), the first step of a call.
InstallInt(c) ==
  /\ pc[c] = "idle" /\ (Exclusive => \A d \in Calls : ~Busy(d))
  /\ saved' = [saved EXCEPT ![c] = handler["INT"]]
  /\ Install("INT") /\ Goto(c, "term")
  /\ UNCHANGED <<pointer, flags, last, broken, runs>>

InstallIntFails(c) ==
  /\ pc[c] = "idle" /\ (Exclusive => \A d \in Calls : ~Busy(d))
  /\ "INT" \in Failing
  /\ Goto(c, "err")
  /\ UNCHANGED <<handler, pointer, flags, saved, last, broken, runs>>

\* Mutant: the flag is published before both installs have succeeded.
InstallTermPublishes(c) ==
  /\ pc[c] = "term"
  /\ pointer' = c
  /\ \/ Install("TERM") /\ Goto(c, "publish")
     \/ "TERM" \in Failing /\ Goto(c, "restore") /\ UNCHANGED handler
  /\ UNCHANGED <<flags, saved, last, broken, runs>>

\* install_signal_handler(SIGTERM).
InstallTerm(c) ==
  /\ pc[c] = "term"
  /\ \/ Install("TERM") /\ Goto(c, "publish")
     \/ "TERM" \in Failing /\ Goto(c, "restore") /\ UNCHANGED handler
  /\ UNCHANGED <<pointer, flags, saved, last, broken, runs>>

\* Mutant: the first flag stays.
PublishFirst(c) ==
  /\ pc[c] = "publish"
  /\ pointer' = IF pointer = NoFlag THEN c ELSE pointer
  /\ last' = c
  /\ Goto(c, "ok")
  /\ UNCHANGED <<handler, flags, saved, broken, runs>>

Publish(c) ==
  /\ pc[c] = "publish"
  /\ pointer' = c /\ last' = c
  /\ Goto(c, "ok")
  /\ UNCHANGED <<handler, flags, saved, broken, runs>>

\* Mutants: the handler stays; the default action takes the old one's place.
RestoreNot(c) ==
  /\ pc[c] = "restore"
  /\ Goto(c, "err")
  /\ UNCHANGED <<handler, pointer, flags, saved, last, broken, runs>>

RestoreOld(c) ==
  /\ pc[c] = "restore"
  /\ Goto(c, "err")
  /\ handler' = [handler EXCEPT !["INT"] = "old"]
  /\ UNCHANGED <<pointer, flags, saved, last, broken, runs>>

\* restore_signal_handler(SIGINT); the call fails either way.
Restore(c) ==
  /\ pc[c] = "restore"
  /\ Goto(c, "err")
  /\ \/ /\ handler' = [handler EXCEPT !["INT"] = saved[c]]
        /\ UNCHANGED broken
     \/ "restore" \in Failing /\ broken' = TRUE /\ UNCHANGED handler
  /\ UNCHANGED <<pointer, flags, saved, last, runs>>

-----------------------------------------------------------------------------
(* Signals and shutdown_signal_handler.                                     *)

\* A signal arrives.  done: the calls that had succeeded by then.
Arrive(s) ==
  /\ Len(runs) < MaxSignals
  /\ runs' = Append(runs,
       [stage |-> IF handler[s] = "shutdown" THEN "entered" ELSE "old",
        flag |-> NoFlag, newest |-> last,
        done |-> {c \in Calls : pc[c] = "ok"}])
  /\ UNCHANGED <<handler, pointer, flags, callers>>

\* The handler loads the pointer; a null pointer ends it.
HandlerLoads(i) ==
  /\ runs[i].stage = "entered"
  /\ runs' = [runs EXCEPT ![i].flag = pointer,
                          ![i].stage = IF pointer = NoFlag THEN "end" ELSE "loaded"]
  /\ UNCHANGED <<handler, pointer, flags, callers>>

HandlerStores(i) ==
  /\ runs[i].stage = "loaded"
  /\ flags' = [flags EXCEPT ![runs[i].flag] = TRUE]
  /\ runs' = [runs EXCEPT ![i].stage = "end"]
  /\ UNCHANGED <<handler, pointer, callers>>

-----------------------------------------------------------------------------

Call(c) ==
  \/ InstallInt(c) \/ InstallIntFails(c) \/ InstallTerm(c)
  \/ Publish(c) \/ Restore(c)

Handler(i) == HandlerLoads(i) \/ HandlerStores(i)

Next ==
  \/ \E c \in Calls : Call(c)
  \/ \E s \in Signals : Arrive(s)
  \/ \E i \in 1..Len(runs) : Handler(i)

Spec == Init /\ [][Next]_vars

-----------------------------------------------------------------------------
(* Properties.                                                              *)

\* What is recorded of a signal.
Run == [stage : {"old", "entered", "loaded", "end"}, flag : Calls \cup {NoFlag},
        newest : Calls \cup {NoFlag}, done : SUBSET Calls]

\* Every variable keeps its type; a handler that stores has a flag.
TypeOK ==
  /\ handler \in [Signals -> {"old", "shutdown"}]
  /\ pointer \in Calls \cup {NoFlag} /\ last \in Calls \cup {NoFlag}
  /\ flags \in [Calls -> BOOLEAN]
  /\ pc \in [Calls -> {"idle", "term", "publish", "restore", "ok", "err"}]
  /\ saved \in [Calls -> {"old", "shutdown"}]
  /\ broken \in BOOLEAN
  /\ runs \in Seq(Run)
  /\ \A i \in 1..Len(runs) : runs[i].stage = "loaded" => runs[i].flag \in Calls

\* "If installation succeeds, both SIGINT and SIGTERM will use this helper's
\* process-global handler", for good.
InstalledStays ==
  last # NoFlag => \A s \in Signals : handler[s] = "shutdown"

\* Between calls the installation is complete or undone: the previous SIGINT
\* handler is back after a failure, unless restoring it failed.
AllOrNothing ==
  (\A c \in Calls : ~Busy(c)) /\ last = NoFlag =>
    \A s \in Signals : handler[s] = "old" \/ (s = "INT" /\ broken)

\* "The target flag pointer is only published after both installs succeed, so on
\* error the previously active flag remains in effect": whenever signals arrive
\* and whichever calls overlap, a handler flips no flag of a call that has failed
\* or is still installing, and has taken none to flip.
OnlySuccessFlips ==
  \A c \in Calls : pc[c] # "ok" =>
    /\ ~flags[c]
    /\ \A i \in 1..Len(runs) : runs[i].flag # c

\* "Future signals will flip `flag`": a signal that arrives after a success runs
\* this handler, which sets the newest flag of that moment or one of a call
\* that succeeded later.
FutureSignalsFlip ==
  \A i \in 1..Len(runs) :
    runs[i].newest # NoFlag =>
      /\ runs[i].stage # "old"
      /\ runs[i].stage = "end" =>
           /\ runs[i].flag # NoFlag /\ flags[runs[i].flag]
           /\ runs[i].flag = runs[i].newest \/ runs[i].flag \notin runs[i].done
=============================================================================
