------------------------------- MODULE Spawn -------------------------------
(***************************************************************************)
(* What one call of spawn() promises, whatever fails, whoever else reaps   *)
(* children and however the threads are scheduled: it starts one child,    *)
(* sends it the signals of the CancelPolicy, in their order and not before *)
(* their time, reaps it at most once, reports the status it ended with,    *)
(* and returns once.                                                       *)
(*                                                                         *)
(* Pipes, epoll and system calls are not mentioned.                        *)
(***************************************************************************)
EXTENDS Integers, Sequences

CONSTANTS Deadline, Grace   \* timeout_ms and kill_grace_ms

VARIABLES
  opts,       \* the SpawnOptions (never change)
  child,      \* "none", "running", "ended" or "reaped"
  fate,       \* how it ended
  now,        \* time since the start
  sent,       \* the signals sent
  timed_out,  \* Output.timed_out
  open,       \* the streams that are still served
  status,     \* Output.status
  result      \* "none", "ok" or "err"

vars == <<opts, child, fate, now, sent, timed_out, open, status, result>>

Running == "running"   \* no status
Busy == result = "none"
WasSent(x) == \E i \in 1..Len(sent) : sent[i].sig = x

Init ==
  /\ child = "none" /\ fate = Running /\ status = Running
  /\ now = 0 /\ sent = <<>> /\ timed_out = FALSE
  /\ open = {} /\ result = "none"

Start ==
  /\ Busy /\ child = "none"
  /\ child' = "running" /\ open' = opts.pipes
  /\ UNCHANGED <<opts, fate, now, sent, timed_out, status, result>>

Pass ==
  /\ Busy
  /\ now' = now + 1
  /\ UNCHANGED <<opts, child, fate, sent, timed_out, open, status, result>>

\* The policy calls for x.
Allowed(x) ==
  \/ x = "TERM" /\ opts.cancel = "Graceful" /\ sent = <<>>
  \/ x = "KILL" /\ opts.cancel = "Kill" /\ sent = <<>>
  \/ x = "KILL" /\ opts.cancel = "Graceful" /\ Len(sent) = 1 /\ now > Deadline + Grace

\* The deadline has passed; at most one signal is sent at a time.
Expire ==
  /\ Busy /\ opts.timed /\ now >= Deadline
  /\ timed_out' = TRUE
  /\ \/ UNCHANGED sent
     \/ \E x \in {"TERM", "KILL"} :
          /\ Allowed(x)
          /\ sent' = Append(sent, [sig |-> x, at |-> now, reaped |-> child = "reaped"])
  /\ UNCHANGED <<opts, child, fate, now, open, status, result>>

\* The child ends by itself or of a signal that was sent, also after the call returned.
End(x) ==
  /\ child = "running"
  /\ x = "sigterm" => WasSent("TERM")
  /\ x = "sigkill" => WasSent("KILL")
  /\ child' = "ended" /\ fate' = x
  /\ UNCHANGED <<opts, now, sent, timed_out, open, status, result>>

Close(s) ==
  /\ Busy /\ s \in open
  /\ open' = open \ {s}
  /\ UNCHANGED <<opts, child, fate, now, sent, timed_out, status, result>>

\* Ok: every stream is closed and the status known, or nobody asked for either.
Succeed ==
  /\ IF opts.wait THEN open = {} /\ status' # Running
                  ELSE child # "none" /\ status' = Running
  /\ result' = "ok"

Reap ==
  /\ Busy /\ child = "ended"
  /\ child' = "reaped" /\ status' = fate
  /\ UNCHANGED result \/ Succeed
  /\ UNCHANGED <<opts, fate, now, sent, timed_out, open>>

Return ==
  /\ Busy
  /\ UNCHANGED <<opts, child, fate, now, sent, timed_out, open, status>>
  /\ Succeed

\* Err; the child is left alone.
Fail ==
  /\ Busy
  /\ open' = {} /\ result' = "err"
  /\ UNCHANGED <<opts, child, fate, now, sent, timed_out, status>>

\* Somebody else in the process reaps the child.
Lose ==
  /\ child = "ended"
  /\ child' = "reaped"
  /\ UNCHANGED <<opts, fate, now, sent, timed_out, open, status, result>>

Next ==
  \/ Start \/ Pass \/ Expire \/ Reap \/ Return \/ Fail \/ Lose
  \/ \E x \in {"exited", "sigterm", "sigkill", "sigpipe"} : End(x)
  \/ \E s \in opts.pipes : Close(s)

Spec == Init /\ [][Next]_vars
=============================================================================
