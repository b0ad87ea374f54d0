--------------------------- MODULE WaitLoopProofs ---------------------------
EXTENDS WaitLoop, TLAPS

THEOREM TypeCorrect == Spec => []TypeOK
<1>1. Init => TypeOK
  <2> SUFFICES ASSUME Init PROVE TypeOK
    OBVIOUS
  <2> USE OptionsAssumption, PipeAssumption, ClockAssumption DEF Init
  <2>1. to_write \in 0..StdinLen /\ elapsed \in 0..MaxElapsed
    BY DEF MaxElapsed
  <2>2. /\ pend \in [Streams -> 0..PipeCap]
        /\ ends \in [Streams -> SUBSET Procs]
        /\ proc \in [Procs -> {"none", "setup", "live", "zombie", "gone"}]
        /\ group \in [Procs -> {"parent", "own", "other"}]
        /\ sig \in [Procs -> {"none", "TERM", "KILL"}]
    OBVIOUS
  <2>3. sent \in Seq([sig : {"TERM", "KILL"}, at : 0..MaxElapsed,
                      reaped : BOOLEAN])
    OBVIOUS
  <2> QED
    BY <2>1, <2>2, <2>3 DEF TypeOK
<1>2. TypeOK /\ [Next]_vars => TypeOK'
  <2> SUFFICES ASSUME TypeOK, [Next]_vars PROVE TypeOK'
    OBVIOUS
  <2> USE OptionsAssumption, PipeAssumption, ClockAssumption DEF TypeOK
  <2>1. CASE SpawnFails
    BY <2>1 DEF SpawnFails, Fail, thread, pipes, procs
  <2>2. CASE SpawnChild
    BY <2>2 DEF SpawnChild, FinalGroup, OptionType, thread, events, Procs
  <2>3. CASE SetupFails
    BY <2>3 DEF SetupFails, Fail, thread, pipes, procs
  <2>4. CASE Register
    BY <2>4 DEF Register, thread, events, pipes, procs
  <2>5. CASE FirstWaitStep
    BY <2>5 DEF FirstWaitStep, Reap, NotYet, events, pipes
  <2>6. CASE WaitFails
    BY <2>6 DEF WaitFails, Fail, thread, pipes, procs
  <2>7. CASE WaitStep
    BY <2>7 DEF WaitStep, Reap, NotYet, events, pipes
  <2>8. CASE WaitBlocking
    BY <2>8 DEF WaitBlocking, Reap, events, pipes
  <2>9. CASE TopNotDue
    BY <2>9 DEF TopNotDue, events, pipes, procs
  <2>10. ASSUME NEW x \in {"TERM", "KILL"}, Signal(x)
         PROVE  /\ sig' \in [Procs -> {"none", "TERM", "KILL"}]
                /\ sent' \in Seq([sig : {"TERM", "KILL"}, at : 0..MaxElapsed,
                                  reaped : BOOLEAN])
    BY <2>10 DEF Signal
  <2>11. CASE TopTerm
    BY <2>10, <2>11 DEF TopTerm, DueStep, Refused, events, pipes
  <2>12. CASE TopKill
    BY <2>10, <2>12 DEF TopKill, DueStep, Refused, events, pipes
  <2>13. CASE TopEscalate
    BY <2>10, <2>13 DEF TopEscalate, DueStep, Refused, events, pipes
  <2>14. CASE TopDueIdle
    BY <2>14 DEF TopDueIdle, DueStep, events, pipes
  <2>15. CASE PollEvents
    BY <2>15 DEF PollEvents, thread, pipes, procs, OptionType
  <2>16. CASE PollIdle
    BY <2>16 DEF PollIdle, thread, events, pipes, procs
  <2>17. CASE PollFails
    BY <2>17 DEF PollFails, Fail, thread, pipes, procs
  <2>18. CASE ReadData
    <3>1. pend' \in [Streams -> 0..PipeCap]
      <4>1. PICK n \in 1..pend[cur] : pend' = [pend EXCEPT ![cur] = @ - n]
        BY <2>18 DEF ReadData
      <4>2. cur \in Streams /\ pend[cur] \in 0..PipeCap
        BY <2>18 DEF ReadData, Outputs, Streams
      <4>3. pend[cur] - n \in 0..PipeCap
        BY <4>1, <4>2
      <4> QED
        BY <4>1, <4>3
    <3> QED
      BY <2>18, <3>1 DEF ReadData, DropSlot, EventHandled, thread, events,
                         procs
  <2>19. CASE ReadWouldBlock
    BY <2>19 DEF ReadWouldBlock, EventHandled, thread, pipes, procs
  <2>20. CASE ReadEof
    BY <2>20 DEF ReadEof, DropSlot, EventHandled, thread, pipes, procs
  <2>21. CASE WriteData
    <3>1. PICK n \in 1..to_write :
            /\ pend[cur] + n <= PipeCap
            /\ pend' = [pend EXCEPT ![cur] = @ + n]
            /\ to_write' = to_write - n
            /\ IF n = to_write THEN DropSlot(cur) /\ EventHandled
                               ELSE UNCHANGED <<pc, batch, cur, slots, edge>>
      BY <2>21 DEF WriteData
    <3>2. cur \in Streams /\ pend[cur] \in 0..PipeCap
      BY <2>21 DEF WriteData, Streams
    <3>3. /\ pend' \in [Streams -> 0..PipeCap]
          /\ to_write' \in 0..StdinLen
      BY <3>1, <3>2
    <3> QED
      BY <2>21, <3>1, <3>3 DEF WriteData, DropSlot, EventHandled, thread, procs
  <2>22. CASE WriteWouldBlock
    BY <2>22 DEF WriteWouldBlock, EventHandled, thread, pipes, procs
  <2>23. CASE WriteDone
    BY <2>23 DEF WriteDone, DropSlot, EventHandled, thread, pipes, procs
  <2>24. CASE IoFails
    BY <2>24 DEF IoFails, Fail, thread, pipes, procs
  <2>25. CASE ChildExec
    BY <2>25 DEF ChildExec, env, thread, events, pipes, FinalGroup, Procs
  <2>26. ASSUME NEW q \in Procs, NEW k \in Kin, ForkKin(q, k) PROVE TypeOK'
    BY <2>26 DEF ForkKin, env, thread, events, Procs
  <2>27. ASSUME NEW p \in Procs, NEW s \in Streams, ProcWrites(p, s)
         PROVE  TypeOK'
    BY <2>27 DEF ProcWrites, env, thread, events, procs
  <2>28. ASSUME NEW p \in Procs, ProcReads(p) PROVE TypeOK'
    BY <2>28 DEF ProcReads, env, thread, events, procs, Streams
  <2>29. ASSUME NEW p \in Procs, NEW s \in Streams, ProcCloses(p, s)
         PROVE  TypeOK'
    BY <2>29 DEF ProcCloses, LeaveEnds, env, thread, events, procs
  <2>30. ASSUME NEW p \in Procs, NEW x \in Status, Terminate(p, x)
         PROVE  TypeOK'
    BY <2>30 DEF Terminate, LeaveEnds, env, thread, events
  <2>31. ASSUME NEW p \in Procs, ProcCatches(p) PROVE TypeOK'
    BY <2>31 DEF ProcCatches, env, thread, events, pipes
  <2>36. ASSUME NEW p \in Procs, ProcMoves(p) PROVE TypeOK'
    BY <2>36 DEF ProcMoves, env, thread, events, pipes
  <2>32. ASSUME NEW p \in Procs, Process(p) PROVE TypeOK'
    BY <2>27, <2>28, <2>29, <2>30, <2>31, <2>32, <2>36
       DEF Process, ProcBrokenPipe, ProcExits, ProcKilled, ProcTermed, Status,
           Outputs, Streams
  <2>33. CASE ExternalReap
    BY <2>33 DEF ExternalReap, env, thread, events, pipes
  <2>34. CASE Tick
    BY <2>34 DEF Tick, thread, events, pipes, procs, MaxElapsed
  <2>35. CASE UNCHANGED vars
    BY <2>35 DEF vars, thread, events, pipes, procs
  <2> QED
    BY <2>1, <2>2, <2>3, <2>4, <2>5, <2>6, <2>7, <2>8, <2>9, <2>11, <2>12,
       <2>13, <2>14, <2>15, <2>16, <2>17, <2>18, <2>19, <2>20, <2>21, <2>22,
       <2>23, <2>24, <2>25, <2>26, <2>32, <2>33, <2>34, <2>35
       DEF Next, Thread, Top, Handler, Environment, Finished
<1> QED
  BY <1>1, <1>2, PTL DEF Spec

-----------------------------------------------------------------------------
(* No readiness is lost between epoll_wait and the handlers.                *)

\* Between two calls of epoll_wait every open stream that is ready is on the
\* ready list or among the events still to be handled.
Watched ==
  /\ pc # "dispatch" => batch = {}
  /\ pc = "dispatch" => cur \in batch
  /\ pc \notin {"start", "register"} =>
       \A s \in slots \ batch : Ready(s) => s \in edge

\* Only the streams of the call are open.
LEMMA SlotsAreStreams == TypeOK => slots \subseteq Streams
BY OptionsAssumption DEF TypeOK, OptionType

LEMMA HandledStaysWatched ==
  ASSUME TypeOK, Watched, pc = "dispatch", EventHandled,
         slots' \subseteq slots, edge \cap slots' \subseteq edge',
         \A s \in slots' : Ready(s)' => Ready(s),
         \A s \in slots' : s = cur => ~Ready(s)'
  PROVE  Watched'
BY DEF Watched, EventHandled

THEOREM WakeupsKept == Spec => []NoLostWakeup
<1>1. Init => Watched
  BY DEF Init, Watched
<1>2. TypeOK /\ Watched /\ [Next]_vars => Watched'
  <2> SUFFICES ASSUME TypeOK, Watched, [Next]_vars PROVE Watched'
    OBVIOUS
  <2>0. slots \subseteq Streams
    BY SlotsAreStreams
  <2>1. CASE \/ SpawnFails \/ SetupFails \/ WaitFails \/ PollFails \/ IoFails
    BY <2>1 DEF SpawnFails, SetupFails, WaitFails, PollFails, IoFails, Fail,
                Watched
  <2>2. CASE SpawnChild
    BY <2>2 DEF SpawnChild, Watched, events
  <2>3. CASE Register
    BY <2>3 DEF Register, Watched, events, pipes, Ready
  <2>4. CASE FirstWaitStep \/ WaitStep \/ WaitBlocking
    BY <2>4 DEF FirstWaitStep, WaitStep, WaitBlocking, Watched, events, pipes,
                Ready
  <2>5. CASE Top \/ PollIdle \/ Tick
    BY <2>5 DEF Top, TopNotDue, TopTerm, TopKill, TopEscalate, TopDueIdle,
                DueStep, PollIdle, Tick, InLoop, Watched, events, pipes, Ready
  <2>6. CASE PollEvents
    BY <2>6 DEF PollEvents, Watched, pipes, Ready
  <2>7. CASE ReadData
    <3>1. cur \in batch /\ \A s \in Streams \ {cur} : pend'[s] = pend[s]
      BY <2>7 DEF ReadData, Watched, TypeOK
    <3>2. CASE UNCHANGED <<pc, events, slots, edge>>
      BY <2>7, <3>1, <3>2 DEF ReadData, Watched, events, Ready, TypeOK,
                              OptionType
    <3>3. CASE DropSlot(cur) /\ EventHandled
      BY <2>7, <3>1, <3>3 DEF ReadData, DropSlot, EventHandled, Watched, Ready,
                              TypeOK
    <3> QED
      BY <2>7, <3>2, <3>3 DEF ReadData
  <2>8. CASE ReadWouldBlock \/ WriteWouldBlock
    <3>1. ~Ready(cur)
      BY <2>8, PipeAssumption
         DEF ReadWouldBlock, WriteWouldBlock, Ready, Outputs
    <3> QED
      BY <2>8, <3>1, HandledStaysWatched
         DEF ReadWouldBlock, WriteWouldBlock, pipes, Ready
  <2>9. CASE ReadEof \/ WriteDone
    BY <2>9, HandledStaysWatched
       DEF ReadEof, WriteDone, DropSlot, pipes, Ready
  <2>10. CASE WriteData
    <3>1. /\ pc = "dispatch" /\ cur = "stdin" /\ cur \in batch
          /\ ends' = ends
          /\ \A s \in Streams \ {cur} : pend'[s] = pend[s]
          /\ \/ DropSlot(cur) /\ EventHandled
             \/ UNCHANGED <<pc, batch, cur, slots, edge>>
      BY <2>10 DEF WriteData, Watched, TypeOK
    <3>2. CASE UNCHANGED <<pc, batch, cur, slots, edge>>
      BY <2>0, <3>1, <3>2 DEF Watched, Ready
    <3>3. CASE DropSlot(cur) /\ EventHandled
      BY <2>0, <3>1, <3>3 DEF DropSlot, EventHandled, Watched, Ready
    <3> QED
      BY <3>1, <3>2, <3>3
  <2>11. CASE ChildExec \/ ExternalReap \/ UNCHANGED vars
    BY <2>11 DEF ChildExec, ExternalReap, vars, env, events, pipes, Watched,
                 Ready
  <2>12. ASSUME NEW q \in Procs, NEW k \in Kin, ForkKin(q, k) PROVE Watched'
    <3>1. \A s \in Streams : Ready(s)' => Ready(s)
      BY <2>12 DEF ForkKin, Ready
    <3> QED
      BY <2>0, <2>12, <3>1 DEF ForkKin, env, events, Watched, TypeOK
  <2>13. ASSUME NEW p \in Procs, NEW s \in Streams, ProcWrites(p, s), s \in Outputs
         PROVE  Watched'
    <3>1. \A t \in Streams : Ready(t)' => Ready(t) \/ (t = s /\ pend[s] = 0)
      BY <2>13 DEF ProcWrites, Ready, Outputs, TypeOK
    <3> QED
      BY <2>0, <2>13, <3>1 DEF ProcWrites, env, events, Watched, TypeOK
  <2>14. ASSUME NEW p \in Procs, ProcReads(p) PROVE Watched'
    <3>1. \A t \in Streams : Ready(t)' => Ready(t)
                                \/ (t = "stdin" /\ pend["stdin"] = PipeCap)
      BY <2>14, PipeAssumption DEF ProcReads, Ready, Streams, TypeOK
    <3> QED
      BY <2>0, <2>14, <3>1 DEF ProcReads, env, events, Watched, TypeOK
  <2>15. ASSUME NEW p \in Procs, NEW S \in SUBSET Streams, LeaveEnds(p, S),
                pend' = pend, UNCHANGED env
         PROVE  Watched'
    <3>1. \A t \in Streams : Ready(t)' => Ready(t)
                                          \/ (t \in S /\ ends[t] = {p})
      BY <2>15 DEF LeaveEnds, Ready, TypeOK
    <3> QED
      BY <2>0, <2>15, <3>1 DEF LeaveEnds, env, events, Watched, TypeOK
  <2>16. ASSUME NEW p \in Procs, Process(p) PROVE Watched'
    <3>1. CASE \E s \in Streams : ProcCloses(p, s)
      BY <2>0, <2>15, <3>1 DEF ProcCloses
    <3>2. CASE \E x \in Status : Terminate(p, x)
      BY <2>15, <3>2 DEF Terminate
    <3>3. CASE ProcCatches(p) \/ ProcMoves(p)
      BY <3>3 DEF ProcCatches, ProcMoves, env, events, pipes, Watched, Ready
    <3> QED
      BY <2>13, <2>14, <2>16, <3>1, <3>2, <3>3
         DEF Process, ProcBrokenPipe, ProcExits, ProcKilled, ProcTermed,
             Outputs, Streams, Status
  <2> QED
    BY <2>1, <2>2, <2>3, <2>4, <2>5, <2>6, <2>7, <2>8, <2>9, <2>10, <2>11,
       <2>12, <2>16
       DEF Next, Thread, Handler, Environment, Finished
<1>3. Watched => NoLostWakeup
  BY DEF Watched, NoLostWakeup
<1> QED
  BY <1>1, <1>2, <1>3, TypeCorrect, PTL DEF Spec

-----------------------------------------------------------------------------
(* What wait_loop sends.                                                    *)

\* kill_state tells how much of the policy has been carried out.
Cancelling ==
  /\ kill_state = "None" => sent = <<>>
  /\ kill_state # "None" => opts.timed /\ opts.cancel # "None"
  /\ kill_state = "TermSent" => opts.cancel = "Graceful" /\ Len(sent) = 1
  /\ CancelContract

\* A signal reaches its targets, and a SIGKILL that is pending stays so.
LEMMA SignalFinds ==
  ASSUME NEW x, Signal(x), NEW p \in Procs
  PROVE  /\ p \in Targets => sig'[p] = x \/ (sig[p] = "KILL" /\ sig'[p] = "KILL")
         /\ sig[p] = "KILL" => sig'[p] = "KILL"
         /\ sig'[p] = x \/ sig'[p] = sig[p]
<1>1. PICK T \in Found :
        sig' = [q \in Procs |-> IF q \in T /\ sig[q] # "KILL" THEN x ELSE sig[q]]
  BY DEF Signal
<1>2. Targets \subseteq T
  BY DEF Found
<1> QED
  BY <1>1, <1>2

\* A signal is appended to sent with the time at which it was sent.
LEMMA SignalAppends ==
  ASSUME TypeOK, NEW x \in {"TERM", "KILL"}, Signal(x)
  PROVE  /\ Len(sent') = Len(sent) + 1
         /\ \A i \in 1..Len(sent) : sent'[i] = sent[i]
         /\ sent'[Len(sent) + 1].sig = x
         /\ sent'[Len(sent) + 1].at = elapsed
<1> DEFINE r == [sig |-> x, at |-> elapsed, reaped |-> proc[Child] = "gone"]
<1>1. sent \in Seq([sig : {"TERM", "KILL"}, at : 0..MaxElapsed,
                    reaped : BOOLEAN])
  BY DEF TypeOK
<1>2. sent' = Append(sent, r)
  BY DEF Signal
<1>3. r.sig = x /\ r.at = elapsed
  OBVIOUS
<1> QED
  BY <1>1, <1>2, <1>3

LEMMA AlwaysCancelling == Spec => []Cancelling
<1>1. Init => Cancelling
  BY DEF Init, Cancelling, CancelContract
<1>2. TypeOK /\ Cancelling /\ [Next]_vars => Cancelling'
  <2> SUFFICES ASSUME TypeOK, Cancelling, [Next]_vars PROVE Cancelling'
    OBVIOUS
  <2>1. CASE UNCHANGED <<opts, kill_state, sent>>
    BY <2>1 DEF Cancelling, CancelContract
  <2>2. CASE TopTerm
    <3>1. /\ opts.timed /\ elapsed >= Deadline /\ opts.cancel = "Graceful"
          /\ sent = <<>> /\ opts' = opts
      BY <2>2 DEF TopTerm, DueStep, Due, Cancelling
    <3>2. CASE Signal("TERM") /\ kill_state' = "TermSent"
      <4>1. Len(sent') = 1 /\ sent'[1].sig = "TERM" /\ sent'[1].at = elapsed
        BY <3>1, <3>2, SignalAppends
      <4> QED
        BY <3>1, <3>2, <4>1 DEF Cancelling, CancelContract
    <3>3. CASE Refused /\ kill_state' = "KillSent"
      BY <3>1, <3>3 DEF Refused, Cancelling, CancelContract
    <3> QED
      BY <2>2, <3>2, <3>3 DEF TopTerm
  <2>3. CASE TopKill
    <3>1. /\ opts.timed /\ elapsed >= Deadline /\ opts.cancel = "Kill"
          /\ sent = <<>> /\ opts' = opts /\ kill_state' = "KillSent"
      BY <2>3 DEF TopKill, DueStep, Due, Cancelling
    <3>2. CASE Signal("KILL")
      <4>1. Len(sent') = 1 /\ sent'[1].sig = "KILL" /\ sent'[1].at = elapsed
        BY <3>1, <3>2, SignalAppends
      <4> QED
        BY <3>1, <3>2, <4>1 DEF Cancelling, CancelContract
    <3>3. CASE Refused
      BY <3>1, <3>3 DEF Refused, Cancelling, CancelContract
    <3> QED
      BY <2>3, <3>2, <3>3 DEF TopKill
  <2>4. CASE TopEscalate
    <3>1. /\ opts.timed /\ opts.cancel = "Graceful" /\ Len(sent) = 1
          /\ elapsed \in Nat /\ elapsed > Deadline + Grace
          /\ opts' = opts /\ kill_state' = "KillSent"
      BY <2>4, ClockAssumption
         DEF TopEscalate, DueStep, Due, Cancelling, TypeOK, MaxElapsed
    <3>2. CASE Signal("KILL")
      <4>1. /\ Len(sent') = 2 /\ sent'[1] = sent[1]
            /\ sent'[2].sig = "KILL" /\ sent'[2].at = elapsed
        BY <3>1, <3>2, SignalAppends
      <4>2. sent[1].sig = "TERM" /\ sent[1].at >= Deadline
        BY <3>1 DEF Cancelling, CancelContract
      <4>3. \A i \in 1..2 : i = 1 \/ i = 2
        OBVIOUS
      <4>4. \A i \in 1..Len(sent') : sent'[i].at >= Deadline
        BY <3>1, <4>1, <4>2, <4>3, ClockAssumption
      <4> QED
        BY <3>1, <4>1, <4>2, <4>4 DEF Cancelling, CancelContract
    <3>3. CASE Refused
      BY <3>1, <3>3 DEF Refused, Cancelling, CancelContract
    <3> QED
      BY <2>4, <3>2, <3>3 DEF TopEscalate
  <2>5. \/ UNCHANGED <<opts, kill_state, sent>>
        \/ TopTerm \/ TopKill \/ TopEscalate
    <3>1. CASE Thread
      BY <3>1 DEF Thread, Top, Handler, SpawnFails, SpawnChild, SetupFails,
        Register, FirstWaitStep, WaitFails, WaitStep, WaitBlocking, TopNotDue,
        TopDueIdle, DueStep, PollEvents, PollFails, ReadData, ReadWouldBlock, ReadEof,
        WriteData, WriteWouldBlock, WriteDone, IoFails, thread
    <3>2. CASE PollIdle \/ Environment \/ Finished \/ UNCHANGED vars
      BY <3>2 DEF PollIdle, Environment, Finished, vars, thread, env,
        ChildExec, ForkKin, Process, ProcWrites, ProcBrokenPipe, ProcReads,
        ProcCloses, ProcExits, ProcKilled, ProcTermed, ProcCatches, ProcMoves, Terminate,
        ExternalReap, Tick
    <3> QED
      BY <3>1, <3>2 DEF Next
  <2> QED
    BY <2>1, <2>2, <2>3, <2>4, <2>5
<1> QED
  BY <1>1, <1>2, TypeCorrect, PTL DEF Spec

\* CancelPolicy is obeyed in every run: wait_loop sends nothing but what the
\* policy of the call allows, and not before its time.
THEOREM CancelObeyed == Spec => []CancelContract
<1>1. Cancelling => CancelContract
  BY DEF Cancelling
<1> QED
  BY <1>1, AlwaysCancelling, PTL

-----------------------------------------------------------------------------
(* The status of the child.                                                 *)

\* The status is known to the thread only once the child is reaped, and it is
\* the one the child ended with.
Accounted ==
  /\ Alive(Child) \/ proc[Child] = "none" =>
       fate = Running /\ status_raw = Running
  /\ proc[Child] = "zombie" => fate # Running /\ status_raw = Running
  /\ status_raw # Running => status_raw = fate /\ proc[Child] = "gone"
  /\ pc = "start" => proc[Child] = "none"
  /\ pc = "ok" => ~opts.wait \/ status_raw # Running

LEMMA AccountedInit == Init => Accounted
BY DEF Init, Accounted, Procs, Alive

LEMMA AccountedStep == TypeOK /\ Accounted /\ [Next]_vars => Accounted'
<1> SUFFICES ASSUME TypeOK, Accounted, [Next]_vars PROVE Accounted'
  OBVIOUS
<1>1. CASE SpawnChild
  BY <1>1 DEF SpawnChild, Accounted, Alive, TypeOK, thread, Procs
<1>2. CASE Register
  BY <1>2 DEF Register, Accounted, Alive, thread, procs
<1>3. CASE FirstWaitStep \/ WaitStep \/ WaitBlocking
  BY <1>3 DEF FirstWaitStep, WaitStep, WaitBlocking, Reap, NotYet, Accounted,
              Alive, TypeOK, Procs
<1>4. CASE UNCHANGED <<opts, status_raw, proc, fate>> /\ pc' # "start"
           /\ pc' # "ok"
  BY <1>4 DEF Accounted, Alive
<1>5. CASE UNCHANGED <<opts, status_raw, proc, fate, pc>>
  BY <1>5 DEF Accounted, Alive
<1>6. CASE SpawnFails \/ SetupFails \/ WaitFails \/ PollFails \/ IoFails
  BY <1>4, <1>6 DEF SpawnFails, SetupFails, WaitFails, PollFails, IoFails,
                    Fail, thread, procs
<1>7. CASE Top \/ PollEvents \/ PollIdle
  BY <1>4, <1>7 DEF Top, TopNotDue, TopTerm, TopKill, TopEscalate,
       TopDueIdle, DueStep, PollEvents, PollIdle, thread, procs
<1>8. CASE Handler
  BY <1>4, <1>5, <1>8 DEF Handler, ReadData, ReadWouldBlock, ReadEof,
       WriteData, WriteWouldBlock, WriteDone, EventHandled, thread, procs
<1>9. CASE ChildExec
  BY <1>9 DEF ChildExec, env, thread, Accounted, Alive, TypeOK, Procs
<1>10. ASSUME NEW q \in Procs, NEW k \in Kin, ForkKin(q, k) PROVE Accounted'
  BY <1>10, ProcsAssumption
     DEF ForkKin, env, thread, Accounted, Alive, TypeOK, Procs
<1>11. ASSUME NEW p \in Procs, NEW x \in Status, Alive(p), Terminate(p, x)
       PROVE  Accounted'
  BY <1>11 DEF Terminate, env, thread, Accounted, Alive, TypeOK, Procs,
               Status, Running
<1>12. ASSUME NEW p \in Procs, Process(p) PROVE Accounted'
  <2>1. CASE \E x \in Status : Alive(p) /\ Terminate(p, x)
    BY <1>11, <2>1
  <2>2. CASE UNCHANGED <<opts, status_raw, proc, fate, pc>>
    BY <1>5, <2>2
  <2> QED
    BY <1>12, <2>1, <2>2
       DEF Process, ProcWrites, ProcReads, ProcCloses, ProcBrokenPipe,
           ProcExits, ProcKilled, ProcTermed, ProcCatches, ProcMoves, Alive, Status,
           env, thread, procs
<1>13. CASE ExternalReap
  BY <1>13 DEF ExternalReap, env, thread, Accounted, Alive, TypeOK, Procs
<1>14. CASE Tick \/ Finished \/ UNCHANGED vars
  BY <1>5, <1>14 DEF Tick, Finished, vars, thread, procs
<1> QED
  BY <1>1, <1>2, <1>3, <1>6, <1>7, <1>8, <1>9, <1>10, <1>12, <1>13, <1>14
     DEF Next, Thread, Environment

\* wait_blocking and wait_step: a run that waits for its child and succeeds
\* has reaped it and reports the status it ended with.
THEOREM ChildReaped == Spec => []ReapedWithStatus
<1>1. TypeOK /\ Accounted => ReapedWithStatus
  BY DEF Accounted, ReapedWithStatus
<1> QED
  BY <1>1, AccountedInit, AccountedStep, TypeCorrect, PTL DEF Spec

-----------------------------------------------------------------------------
(* What a successful run has captured.                                      *)

\* A stream is closed only once there is nothing more to move through it.
Captured ==
  /\ pc \in {"ok", "block"} => slots = {}
  /\ pc = "register" => Valid(opts)
  /\ pc \notin {"start", "err"} =>
       /\ \A s \in (opts.pipes \cap Outputs) \ slots :
            \/ ends[s] = {} /\ pend[s] = 0
            \/ s = "stdout" /\ hit
       /\ "stdin" \in opts.pipes \ slots => to_write = 0 \/ ends["stdin"] = {}

LEMMA AlwaysCaptured == Spec => []Captured
<1>1. Init => Captured
  BY DEF Init, Captured
<1>2. TypeOK /\ Captured /\ [Next]_vars => Captured'
  <2> SUFFICES ASSUME TypeOK, Captured, [Next]_vars PROVE Captured'
    OBVIOUS
  <2>0. slots \subseteq opts.pipes /\ opts.pipes \subseteq Streams
    BY OptionsAssumption DEF TypeOK, OptionType
  <2>1. CASE SpawnFails \/ SetupFails \/ WaitFails \/ PollFails \/ IoFails
    BY <2>1 DEF SpawnFails, SetupFails, WaitFails, PollFails, IoFails, Fail,
                Captured
  <2>2. CASE SpawnChild
    BY <2>2 DEF SpawnChild, Captured
  <2>3. CASE Register
    BY <2>0, <2>3 DEF Register, Captured, Valid, events, pipes
  <2>4. CASE FirstWaitStep \/ WaitStep \/ WaitBlocking
    BY <2>4 DEF FirstWaitStep, WaitStep, WaitBlocking, Captured, events, pipes
  <2>5. CASE Top \/ PollIdle \/ Tick \/ PollEvents
    BY <2>5 DEF Top, TopNotDue, TopTerm, TopKill, TopEscalate, TopDueIdle,
                DueStep, PollIdle, Tick, PollEvents, Captured, events, pipes
  <2>6. CASE ReadData
    <3>1. /\ pc = "dispatch" /\ cur \in Outputs /\ pend[cur] # 0
          /\ UNCHANGED <<opts, to_write, ends>>
          /\ \A s \in Streams \ {cur} : pend'[s] = pend[s]
      BY <2>6 DEF ReadData, Captured, TypeOK
    <3> QED
      BY <2>0, <2>6, <3>1 DEF ReadData, DropSlot, EventHandled, Captured,
                              events, Outputs
  <2>7. CASE ReadWouldBlock \/ WriteWouldBlock
    BY <2>7 DEF ReadWouldBlock, WriteWouldBlock, EventHandled, Captured, pipes
  <2>8. CASE ReadEof
    BY <2>8 DEF ReadEof, DropSlot, EventHandled, Captured, pipes, Outputs
  <2>9. CASE WriteDone
    BY <2>9 DEF WriteDone, DropSlot, EventHandled, Captured, pipes, Outputs
  <2>10. CASE WriteData
    BY <2>0, <2>10 DEF WriteData, DropSlot, EventHandled, Captured, Outputs,
                       TypeOK
  <2>11. CASE ChildExec \/ ExternalReap \/ UNCHANGED vars
    BY <2>11 DEF ChildExec, ExternalReap, vars, env, events, pipes, Captured
  <2>12. ASSUME NEW q \in Procs, NEW k \in Kin, ForkKin(q, k) PROVE Captured'
    <3>1. \A s \in Streams : ends[s] = {} => ends'[s] = {}
      BY <2>12 DEF ForkKin
    <3> QED
      BY <2>0, <2>12, <3>1 DEF ForkKin, env, events, Captured, Streams
  <2>13. ASSUME NEW p \in Procs, NEW s \in Streams, ProcWrites(p, s)
         PROVE  Captured'
    BY <2>0, <2>13 DEF ProcWrites, env, events, Captured, TypeOK
  <2>14. ASSUME NEW p \in Procs, ProcReads(p) PROVE Captured'
    BY <2>0, <2>14 DEF ProcReads, env, events, Captured, TypeOK, Outputs
  <2>15. ASSUME NEW p \in Procs, NEW S \in SUBSET Streams, LeaveEnds(p, S),
                pend' = pend, UNCHANGED env
         PROVE  Captured'
    <3>1. \A s \in Streams : ends[s] = {} => ends'[s] = {}
      BY <2>15 DEF LeaveEnds
    <3> QED
      BY <2>0, <2>15, <3>1 DEF env, events, Captured, Streams
  <2>16. ASSUME NEW p \in Procs, Process(p) PROVE Captured'
    <3>1. CASE \E s \in Streams : ProcCloses(p, s)
      BY <2>15, <3>1 DEF ProcCloses
    <3>2. CASE \E x \in Status : Terminate(p, x)
      BY <2>15, <3>2 DEF Terminate
    <3>3. CASE ProcCatches(p) \/ ProcMoves(p)
      BY <3>3 DEF ProcCatches, ProcMoves, env, events, pipes, Captured
    <3> QED
      BY <2>13, <2>14, <2>16, <3>1, <3>2, <3>3
         DEF Process, ProcBrokenPipe, ProcExits, ProcKilled, ProcTermed,
             Outputs, Streams, Status
  <2> QED
    BY <2>1, <2>2, <2>3, <2>4, <2>5, <2>6, <2>7, <2>8, <2>9, <2>10, <2>11,
       <2>12, <2>16
       DEF Next, Thread, Handler, Environment, Finished
<1> QED
  BY <1>1, <1>2, TypeCorrect, PTL DEF Spec

\* DrainState is done only when every pipe is: a run that succeeds has all the
\* output of its child, unless early_exit stopped it.
THEOREM IoCompleted == Spec => []CompleteIo
<1>1. Captured => CompleteIo
  BY DEF Captured, CompleteIo
<1> QED
  BY <1>1, AlwaysCaptured, PTL

-----------------------------------------------------------------------------
(* timed_out and the signals.                                               *)

\* Before timed_out is set nobody has a signal pending or has died of one.
Unsignalled ==
  ~timed_out =>
    /\ \A p \in Procs : sig[p] = "none"
    /\ fate \notin {"sigterm", "sigkill"}
    /\ status_raw \notin {"sigterm", "sigkill"}

\* Output.timed_out: the signals of wait_loop are sent in the iterations that
\* set timed_out, so a child that died of one is reported as timed out.
THEOREM KillsAreReported == Spec => []KilledIsReported
<1>1. Init => Unsignalled
  BY DEF Init, Unsignalled, Running
<1>2. TypeOK /\ Unsignalled /\ [Next]_vars => Unsignalled'
  <2> SUFFICES ASSUME TypeOK, Unsignalled, [Next]_vars PROVE Unsignalled'
    OBVIOUS
  <2>1. CASE UNCHANGED <<timed_out, status_raw, sig, fate>>
    BY <2>1 DEF Unsignalled
  <2>2. CASE FirstWaitStep \/ WaitStep \/ WaitBlocking
    BY <2>2 DEF FirstWaitStep, WaitStep, WaitBlocking, Reap, NotYet,
                Unsignalled
  <2>3. CASE TopTerm \/ TopKill \/ TopEscalate \/ TopDueIdle
    BY <2>3 DEF TopTerm, TopKill, TopEscalate, TopDueIdle, DueStep,
                Unsignalled
  <2>4. CASE Thread
    BY <2>1, <2>2, <2>3, <2>4
       DEF Thread, Top, Handler, SpawnFails, SpawnChild, SetupFails, Register,
           WaitFails, TopNotDue, PollEvents, PollFails, ReadData,
           ReadWouldBlock, ReadEof, WriteData, WriteWouldBlock, WriteDone,
           IoFails, Fail, thread, procs
  <2>5. ASSUME NEW p \in Procs, Process(p) PROVE Unsignalled'
    <3>1. CASE ProcExits(p) \/ \E s \in Outputs : ProcBrokenPipe(p, s)
      BY <3>1 DEF ProcExits, ProcBrokenPipe, Terminate, env, thread, TypeOK,
                  Unsignalled
    <3>2. CASE ProcKilled(p) \/ ProcTermed(p) \/ ProcCatches(p)
      <4>1. timed_out /\ timed_out' = timed_out
        BY <2>5, <3>2
           DEF ProcKilled, ProcTermed, ProcCatches, ProcMoves, Terminate, env, thread,
               Unsignalled
      <4> QED
        BY <4>1 DEF Unsignalled
    <3> QED
      BY <2>1, <2>5, <3>1, <3>2
         DEF Process, ProcWrites, ProcReads, ProcCloses, ProcMoves, env, thread, procs
  <2>6. CASE \/ PollIdle \/ ChildExec \/ ExternalReap \/ Tick \/ Finished
             \/ UNCHANGED vars \/ \E q \in Procs, k \in Kin : ForkKin(q, k)
    BY <2>1, <2>6 DEF PollIdle, ChildExec, ExternalReap, Tick, Finished, vars,
                      ForkKin, env, thread, procs
  <2> QED
    BY <2>4, <2>5, <2>6 DEF Next, Environment
<1>3. Unsignalled => KilledIsReported
  BY DEF Unsignalled, KilledIsReported
<1> QED
  BY <1>1, <1>2, <1>3, TypeCorrect, PTL DEF Spec

-----------------------------------------------------------------------------
(* Runs without a failing call.                                             *)

\* Only this thread reaps its child, and it waits only for one it has not reaped.
Unfailing ==
  Faults = {} =>
    /\ proc[Child] = "gone" => status_raw # Running
    /\ pc \in {"start", "register", "first", "block"} => status_raw = Running
    /\ Valid(opts) => pc # "err"

\* wait_loop tests status_raw before each wait: as long as no system call
\* fails, spawn() does not fail either.
THEOREM NoErrorOfItsOwn == Spec => []NoSpuriousError
<1>1. Init => Unfailing
  BY DEF Init, Unfailing, Procs
<1>2. TypeOK /\ Accounted /\ Unfailing /\ [Next]_vars => Unfailing'
  <2> SUFFICES ASSUME TypeOK, Accounted, Unfailing, [Next]_vars, Faults = {}
               PROVE  Unfailing'
    BY DEF Unfailing
  <2>1. CASE SpawnFails \/ SetupFails \/ PollFails \/ IoFails
    BY <2>1 DEF SpawnFails, SetupFails, PollFails, IoFails, Fail, thread,
                procs, Unfailing
  <2>2. CASE SpawnChild
    BY <2>2 DEF SpawnChild, thread, TypeOK, Procs, Unfailing
  <2>3. CASE Register
    BY <2>3 DEF Register, thread, procs, Unfailing
  <2>4. CASE WaitFails
    BY <2>4 DEF WaitFails, Unfailing
  <2>5. CASE FirstWaitStep \/ WaitStep \/ WaitBlocking
    BY <2>5 DEF FirstWaitStep, WaitStep, WaitBlocking, Reap, NotYet, Alive,
                TypeOK, Procs, Accounted, Unfailing
  <2>6. CASE UNCHANGED <<opts, status_raw, proc>>
             /\ (pc' = pc \/ pc' \in {"top", "reap", "poll", "dispatch"})
    BY <2>6 DEF Unfailing, Valid
  <2>7. CASE Top \/ PollEvents \/ PollIdle
    BY <2>6, <2>7 DEF Top, TopNotDue, TopTerm, TopKill, TopEscalate,
         TopDueIdle, DueStep, PollEvents, PollIdle, thread, procs
  <2>8. CASE Handler
    BY <2>6, <2>8 DEF Handler, ReadData, ReadWouldBlock, ReadEof, WriteData,
         WriteWouldBlock, WriteDone, EventHandled, thread, procs
  <2>9. ASSUME NEW p \in Procs, NEW x \in {"setup", "live", "zombie", "gone"},
               UNCHANGED <<opts, status_raw, pc>>,
               proc' = [proc EXCEPT ![p] = x], p = Child => x # "gone"
        PROVE  Unfailing'
    BY <2>9 DEF TypeOK, Procs, Unfailing, Valid
  <2>10. CASE ChildExec \/ \E q \in Procs, k \in Kin : ForkKin(q, k)
    BY <2>9, <2>10, ProcsAssumption
       DEF ChildExec, ForkKin, env, thread, Procs
  <2>11. ASSUME NEW p \in Procs, Process(p) PROVE Unfailing'
    <3>1. CASE \E x \in Status : Terminate(p, x)
      BY <2>9, <3>1 DEF Terminate, env, thread
    <3> QED
      BY <2>6, <2>11, <3>1
         DEF Process, ProcWrites, ProcReads, ProcCloses, ProcBrokenPipe,
             ProcExits, ProcKilled, ProcTermed, ProcCatches, ProcMoves, Status, env,
             thread, procs
  <2>12. CASE ExternalReap
    BY <2>12 DEF ExternalReap
  <2>13. CASE Tick \/ Finished \/ UNCHANGED vars
    BY <2>6, <2>13 DEF Tick, Finished, vars, thread, procs
  <2> QED
    BY <2>1, <2>2, <2>3, <2>4, <2>5, <2>7, <2>8, <2>10, <2>11, <2>12, <2>13
       DEF Next, Thread, Environment
<1>3. Unfailing => NoSpuriousError
  BY DEF Unfailing, NoSpuriousError
<1> QED
  BY <1>1, <1>2, <1>3, AccountedInit, AccountedStep, TypeCorrect, PTL DEF Spec

-----------------------------------------------------------------------------
(* SIGKILL and the child.                                                   *)

\* The options with which kill finds the child whenever it is there: it is not
\* in a group of its own, or leads one that posix_spawn has made on return.
Reachable(o) ==
  /\ ~o.isolated
  /\ o.leader = "none" \/ (o.leader = "self" /\ Backend(o) = "PosixSpawn")

\* The child is where the signals go.
Reached ==
  /\ pc = "start" => sent = <<>>
  /\ opts.leader = "self" =>
       /\ proc[Child] # "setup"
       /\ proc[Child] = "live" => group[Child] \in {"own", "moved"}
  /\ proc[Child] \in {"none", "setup"} => group[Child] = "parent"
  /\ KillReachesChild

\* A signal reaches the child, and a SIGKILL that is pending stays so.
LEMMA SignalReaches ==
  ASSUME TypeOK, Reached, Reachable(opts), NEW x \in {"TERM", "KILL"}, Signal(x)
  PROVE  /\ x = "KILL" /\ Alive(Child) /\ group[Child] # "moved" => sig'[Child] = "KILL"
         /\ sig[Child] = "KILL" => sig'[Child] = "KILL"
<1>1. Alive(Child) /\ group[Child] # "moved" => Child \in Targets
  BY DEF Targets, TargetIsGroup, Reachable, Reached, Alive, Procs
<1> QED
  BY <1>1, SignalFinds DEF Procs

\* A step in which no signal is sent.
LEMMA UnsentStep ==
  ASSUME TypeOK, Reached, UNCHANGED <<opts, sent>>,
         \/ group'[Child] = group[Child]
         \/ proc[Child] = "live" /\ group'[Child] = "moved",
         pc' = "start" => pc = "start",
         proc'[Child] = proc[Child] \/ proc'[Child] \in {"zombie", "gone"},
         sig'[Child] = sig[Child] \/ proc'[Child] \in {"zombie", "gone"}
           \/ (sig[Child] # "KILL" /\ sig'[Child] = "none")
  PROVE  Reached'
BY DEF Reached, KillReachesChild, KillSent, Alive

LEMMA AlwaysReached ==
  ASSUME \A o \in Options : Reachable(o)
  PROVE  Spec => []Reached
<1>1. Init => Reached
  BY DEF Init, Reached, KillReachesChild, KillSent, Procs
<1>2. TypeOK /\ Accounted /\ Reached /\ [Next]_vars => Reached'
  <2> SUFFICES ASSUME TypeOK, Accounted, Reached, [Next]_vars PROVE Reached'
    OBVIOUS
  <2>0. Reachable(opts) /\ Child \in Procs
    BY DEF TypeOK, Procs
  <2>1. CASE SpawnFails \/ SetupFails \/ PollFails \/ IoFails \/ WaitFails
    BY <2>1, UnsentStep DEF SpawnFails, SetupFails, PollFails, IoFails, WaitFails,
                            Fail, procs
  <2>2. CASE SpawnChild
    <3>1. sent' = <<>> /\ opts' = opts /\ pc' = "register"
      BY <2>2 DEF SpawnChild, Reached
    <3>2. opts.leader = "self" => proc'[Child] = "live" /\ group'[Child] = "own"
      BY <2>0, <2>2 DEF SpawnChild, Reachable, FinalGroup, TypeOK
    <3>3. proc'[Child] \in {"none", "setup"} => group'[Child] = "parent"
      BY <2>0, <2>2 DEF SpawnChild, Reached, Accounted, TypeOK
    <3> QED
      BY <3>1, <3>2, <3>3 DEF Reached, KillReachesChild, KillSent
  <2>3. CASE Register
    BY <2>3, UnsentStep DEF Register, procs
  <2>4. CASE FirstWaitStep \/ WaitStep \/ WaitBlocking
    BY <2>0, <2>4, UnsentStep
       DEF FirstWaitStep, WaitStep, WaitBlocking, Reap, NotYet, TypeOK
  <2>5. ASSUME DueStep, NEW x \in {"TERM", "KILL"}, Signal(x) PROVE Reached'
    <3>1. UNCHANGED <<opts, proc, group>> /\ pc' = "reap"
      BY <2>5 DEF DueStep
    <3>2. /\ x = "KILL" /\ Alive(Child) /\ group[Child] # "moved" => sig'[Child] = "KILL"
          /\ sig[Child] = "KILL" => sig'[Child] = "KILL"
      BY <2>0, <2>5, SignalReaches
    <3>3. ASSUME NEW i \in 1..Len(sent'), sent'[i].sig = "KILL", x # "KILL"
          PROVE  i \in 1..Len(sent) /\ sent[i].sig = "KILL"
      BY <2>5, <3>3, SignalAppends DEF TypeOK
    <3> QED
      BY <3>1, <3>2, <3>3 DEF Reached, KillReachesChild, KillSent, Alive
  <2>6. CASE UNCHANGED <<opts, procs, sent>> /\ (pc' = "start" => pc = "start")
    BY <2>6, UnsentStep DEF procs
  <2>7. CASE Top
    <3>1. CASE TopTerm \/ TopKill \/ TopEscalate
      <4>1. DueStep /\ (Signal("TERM") \/ Signal("KILL") \/ UNCHANGED <<sig, sent>>)
        BY <3>1 DEF TopTerm, TopKill, TopEscalate, Refused
      <4>2. CASE UNCHANGED <<sig, sent>>
        BY <2>6, <4>1, <4>2 DEF DueStep, procs
      <4> QED
        BY <2>5, <4>1, <4>2
    <3>2. CASE TopNotDue \/ TopDueIdle
      BY <2>6, <3>2 DEF TopNotDue, TopDueIdle, DueStep, procs
    <3> QED
      BY <2>7, <3>1, <3>2 DEF Top
  <2>8. CASE Handler \/ PollEvents \/ PollIdle
    BY <2>6, <2>8 DEF PollEvents, PollIdle, Handler, ReadData, ReadWouldBlock,
         ReadEof, WriteData, WriteWouldBlock, WriteDone, EventHandled, procs
  <2>9. CASE ChildExec
    <3>1. opts.leader # "self" /\ UNCHANGED <<opts, pc, sig, sent>>
      BY <2>9 DEF ChildExec, Reached, env
    <3>2. /\ proc[Child] = "setup" /\ proc'[Child] = "live"
          /\ group[Child] = "parent"
      BY <2>0, <2>9 DEF ChildExec, Reached, TypeOK
    <3> QED
      BY <3>1, <3>2 DEF Reached, KillReachesChild, KillSent, Alive
  <2>10. ASSUME NEW q \in Procs, NEW k \in Kin, ForkKin(q, k) PROVE Reached'
    <3>1. /\ proc'[Child] = proc[Child] /\ group'[Child] = group[Child]
          /\ UNCHANGED <<opts, pc, sig, sent>>
      BY <2>0, <2>10, ProcsAssumption DEF ForkKin, env, TypeOK
    <3> QED
      BY <3>1 DEF Reached, KillReachesChild, KillSent, Alive
  <2>11. ASSUME NEW p \in Procs, Process(p) PROVE Reached'
    <3>1. CASE \E x \in Status : Terminate(p, x)
      <4>1. UNCHANGED <<opts, pc, group, sent>>
        BY <3>1 DEF Terminate, env
      <4>2. /\ proc'[Child] = proc[Child] \/ proc'[Child] \in {"zombie", "gone"}
            /\ sig'[Child] = sig[Child] \/ proc'[Child] \in {"zombie", "gone"}
        BY <2>0, <3>1 DEF Terminate, TypeOK
      <4> QED
        BY <4>1, <4>2, UnsentStep
    <3>2. CASE ProcCatches(p)
      <4>1. UNCHANGED <<opts, pc, proc, group, sent>>
        BY <3>2 DEF ProcCatches, env
      <4>2. sig'[Child] = sig[Child] \/ (sig[Child] # "KILL" /\ sig'[Child] = "none")
        BY <2>0, <3>2 DEF ProcCatches, TypeOK
      <4> QED
        BY <4>1, <4>2, UnsentStep
    <3>3. CASE ProcMoves(p)
      <4>1. /\ UNCHANGED <<opts, pc, proc, sig, sent>>
            /\ \/ group'[Child] = group[Child]
               \/ proc[Child] = "live" /\ group'[Child] = "moved"
        BY <2>0, <3>3 DEF ProcMoves, env, TypeOK
      <4> QED
        BY <4>1, UnsentStep
    <3> QED
      BY <2>6, <2>11, <3>1, <3>2, <3>3
         DEF Process, ProcWrites, ProcReads, ProcCloses, ProcBrokenPipe,
             ProcExits, ProcKilled, ProcTermed, Status, env, procs
  <2>12. CASE ExternalReap
    <3>1. proc'[Child] = "gone" /\ UNCHANGED <<opts, pc, group, sig, sent>>
      BY <2>0, <2>12 DEF ExternalReap, env, TypeOK
    <3> QED
      BY <3>1, UnsentStep
  <2>13. CASE Tick \/ Finished \/ UNCHANGED vars
    BY <2>6, <2>13 DEF Tick, Finished, vars, procs
  <2> QED
    BY <2>1, <2>2, <2>3, <2>4, <2>7, <2>8, <2>9, <2>10, <2>11, <2>12, <2>13
       DEF Next, Thread, Environment
<1> QED
  BY <1>1, <1>2, AccountedInit, AccountedStep, TypeCorrect, PTL DEF Spec

\* CancelPolicy ("Send SIGKILL"): once SIGKILL counts as sent, a child that is
\* still there has it pending, with every fault and however the policy came to
\* it.  What the premise excludes are groups the child may not be in: another
\* process's, and one that a forked child has still to make; the property excludes a
\* child whose program leaves the group it leads.
THEOREM KillsReach ==
  ASSUME \A o \in Options : Reachable(o)
  PROVE  Spec => []KillReachesChild
<1>1. Reached => KillReachesChild
  BY DEF Reached
<1> QED
  BY <1>1, AlwaysReached, PTL

-----------------------------------------------------------------------------
(* The signals are sent in time.                                            *)

\* kill_state says what was sent, if kill does not fail.
Counted ==
  /\ kill_state = "TermSent" => opts.cancel = "Graceful"
  /\ kill_state = "KillSent" => \E i \in 1..Len(sent) : sent[i].sig = "KILL"

LEMMA AlwaysCounted ==
  ASSUME "eperm" \notin Faults
  PROVE  Spec => []Counted
<1>1. Init => Counted
  BY DEF Init, Counted
<1>2. TypeOK /\ Counted /\ [Next]_vars => Counted'
  <2> SUFFICES ASSUME TypeOK, Counted, [Next]_vars PROVE Counted'
    OBVIOUS
  <2>1. CASE UNCHANGED <<opts, kill_state, sent>>
    BY <2>1 DEF Counted
  <2>2. ASSUME Signal("KILL"), kill_state' = "KillSent" PROVE Counted'
    <3>1. /\ Len(sent') = Len(sent) + 1 /\ sent'[Len(sent) + 1].sig = "KILL"
          /\ Len(sent) \in Nat
      BY <2>2, SignalAppends DEF TypeOK
    <3>2. Len(sent) + 1 \in 1..Len(sent')
      BY <3>1
    <3> QED
      BY <2>2, <3>1, <3>2 DEF Counted
  <2>3. CASE TopTerm
    BY <2>3 DEF TopTerm, DueStep, Refused, Counted
  <2>4. CASE TopKill \/ TopEscalate
    BY <2>2, <2>4 DEF TopKill, TopEscalate, Refused
  <2>5. CASE TopNotDue \/ TopDueIdle
    BY <2>1, <2>5 DEF TopNotDue, TopDueIdle, DueStep
  <2>6. CASE Thread
    BY <2>1, <2>3, <2>4, <2>5, <2>6
       DEF Thread, Top, Handler, SpawnFails, SpawnChild, SetupFails, Register,
           FirstWaitStep, WaitFails, WaitStep, WaitBlocking, PollEvents, PollFails,
           ReadData, ReadWouldBlock, ReadEof, WriteData, WriteWouldBlock, WriteDone,
           IoFails, Fail, thread
  <2>7. CASE PollIdle \/ Environment \/ Finished \/ UNCHANGED vars
    BY <2>1, <2>7
       DEF PollIdle, Environment, Finished, vars, ChildExec, ForkKin, Process,
           ProcWrites, ProcReads, ProcCloses, ProcBrokenPipe, ProcExits, ProcKilled,
           ProcTermed, ProcCatches, ProcMoves, Terminate, ExternalReap, Tick, env, thread
  <2> QED
    BY <2>6, <2>7 DEF Next
<1> QED
  BY <1>1, <1>2, TypeCorrect, PTL DEF Spec

\* wait_loop is not late: an iteration that finds CancelPolicy::Kill due, or the grace
\* period over after SIGTERM, leaves a child that is still there with SIGKILL pending.
\* The premises: kill does not answer EPERM, and the child is started where it is
\* looked for.
THEOREM SignalsInTime ==
  ASSUME \A o \in Options : Reachable(o), "eperm" \notin Faults
  PROVE  Spec => DeadlineObeyed
<1>1. TypeOK /\ Reached /\ Counted /\ [Next]_vars =>
        [ pc = "top" /\ pc' = "reap" /\ Due /\ Alive(Child) /\ group[Child] # "moved"
          /\ \/ opts.cancel = "Kill"
             \/ opts.cancel = "Graceful" /\ kill_state # "None"
                /\ elapsed > Deadline + Grace
          => sig'[Child] = "KILL" ]_vars
  <2> SUFFICES ASSUME TypeOK, Reached, Counted, Next,
                      pc = "top", pc' = "reap", Due, Alive(Child), group[Child] # "moved",
                      \/ opts.cancel = "Kill"
                      \/ opts.cancel = "Graceful" /\ kill_state # "None"
                         /\ elapsed > Deadline + Grace
               PROVE  sig'[Child] = "KILL"
    OBVIOUS
  <2>0. Reachable(opts)
    BY DEF TypeOK
  <2>1. Top
    <3>1. PollIdle \/ Environment \/ Finished => pc' = pc \/ pc' # "reap"
      BY DEF PollIdle, Environment, Finished, vars, ChildExec, ForkKin, Process,
             ProcWrites, ProcReads, ProcCloses, ProcBrokenPipe, ProcExits, ProcKilled,
             ProcTermed, ProcCatches, ProcMoves, Terminate, ExternalReap, Tick, env
    <3>2. Thread /\ pc = "top" => Top
      BY DEF Thread, SpawnFails, SpawnChild, SetupFails, Register, FirstWaitStep,
             WaitFails, WaitStep, WaitBlocking, PollEvents, PollFails, Handler, ReadData,
             ReadWouldBlock, ReadEof, WriteData, WriteWouldBlock, WriteDone, IoFails
    <3> QED
      BY <3>1, <3>2 DEF Next
  <2>2. CASE TopTerm
    BY <2>2 DEF TopTerm
  <2>3. CASE TopKill \/ TopEscalate
    <3>1. Signal("KILL")
      BY <2>3 DEF TopKill, TopEscalate, Refused
    <3> QED
      BY <2>0, <3>1, SignalReaches
  <2>4. CASE TopDueIdle
    <3>1. kill_state = "KillSent" /\ sig' = sig
      <4>1. /\ elapsed \in Nat /\ Deadline \in Nat /\ Grace \in Nat
            /\ kill_state \in {"None", "TermSent", "KillSent"}
        BY ClockAssumption DEF TypeOK, MaxElapsed
      <4>2. elapsed > Deadline + Grace => ~(elapsed - Deadline <= Grace)
        BY <4>1
      <4> QED
        BY <2>4, <4>1, <4>2 DEF TopDueIdle, Counted
    <3> QED
      BY <3>1 DEF Counted, Reached, KillReachesChild, KillSent
  <2>5. CASE TopNotDue
    BY <2>5 DEF TopNotDue
  <2> QED
    BY <2>1, <2>2, <2>3, <2>4, <2>5 DEF Top
<1> QED
  BY <1>1, AlwaysReached, AlwaysCounted, TypeCorrect, PTL DEF Spec, DeadlineObeyed

-----------------------------------------------------------------------------
(* SIGKILL and the group of the child.                                      *)

\* A child that leads a group has its kin in it, but for those that went away.
Together ==
  /\ pc = "start" => sent = <<>>
  /\ opts.leader = "self" =>
       \A p \in Procs : /\ proc[p] # "setup"
                        /\ proc[p] = "live" => group[p] \in {"own", "moved"}
  /\ KillReachesGroup

\* A step of a run in which no signal is sent and nobody is added to the group.
LEMMA TogetherStep ==
  ASSUME TypeOK, Together, UNCHANGED <<opts, sent>>,
         pc' = "start" => pc = "start",
         \A p \in Procs : /\ group'[p] = group[p] \/ group'[p] = "moved"
                          /\ proc'[p] = proc[p] \/ proc'[p] \in {"zombie", "gone"}
                          /\ \/ sig'[p] = sig[p] \/ proc'[p] \in {"zombie", "gone"}
                             \/ sig[p] # "KILL"
  PROVE  Together'
BY DEF Together, KillReachesGroup, KillSent, Alive

\* CancelPolicy with a child that leads its group: once SIGKILL counts as sent, every
\* process that has stayed in the group has it pending, those forked in the meantime
\* included, whoever forks and whoever goes away.  Who went away (a daemon, after
\* setsid) is not reached, and may hold a pipe for ever.
THEOREM KillsReachGroup ==
  ASSUME \A o \in Options : o.leader = "self" => Reachable(o)
  PROVE  Spec => []KillReachesGroup
<1>1. Init => Together
  BY DEF Init, Together, KillReachesGroup, KillSent
<1>2. TypeOK /\ Together /\ [Next]_vars => Together'
  <2> SUFFICES ASSUME TypeOK, Together, [Next]_vars PROVE Together'
    OBVIOUS
  <2>0. (opts.leader = "self" => Reachable(opts)) /\ Child \in Procs
    BY DEF TypeOK, Procs
  <2>1. CASE SpawnFails \/ SetupFails \/ PollFails \/ IoFails \/ WaitFails
    BY <2>1, TogetherStep DEF SpawnFails, SetupFails, PollFails, IoFails, WaitFails,
                              Fail, procs
  <2>2. CASE SpawnChild
    <3>1. sent' = <<>> /\ opts' = opts /\ pc' = "register"
      BY <2>2 DEF SpawnChild, Together
    <3>2. opts.leader = "self" =>
            \A p \in Procs : /\ proc'[p] # "setup"
                             /\ proc'[p] = "live" => group'[p] \in {"own", "moved"}
      BY <2>0, <2>2 DEF SpawnChild, Reachable, FinalGroup, TypeOK, Together
    <3> QED
      BY <3>1, <3>2 DEF Together, KillReachesGroup, KillSent
  <2>3. CASE Register
    BY <2>3, TogetherStep DEF Register, procs
  <2>4. CASE FirstWaitStep \/ WaitStep \/ WaitBlocking
    BY <2>0, <2>4, TogetherStep
       DEF FirstWaitStep, WaitStep, WaitBlocking, Reap, NotYet, TypeOK
  <2>5. ASSUME DueStep, NEW x \in {"TERM", "KILL"}, Signal(x) PROVE Together'
    <3>1. UNCHANGED <<opts, proc, group>> /\ pc' = "reap"
      BY <2>5 DEF DueStep
    <3>2. ASSUME opts.leader = "self", NEW p \in Procs, Alive(p), group[p] # "moved"
          PROVE  sig'[p] = "KILL" \/ (x # "KILL" /\ sig[p] # "KILL")
      <4>1. p \in Targets
        BY <3>2 DEF Targets, TargetIsGroup, Together, Alive
      <4> QED
        BY <2>5, <4>1, SignalFinds
    <3>3. ASSUME NEW i \in 1..Len(sent'), sent'[i].sig = "KILL", x # "KILL"
          PROVE  i \in 1..Len(sent) /\ sent[i].sig = "KILL"
      BY <2>5, <3>3, SignalAppends DEF TypeOK
    <3> QED
      BY <3>1, <3>2, <3>3 DEF Together, KillReachesGroup, KillSent, Alive
  <2>6. CASE UNCHANGED <<opts, procs, sent>> /\ (pc' = "start" => pc = "start")
    BY <2>6, TogetherStep DEF procs
  <2>7. CASE Top
    <3>1. CASE TopTerm \/ TopKill \/ TopEscalate
      <4>1. DueStep /\ (Signal("TERM") \/ Signal("KILL") \/ UNCHANGED <<sig, sent>>)
        BY <3>1 DEF TopTerm, TopKill, TopEscalate, Refused
      <4>2. CASE UNCHANGED <<sig, sent>>
        BY <2>6, <4>1, <4>2 DEF DueStep, procs
      <4> QED
        BY <2>5, <4>1, <4>2
    <3>2. CASE TopNotDue \/ TopDueIdle
      BY <2>6, <3>2 DEF TopNotDue, TopDueIdle, DueStep, procs
    <3> QED
      BY <2>7, <3>1, <3>2 DEF Top
  <2>8. CASE Handler \/ PollEvents \/ PollIdle
    BY <2>6, <2>8 DEF PollEvents, PollIdle, Handler, ReadData, ReadWouldBlock,
         ReadEof, WriteData, WriteWouldBlock, WriteDone, EventHandled, procs
  <2>9. CASE ChildExec
    BY <2>0, <2>9 DEF ChildExec, Together, KillReachesGroup, KillSent, env
  <2>10. ASSUME NEW q \in Procs, NEW k \in Kin, ForkKin(q, k) PROVE Together'
    <3>1. /\ k \in Procs /\ proc[q] = "live" /\ sig[q] = "none"
          /\ proc' = [proc EXCEPT ![k] = "live"]
          /\ group' = [group EXCEPT ![k] = group[q]]
          /\ UNCHANGED <<opts, pc, sig, sent>>
      BY <2>10 DEF ForkKin, env, Procs
    <3>2. opts.leader = "self" /\ group[q] # "moved" => ~KillSent
      BY <2>0, <3>1 DEF Together, KillReachesGroup, KillSent, Alive
    <3> QED
      BY <2>0, <3>1, <3>2 DEF Together, KillReachesGroup, KillSent, TypeOK, Alive
  <2>11. ASSUME NEW p \in Procs, Process(p) PROVE Together'
    <3>1. CASE \E x \in Status : Terminate(p, x)
      <4>1. UNCHANGED <<opts, pc, group, sent>>
        BY <3>1 DEF Terminate, env
      <4>2. \A q \in Procs : /\ proc'[q] = proc[q] \/ proc'[q] \in {"zombie", "gone"}
                             /\ sig'[q] = sig[q] \/ proc'[q] \in {"zombie", "gone"}
        BY <3>1 DEF Terminate, TypeOK
      <4> QED
        BY <4>1, <4>2, TogetherStep
    <3>2. CASE ProcCatches(p)
      <4>1. UNCHANGED <<opts, pc, proc, group, sent>>
        BY <3>2 DEF ProcCatches, env
      <4>2. \A q \in Procs : sig'[q] = sig[q] \/ sig[q] # "KILL"
        BY <3>2 DEF ProcCatches, TypeOK
      <4> QED
        BY <4>1, <4>2, TogetherStep
    <3>3. CASE ProcMoves(p)
      <4>1. /\ UNCHANGED <<opts, pc, proc, sig, sent>>
            /\ \A q \in Procs : group'[q] = group[q] \/ group'[q] = "moved"
        BY <3>3 DEF ProcMoves, env, TypeOK
      <4> QED
        BY <4>1, TogetherStep
    <3> QED
      BY <2>6, <2>11, <3>1, <3>2, <3>3
         DEF Process, ProcWrites, ProcReads, ProcCloses, ProcBrokenPipe,
             ProcExits, ProcKilled, ProcTermed, Status, env, procs
  <2>12. CASE ExternalReap
    BY <2>0, <2>12, TogetherStep DEF ExternalReap, env, TypeOK
  <2>13. CASE Tick \/ Finished \/ UNCHANGED vars
    BY <2>6, <2>13 DEF Tick, Finished, vars, procs
  <2> QED
    BY <2>1, <2>2, <2>3, <2>4, <2>7, <2>8, <2>9, <2>10, <2>11, <2>12, <2>13
       DEF Next, Thread, Environment
<1>3. Together => KillReachesGroup
  BY DEF Together
<1> QED
  BY <1>1, <1>2, <1>3, TypeCorrect, PTL DEF Spec

-----------------------------------------------------------------------------
(* Nobody waits for each other.                                             *)

\* The ends of a pipe are held by processes that are there, and epoll_wait is called
\* only while a pipe is open.
Held ==
  /\ \A s \in Streams : \A p \in ends[s] : Alive(p)
  /\ pc = "poll" => slots # {}

LEMMA AlwaysHeld == Spec => []Held
<1>1. Init => Held
  BY DEF Init, Held
<1>2. TypeOK /\ Held /\ [Next]_vars => Held'
  <2> SUFFICES ASSUME TypeOK, Held, [Next]_vars PROVE Held'
    OBVIOUS
  <2>0. Child \in Procs
    BY DEF Procs
  <2>1. CASE UNCHANGED <<ends, proc>> /\ pc' # "poll"
    BY <2>1 DEF Held, Alive
  <2>2. CASE SpawnChild
    BY <2>0, <2>2 DEF SpawnChild, Held, Alive, TypeOK
  <2>3. CASE FirstWaitStep \/ WaitStep \/ WaitBlocking
    BY <2>0, <2>3 DEF FirstWaitStep, WaitStep, WaitBlocking, Reap, NotYet, pipes, Held,
                      Alive, TypeOK
  <2>4. CASE Thread
    BY <2>1, <2>2, <2>3, <2>4
       DEF Thread, Top, TopNotDue, TopTerm, TopKill, TopEscalate, TopDueIdle, DueStep,
           Handler, SpawnFails, SetupFails, Register, WaitFails, PollEvents, PollFails,
           ReadData, ReadWouldBlock, ReadEof, WriteData, WriteWouldBlock, WriteDone,
           IoFails, Fail, EventHandled, events, pipes, procs
  <2>5. CASE PollIdle
    BY <2>1, <2>5 DEF PollIdle, pipes, procs
  <2>6. CASE UNCHANGED <<ends, proc, pc, slots>>
    BY <2>6 DEF Held, Alive
  <2>7. ASSUME NEW p \in Procs, Process(p) PROVE Held'
    <3>1. CASE \E x \in Status : Terminate(p, x)
      BY <3>1 DEF Terminate, LeaveEnds, env, Held, Alive, TypeOK
    <3>2. CASE \E s \in Streams : ProcCloses(p, s)
      BY <3>2 DEF ProcCloses, LeaveEnds, env, procs, Held, Alive
    <3> QED
      BY <2>6, <2>7, <3>1, <3>2
         DEF Process, ProcWrites, ProcReads, ProcCatches, ProcMoves, ProcBrokenPipe,
             ProcExits, ProcKilled, ProcTermed, Status, env, pipes, procs
  <2>8. ASSUME NEW q \in Procs, NEW k \in Kin, ForkKin(q, k) PROVE Held'
    BY <2>0, <2>8 DEF ForkKin, env, Held, Alive, TypeOK, Procs
  <2>9. CASE ChildExec \/ ExternalReap
    BY <2>0, <2>9 DEF ChildExec, ExternalReap, env, pipes, Held, Alive, TypeOK
  <2>10. CASE Tick \/ Finished \/ UNCHANGED vars
    BY <2>6, <2>10 DEF Tick, Finished, vars, pipes, procs
  <2> QED
    BY <2>4, <2>5, <2>7, <2>8, <2>9, <2>10 DEF Next, Environment
<1> QED
  BY <1>1, <1>2, TypeCorrect, PTL DEF Spec

\* wait_loop never sleeps in epoll_wait while all that could wake it waits for the
\* parent: with stdin and the outputs in any order and of any size, whoever holds an
\* open pipe is there and can read or write it.
THEOREM NobodyWaitsForTheOther == Spec => []NoMutualWait
<1>1. TypeOK /\ Held /\ NoLostWakeup => NoMutualWait
  <2> SUFFICES ASSUME TypeOK, Held, NoLostWakeup, pc = "poll", \A s \in edge : ~Ready(s)
               PROVE  /\ slots # {}
                      /\ \A s \in slots : ends[s] # {} /\ \A p \in ends[s] : CanMove(p, s)
    BY DEF NoMutualWait
  <2>1. slots # {} /\ slots \subseteq Streams
    BY SlotsAreStreams DEF Held
  <2>2. ASSUME NEW s \in slots
        PROVE  ends[s] # {} /\ \A p \in ends[s] : CanMove(p, s)
    <3>1. ~Ready(s) /\ s \in Streams
      BY <2>1 DEF NoLostWakeup
    <3>2. pend[s] \in 0..PipeCap /\ PipeCap \in Nat /\ PipeCap > 0
      BY <3>1, PipeAssumption DEF TypeOK
    <3> QED
      BY <3>1, <3>2 DEF Ready, CanMove, Held
  <2> QED
    BY <2>1, <2>2
<1> QED
  BY <1>1, TypeCorrect, WakeupsKept, AlwaysHeld, PTL

-----------------------------------------------------------------------------
(* The contract of module Spawn.                                            *)

Outside == pc \in {"start", "register", "ok", "err"}
Sent(x) == \E i \in 1..Len(sent) : sent[i].sig = x

\* A signal that is pending for the child was sent, a call that has begun has a child,
\* and only one that waits comes into wait_loop.
Begun ==
  /\ \A x \in {"TERM", "KILL"} : sig[Child] = x => Sent(x)
  /\ pc \notin {"start", "err"} => proc[Child] # "none"
  /\ pc \in {"start", "register"} => status_raw = Running
  /\ ~Outside => opts.wait

\* A step that sends nothing.
LEMMA BegunStep ==
  ASSUME TypeOK, Begun, opts' = opts, sent' = sent,
         sig'[Child] = sig[Child] \/ sig'[Child] = "none",
         proc'[Child] # "none" \/ proc'[Child] = proc[Child],
         \/ pc' = pc
         \/ pc' = "err"
         \/ ~Outside /\ pc' \notin {"start", "register"},
         status_raw' = status_raw \/ pc' \notin {"start", "register"}
  PROVE  Begun'
BY DEF Begun, Outside, Sent

LEMMA AlwaysBegun == Spec => []Begun
<1>1. Init => Begun
  BY DEF Init, Begun, Outside, Procs
<1>2. TypeOK /\ Begun /\ [Next]_vars => Begun'
  <2> SUFFICES ASSUME TypeOK, Begun, [Next]_vars PROVE Begun'
    OBVIOUS
  <2>0. Child \in Procs
    BY DEF Procs
  <2>1. CASE SpawnFails \/ SetupFails \/ PollFails \/ IoFails \/ WaitFails
    BY <2>1, BegunStep DEF SpawnFails, SetupFails, PollFails, IoFails, WaitFails,
                           Fail, procs, thread
  <2>2. CASE SpawnChild
    <3>1. opts' = opts /\ sent' = sent /\ sig' = sig /\ status_raw' = status_raw /\ pc = "start"
          /\ pc' = "register" /\ proc'[Child] # "none"
      BY <2>0, <2>2 DEF SpawnChild, thread, TypeOK
    <3> QED
      BY <3>1 DEF Begun, Outside, Sent
  <2>3. CASE Register
    BY <2>3 DEF Register, Begun, Outside, Sent, procs, thread
  <2>4. CASE FirstWaitStep \/ WaitStep \/ WaitBlocking
    BY <2>0, <2>4, BegunStep
       DEF FirstWaitStep, WaitStep, WaitBlocking, Reap, NotYet, Begun, Outside, TypeOK
  <2>5. ASSUME DueStep, NEW x \in {"TERM", "KILL"}, Signal(x) PROVE Begun'
    <3>1. pc = "top" /\ pc' = "reap" /\ proc' = proc /\ opts' = opts
      BY <2>5 DEF DueStep
    <3>2. sig'[Child] = x \/ sig'[Child] = sig[Child]
      BY <2>0, <2>5, SignalFinds
    <3>3. ASSUME NEW y \in {"TERM", "KILL"}, Sent(y) \/ y = x PROVE Sent(y)'
      <4>1. /\ Len(sent) \in Nat /\ Len(sent') = Len(sent) + 1
            /\ \A i \in 1..Len(sent) : sent'[i] = sent[i]
            /\ sent'[Len(sent) + 1].sig = x
        BY <2>5, SignalAppends DEF TypeOK
      <4>2. CASE Sent(y)
        BY <4>1, <4>2 DEF Sent
      <4>3. CASE y = x
        <5>1. Len(sent) + 1 \in 1..Len(sent')
          BY <4>1
        <5> QED
          BY <4>1, <4>3, <5>1 DEF Sent
      <4> QED
        BY <3>3, <4>2, <4>3
    <3> QED
      BY <3>1, <3>2, <3>3 DEF Begun, Outside
  <2>6. CASE UNCHANGED <<opts, sent, status_raw, procs>>
             /\ \/ pc' = pc
                \/ ~Outside /\ pc' \notin {"start", "register"}
    BY <2>6, BegunStep DEF procs
  <2>7. CASE Top
    <3>1. CASE TopTerm \/ TopKill \/ TopEscalate
      <4>1. DueStep /\ (Signal("TERM") \/ Signal("KILL") \/ UNCHANGED <<sig, sent>>)
        BY <3>1 DEF TopTerm, TopKill, TopEscalate, Refused
      <4>2. CASE UNCHANGED <<sig, sent>>
        BY <2>6, <4>1, <4>2 DEF DueStep, Outside, procs
      <4> QED
        BY <2>5, <4>1, <4>2
    <3>2. CASE TopNotDue \/ TopDueIdle
      BY <2>6, <3>2 DEF TopNotDue, TopDueIdle, DueStep, Outside, procs
    <3> QED
      BY <2>7, <3>1, <3>2 DEF Top
  <2>8. CASE Handler \/ PollEvents \/ PollIdle
    BY <2>6, <2>8 DEF PollEvents, PollIdle, Handler, ReadData, ReadWouldBlock,
         ReadEof, WriteData, WriteWouldBlock, WriteDone, EventHandled, Outside, procs, thread
  <2>9. CASE ChildExec \/ ExternalReap
    BY <2>0, <2>9, BegunStep DEF ChildExec, ExternalReap, env, thread, TypeOK
  <2>10. ASSUME NEW q \in Procs, NEW k \in Kin, ForkKin(q, k) PROVE Begun'
    <3>1. proc'[Child] = proc[Child]
          /\ UNCHANGED <<opts, pc, sig, sent, status_raw>>
      BY <2>0, <2>10, ProcsAssumption DEF ForkKin, env, thread, TypeOK
    <3> QED
      BY <3>1, BegunStep
  <2>11. ASSUME NEW p \in Procs, Process(p) PROVE Begun'
    <3>1. CASE \E x \in Status : Terminate(p, x)
      <4>1. UNCHANGED <<opts, pc, sent, status_raw>>
        BY <3>1 DEF Terminate, env, thread
      <4>2. /\ proc'[Child] = proc[Child] \/ proc'[Child] = "zombie"
            /\ sig'[Child] = sig[Child] \/ sig'[Child] = "none"
        BY <2>0, <3>1 DEF Terminate, TypeOK
      <4> QED
        BY <4>1, <4>2 DEF Begun, Outside, Sent
    <3>2. CASE ProcCatches(p) \/ ProcMoves(p)
      BY <2>0, <3>2, BegunStep DEF ProcCatches, ProcMoves, env, thread, TypeOK
    <3> QED
      BY <2>6, <2>11, <3>1, <3>2
         DEF Process, ProcWrites, ProcReads, ProcCloses, ProcBrokenPipe,
             ProcExits, ProcKilled, ProcTermed, Status, env, thread, procs
  <2>12. CASE Tick \/ Finished \/ UNCHANGED vars
    BY <2>6, <2>12 DEF Tick, Finished, vars, thread, procs
  <2> QED
    BY <2>1, <2>2, <2>3, <2>4, <2>7, <2>8, <2>9, <2>10, <2>11, <2>12
       DEF Next, Thread, Environment
<1> QED
  BY <1>1, <1>2, TypeCorrect, PTL DEF Spec

\* Steps the contract does not see.
LEMMA Stutters ==
  ASSUME opts' = opts, proc'[Child] = proc[Child], fate' = fate, elapsed' = elapsed,
         sent' = sent, timed_out' = timed_out, slots' = slots,
         status_raw' = status_raw, pc' = pc \/ (~Returned /\ ~Returned')
  PROVE  UNCHANGED Contract!vars
BY DEF Contract!vars, ChildState, Returned

\* An error at any point is Fail of the contract.
LEMMA FailsOnce ==
  ASSUME Fail, pc \notin {"ok", "err"},
         UNCHANGED <<opts, thread, procs, elapsed, sent>>
  PROVE  Contract!Fail
BY DEF Fail, Contract!Fail, Contract!Busy, ChildState, Returned, thread, procs

\* wait_loop keeps what module Spawn promises of a call of spawn(), whatever fails,
\* whoever else reaps children, with every option and every scheduling of the
\* thread, the processes and the clock.
THEOREM SpawnKeepsContract == Spec => KeepsContract
<1>1. Init => Contract!Init
  BY DEF Init, Procs, ChildState, Returned, Contract!Init, Contract!Running, Running
<1>2. TypeOK /\ Accounted /\ Cancelling /\ Captured /\ Begun /\ [Next]_vars
        => [Contract!Next]_Contract!vars
  <2> SUFFICES ASSUME TypeOK, Accounted, Cancelling, Captured, Begun, [Next]_vars
               PROVE  Contract!Next \/ UNCHANGED Contract!vars
    OBVIOUS
  <2>0. /\ Child \in Procs /\ DOMAIN proc = Procs /\ opts \in OptionType
        /\ proc[Child] \in {"none", "setup", "live", "zombie", "gone"}
    BY OptionsAssumption DEF Procs, TypeOK
  <2>1. CASE SpawnFails \/ SetupFails \/ PollFails \/ IoFails \/ WaitFails
    BY <2>1, FailsOnce DEF SpawnFails, SetupFails, PollFails, IoFails, WaitFails,
                           procs, thread, Contract!Next
  <2>2. CASE SpawnChild
    <3>1. proc[Child] = "none" /\ pc = "start"
      BY <2>2 DEF SpawnChild, Accounted
    <3>2. proc'[Child] \in {"setup", "live"}
      BY <2>0, <2>2 DEF SpawnChild
    <3>3. ChildState = "none" /\ ChildState' = "running"
      BY <3>1, <3>2 DEF ChildState
    <3>4. Contract!Start
      BY <2>2, <3>1, <3>3 DEF SpawnChild, thread, Returned, Contract!Start, Contract!Busy
    <3> QED
      BY <3>4 DEF Contract!Next
  <2>3. CASE Register
    <3>1. CASE opts.wait
      BY <2>3, <3>1, Stutters DEF Register, procs, thread, Returned
    <3>2. CASE ~opts.wait
      <4>1. pc = "register" /\ pc' = "ok" /\ slots' = {} /\ slots = {}
            /\ UNCHANGED <<opts, proc, fate, elapsed, sent, timed_out, status_raw>>
        BY <2>3, <3>2 DEF Register, Captured, Valid, TypeOK, procs, thread
      <4>2. ChildState # "none" /\ ChildState' = ChildState /\ status_raw = Running
        BY <2>0, <4>1 DEF Begun, ChildState
      <4>3. Contract!Return
        BY <3>2, <4>1, <4>2 DEF Returned, Contract!Return, Contract!Busy,
           Contract!Succeed, Contract!Running, Running
      <4> QED
        BY <4>3 DEF Contract!Next
    <3> QED
      BY <3>1, <3>2
  <2>4. CASE FirstWaitStep \/ WaitStep \/ WaitBlocking
    <3>1. /\ ~Returned /\ pc' # "err"
          /\ UNCHANGED <<opts, fate, elapsed, sent, timed_out, slots>>
          /\ Reap \/ UNCHANGED <<proc, status_raw>>
      BY <2>4 DEF FirstWaitStep, WaitStep, WaitBlocking, NotYet, Returned
    <3>2. pc' = "ok" => opts.wait /\ slots = {} /\ status_raw' # Running
      BY <2>4 DEF FirstWaitStep, WaitStep, WaitBlocking, Reap, Accounted, Captured,
                  Begun, Outside, Alive
    <3>3. CASE Reap
      <4>1. ChildState = "ended" /\ ChildState' = "reaped" /\ status_raw' = fate
        BY <2>0, <3>3 DEF Reap, ChildState
      <4>2. CASE pc' = "ok"
        <5>1. Contract!Reap
          BY <3>1, <3>2, <4>1, <4>2 DEF Returned, Contract!Reap, Contract!Busy,
             Contract!Succeed, Contract!Running, Running
        <5> QED
          BY <5>1 DEF Contract!Next
      <4>3. CASE pc' # "ok"
        <5>1. Contract!Reap
          BY <3>1, <4>1, <4>3 DEF Returned, Contract!Reap, Contract!Busy
        <5> QED
          BY <5>1 DEF Contract!Next
      <4> QED
        BY <4>2, <4>3
    <3>4. CASE UNCHANGED <<proc, status_raw>>
      <4>1. CASE pc' = "ok"
        <5>1. Contract!Return
          BY <3>1, <3>2, <3>4, <4>1 DEF Returned, ChildState, Contract!Return,
             Contract!Busy, Contract!Succeed, Contract!Running, Running
        <5> QED
          BY <5>1 DEF Contract!Next
      <4>2. CASE pc' # "ok"
        BY <3>1, <3>4, <4>2, Stutters DEF Returned
      <4> QED
        BY <4>1, <4>2
    <3> QED
      BY <3>1, <3>3, <3>4
  <2>5. CASE Top
    <3>1. CASE TopNotDue
      BY <2>0, <3>1, Stutters DEF TopNotDue, procs, Returned
    <3>2. CASE DueStep
      <4>1. /\ pc = "top" /\ pc' = "reap" /\ timed_out' = TRUE
            /\ opts.timed /\ elapsed >= Deadline
            /\ UNCHANGED <<opts, proc, fate, elapsed, slots, status_raw>>
        BY <3>2 DEF DueStep, Due
      <4>2. /\ ChildState' = ChildState
            /\ (ChildState = "reaped") = (proc[Child] = "gone")
        BY <2>0, <4>1 DEF ChildState
      <4>3. \/ UNCHANGED sent
            \/ \E x \in {"TERM", "KILL"} :
                 /\ Contract!Allowed(x)
                 /\ sent' = Append(sent, [sig |-> x, at |-> elapsed,
                                          reaped |-> ChildState = "reaped"])
        <5>1. CASE TopDueIdle
          BY <5>1 DEF TopDueIdle
        <5>2. CASE Refused
          BY <5>2 DEF Refused
        <5>3. CASE TopTerm /\ Signal("TERM")
          <6>1. Contract!Allowed("TERM")
            BY <5>3 DEF TopTerm, Cancelling, Contract!Allowed
          <6> QED
            BY <4>2, <5>3, <6>1 DEF Signal
        <5>4. CASE TopKill /\ Signal("KILL")
          <6>1. Contract!Allowed("KILL")
            BY <5>4 DEF TopKill, Cancelling, Contract!Allowed
          <6> QED
            BY <4>2, <5>4, <6>1 DEF Signal
        <5>5. CASE TopEscalate /\ Signal("KILL")
          <6>1. elapsed > Deadline + Grace
            BY <5>5, ClockAssumption DEF TopEscalate, TypeOK, MaxElapsed
          <6>2. Contract!Allowed("KILL")
            BY <5>5, <6>1 DEF TopEscalate, Cancelling, Contract!Allowed
          <6> QED
            BY <4>2, <5>5, <6>2 DEF Signal
        <5> QED
          BY <2>5, <3>2, <5>1, <5>2, <5>3, <5>4, <5>5
             DEF Top, TopTerm, TopKill, TopEscalate, TopNotDue, DueStep
      <4>4. Contract!Expire
        BY <4>1, <4>2, <4>3 DEF Contract!Expire, Contract!Busy, Returned
      <4> QED
        BY <4>4 DEF Contract!Next
    <3> QED
      BY <2>5, <3>1, <3>2 DEF Top, TopTerm, TopKill, TopEscalate, TopDueIdle
  <2>6. CASE PollEvents \/ PollIdle
    BY <2>6, Stutters DEF PollEvents, PollIdle, procs, thread, Returned
  <2>7. CASE Handler
    <3>1. /\ ~Returned /\ ~Returned'
          /\ UNCHANGED <<opts, proc, fate, elapsed, sent, timed_out, status_raw>>
          /\ slots' = slots \/ slots' = slots \ {cur}
      BY <2>7 DEF Handler, ReadData, ReadWouldBlock, ReadEof, WriteData,
         WriteWouldBlock, WriteDone, DropSlot, EventHandled, events, procs,
         thread, Returned
    <3>2. CASE slots' = slots
      BY <3>1, <3>2, Stutters
    <3>3. CASE slots' = slots \ {cur} /\ slots' # slots
      <4>1. cur \in slots /\ cur \in opts.pipes
        BY <3>3 DEF TypeOK
      <4>2. Contract!Close(cur)
        BY <3>1, <3>3, <4>1 DEF Contract!Close, Contract!Busy, Returned, ChildState
      <4> QED
        BY <4>1, <4>2 DEF Contract!Next
    <3> QED
      BY <3>1, <3>2, <3>3
  <2>8. CASE Tick
    <3>1. Contract!Pass
      BY <2>8 DEF Tick, InLoop, Returned, ChildState, thread, procs,
         Contract!Pass, Contract!Busy
    <3> QED
      BY <3>1 DEF Contract!Next
  <2>9. CASE ExternalReap
    <3>1. ChildState = "ended" /\ ChildState' = "reaped"
      BY <2>0, <2>9 DEF ExternalReap, ChildState
    <3>2. Contract!Lose
      BY <2>9, <3>1 DEF ExternalReap, env, thread, Returned, Contract!Lose
    <3> QED
      BY <3>2 DEF Contract!Next
  <2>10. CASE ChildExec
    <3>1. ChildState' = ChildState
      BY <2>0, <2>10 DEF ChildExec, ChildState
    <3> QED
      BY <2>10, <3>1 DEF ChildExec, env, thread, Returned, Contract!vars
  <2>11. ASSUME NEW q \in Procs, NEW k \in Kin, ForkKin(q, k)
         PROVE  Contract!Next \/ UNCHANGED Contract!vars
    <3>1. proc'[Child] = proc[Child]
      BY <2>0, <2>11, ProcsAssumption DEF ForkKin, Procs
    <3> QED
      BY <2>11, <3>1, Stutters DEF ForkKin, env, thread
  <2>12. ASSUME NEW p \in Procs, Process(p)
         PROVE  Contract!Next \/ UNCHANGED Contract!vars
    <3>1. ASSUME NEW x \in Status, Terminate(p, x), Alive(p),
                 x = "sigterm" => sig[p] = "TERM", x = "sigkill" => sig[p] = "KILL"
          PROVE  Contract!Next \/ UNCHANGED Contract!vars
      <4>1. UNCHANGED <<opts, pc, elapsed, sent, timed_out, slots, status_raw>>
        BY <3>1 DEF Terminate, env, thread
      <4>2. CASE p = Child
        <5>1. ChildState = "running" /\ ChildState' = "ended" /\ fate' = x
          BY <2>0, <3>1, <4>2 DEF Terminate, Alive, ChildState
        <5>2. /\ x = "sigterm" => Contract!WasSent("TERM")
              /\ x = "sigkill" => Contract!WasSent("KILL")
          BY <3>1, <4>2 DEF Begun, Sent, Contract!WasSent
        <5>3. Contract!End(x)
          BY <4>1, <5>1, <5>2 DEF Contract!End, Returned
        <5> QED
          BY <5>3 DEF Status, Contract!Next
      <4>3. CASE p # Child
        <5>1. proc'[Child] = proc[Child] /\ fate' = fate
          BY <2>0, <3>1, <4>3 DEF Terminate
        <5> QED
          BY <4>1, <5>1, Stutters
      <4> QED
        BY <4>2, <4>3
    <3>2. CASE ProcExits(p) \/ ProcKilled(p) \/ ProcTermed(p)
               \/ \E s \in Outputs : ProcBrokenPipe(p, s)
      BY <3>1, <3>2 DEF ProcExits, ProcKilled, ProcTermed, ProcBrokenPipe, Status, Alive
    <3>3. CASE UNCHANGED <<env, proc, fate>>
      BY <3>3, Stutters DEF env, thread
    <3> QED
      BY <2>12, <3>2, <3>3
         DEF Process, ProcWrites, ProcReads, ProcCloses, ProcCatches, ProcMoves, procs
  <2>13. CASE Finished \/ UNCHANGED vars
    BY <2>13, Stutters DEF Finished, vars, thread, procs
  <2> QED
    BY <2>1, <2>2, <2>3, <2>4, <2>5, <2>6, <2>7, <2>8, <2>9, <2>10, <2>11, <2>12,
       <2>13 DEF Next, Thread, Environment
<1> QED
  BY <1>1, <1>2, TypeCorrect, AccountedInit, AccountedStep, AlwaysCancelling, AlwaysCaptured,
     AlwaysBegun, PTL DEF Spec, KeepsContract, Contract!Spec
=============================================================================
