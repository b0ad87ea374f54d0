--------------------------- MODULE ShutdownProofs ---------------------------
(* Theorems about Shutdown, for any number of calls and signals.            *)
EXTENDS Shutdown, TLAPS

USE CallsAssumption

-----------------------------------------------------------------------------
(* Type correctness.                                                        *)

LEMMA RunTypes ==
  ASSUME TypeOK, NEW i \in 1..Len(runs) PROVE runs[i] \in Run
BY DEF TypeOK

\* A handler never stores through a null pointer.
THEOREM TypeCorrect == Spec => []TypeOK
<1>1. Init => TypeOK
  <2> SUFFICES ASSUME Init PROVE TypeOK
    OBVIOUS
  <2>1. runs \in Seq(Run) /\ Len(runs) = 0
    BY DEF Init
  <2>2. \A i \in 1..Len(runs) : runs[i].stage = "loaded" => runs[i].flag \in Calls
    BY <2>1
  <2> QED
    BY <2>1, <2>2 DEF Init, TypeOK
<1>2. TypeOK /\ [Next]_vars => TypeOK'
  <2> SUFFICES ASSUME TypeOK, [Next]_vars PROVE TypeOK'
    OBVIOUS
  <2> USE DEF TypeOK, Signals
  <2>1. ASSUME NEW c \in Calls, Call(c) PROVE TypeOK'
    <3>1. CASE InstallInt(c)
      BY <2>1, <3>1 DEF InstallInt, Install, Goto
    <3>2. CASE InstallIntFails(c)
      BY <2>1, <3>2 DEF InstallIntFails, Goto
    <3>3. CASE InstallTerm(c)
      BY <2>1, <3>3 DEF InstallTerm, Install, Goto
    <3>4. CASE Publish(c)
      BY <2>1, <3>4 DEF Publish, Goto
    <3>5. CASE Restore(c)
      BY <2>1, <3>5 DEF Restore, Goto
    <3> QED
      BY <2>1, <3>1, <3>2, <3>3, <3>4, <3>5 DEF Call
  <2>2. ASSUME NEW s \in Signals, Arrive(s) PROVE TypeOK'
    <3> DEFINE r == [stage |-> IF handler[s] = "shutdown" THEN "entered" ELSE "old",
                     flag |-> NoFlag, newest |-> last,
                     done |-> {c \in Calls : pc[c] = "ok"}]
    <3>1. r \in Run /\ r.stage # "loaded"
      BY DEF Run
    <3>2. runs' = Append(runs, r)
      BY <2>2 DEF Arrive
    <3> HIDE DEF r
    <3>3. \A i \in 1..Len(runs') : runs'[i].stage = "loaded" => runs'[i].flag \in Calls
      BY <3>1, <3>2
    <3>4. runs' \in Seq(Run)
      BY <3>1, <3>2
    <3> QED
      BY <2>2, <3>3, <3>4 DEF Arrive, callers
  <2>3. ASSUME NEW i \in 1..Len(runs), Handler(i) PROVE TypeOK'
    <3>1. CASE HandlerLoads(i)
      <4>1. PICK e \in Run : /\ runs' = [runs EXCEPT ![i] = e]
                             /\ e.stage = "loaded" => e.flag \in Calls
        <5> DEFINE e == [runs[i] EXCEPT
                           !.flag = pointer,
                           !.stage = IF pointer = NoFlag THEN "end" ELSE "loaded"]
        <5>1. e \in Run /\ (e.stage = "loaded" => e.flag \in Calls)
          BY RunTypes DEF Run
        <5>2. runs' = [runs EXCEPT ![i] = e]
          BY <3>1 DEF HandlerLoads
        <5> QED
          BY <5>1, <5>2
      <4>2. /\ runs' \in Seq(Run)
            /\ \A j \in 1..Len(runs') :
                 runs'[j].stage = "loaded" => runs'[j].flag \in Calls
        BY <4>1
      <4> QED
        BY <3>1, <4>2 DEF HandlerLoads, callers
    <3>2. CASE HandlerStores(i)
      <4>1. PICK e \in Run : /\ runs' = [runs EXCEPT ![i] = e]
                             /\ e.stage = "end"
        <5> DEFINE e == [runs[i] EXCEPT !.stage = "end"]
        <5>1. e \in Run /\ e.stage = "end"
          BY RunTypes DEF Run
        <5>2. runs' = [runs EXCEPT ![i] = e]
          BY <3>2 DEF HandlerStores
        <5> QED
          BY <5>1, <5>2
      <4>2. flags' \in [Calls -> BOOLEAN]
        BY <3>2 DEF HandlerStores
      <4>3. /\ runs' \in Seq(Run)
            /\ \A j \in 1..Len(runs') :
                 runs'[j].stage = "loaded" => runs'[j].flag \in Calls
        BY <4>1
      <4> QED
        BY <3>2, <4>2, <4>3 DEF HandlerStores, callers
    <3> QED
      BY <2>3, <3>1, <3>2 DEF Handler
  <2>4. CASE UNCHANGED vars
    BY <2>4 DEF vars, callers
  <2> QED
    BY <2>1, <2>2, <2>3, <2>4 DEF Next
<1> QED
  BY <1>1, <1>2, PTL DEF Spec

-----------------------------------------------------------------------------
(* The published flag, with or without turns.                               *)

\* The pointer is that of the last success, and what a handler has taken or set
\* was the pointer of some moment.
Published ==
  /\ pointer = last
  /\ last # NoFlag => last \in Calls /\ pc[last] = "ok"
  /\ OnlySuccessFlips

LEMMA PublishedStep == TypeOK /\ Published /\ [Next]_vars => Published'
<1> SUFFICES ASSUME TypeOK, Published, [Next]_vars PROVE Published'
  OBVIOUS
<1> USE DEF Published
<1>1. ASSUME NEW c \in Calls, Call(c) PROVE Published'
  <2>1. UNCHANGED <<flags, runs>>
    BY <1>1 DEF Call, InstallInt, InstallIntFails, InstallTerm, Publish, Restore
  <2>2. \A d \in Calls : pc[d] = "ok" => pc'[d] = "ok"
    BY <1>1 DEF Call, InstallInt, InstallIntFails, InstallTerm, Publish, Restore,
                Goto, TypeOK
  <2>3. OnlySuccessFlips'
    BY <2>1, <2>2 DEF OnlySuccessFlips
  <2>4. pointer' = last' /\ (last' # NoFlag => last' \in Calls /\ pc'[last'] = "ok")
    BY <1>1 DEF Call, InstallInt, InstallIntFails, InstallTerm, Publish, Restore,
                Goto, TypeOK
  <2> QED
    BY <2>3, <2>4
<1>2. ASSUME NEW s \in Signals, Arrive(s) PROVE Published'
  <2>1. PICK r : runs' = Append(runs, r) /\ r.flag = NoFlag
    BY <1>2 DEF Arrive
  <2>2. UNCHANGED <<pointer, flags, pc, last>>
    BY <1>2 DEF Arrive, callers
  <2> QED
    BY <2>1, <2>2 DEF OnlySuccessFlips, TypeOK
<1>3. ASSUME NEW i \in 1..Len(runs), HandlerLoads(i) PROVE Published'
  <2>1. UNCHANGED <<pointer, flags, pc, last>>
    BY <1>3 DEF HandlerLoads, callers
  <2>2. /\ Len(runs') = Len(runs) /\ runs'[i].flag = pointer
        /\ \A j \in 1..Len(runs) : j # i => runs'[j] = runs[j]
    BY <1>3 DEF HandlerLoads, TypeOK
  <2> QED
    BY <2>1, <2>2 DEF OnlySuccessFlips
<1>4. ASSUME NEW i \in 1..Len(runs), HandlerStores(i) PROVE Published'
  <2>1. UNCHANGED <<pointer, pc, last>>
    BY <1>4 DEF HandlerStores, callers
  <2>2. \A c \in Calls : flags'[c] => flags[c] \/ c = runs[i].flag
    BY <1>4 DEF HandlerStores, TypeOK
  <2>3. /\ Len(runs') = Len(runs)
        /\ \A j \in 1..Len(runs) : runs'[j].flag = runs[j].flag
    BY <1>4 DEF HandlerStores, TypeOK
  <2> QED
    BY <2>1, <2>2, <2>3 DEF OnlySuccessFlips
<1>5. CASE UNCHANGED vars
  BY <1>5 DEF vars, callers, OnlySuccessFlips
<1> QED
  BY <1>1, <1>2, <1>3, <1>4, <1>5 DEF Next, Handler

LEMMA PublishedInit == Init => Published
BY DEF Init, Published, OnlySuccessFlips

\* Whatever calls overlap and whenever signals arrive, no handler flips the flag
\* of a call that failed or has not yet succeeded.
THEOREM NoFailureFlips == Spec => []OnlySuccessFlips
<1>1. Published => OnlySuccessFlips
  BY DEF Published
<1> QED
  BY <1>1, PublishedInit, PublishedStep, TypeCorrect, PTL DEF Spec

-----------------------------------------------------------------------------
(* The handlers, when callers take turns.                                   *)

\* What the calling thread knows of the handlers: SIGINT's is installed from
\* its first step to its last, SIGTERM's when it publishes, and what it saved
\* is what a failure has to bring back.
Installing ==
  /\ \A c, d \in Calls : Busy(c) /\ Busy(d) => c = d
  /\ \A c \in Calls : Busy(c) =>
       /\ handler["INT"] = "shutdown"
       /\ pc[c] = "publish" => handler["TERM"] = "shutdown"
       /\ IF last = NoFlag THEN saved[c] = "old" \/ broken
                           ELSE saved[c] = "shutdown"
  /\ InstalledStays
  /\ last = NoFlag =>
       /\ handler["TERM"] = "old" \/ \E c \in Calls : pc[c] = "publish"
       /\ (\A c \in Calls : ~Busy(c)) => handler["INT"] = "old" \/ broken

LEMMA InstallingStep ==
  ASSUME Exclusive
  PROVE  TypeOK /\ Installing /\ [Next]_vars => Installing'
<1> SUFFICES ASSUME TypeOK, Installing, [Next]_vars PROVE Installing'
  OBVIOUS
<1> USE DEF Signals
<1>1. ASSUME NEW c \in Calls, InstallInt(c) PROVE Installing'
  BY <1>1 DEF InstallInt, Install, Goto, TypeOK, Installing, InstalledStays, Busy
<1>2. ASSUME NEW c \in Calls, InstallIntFails(c) PROVE Installing'
  BY <1>2 DEF InstallIntFails, Goto, TypeOK, Installing, InstalledStays, Busy
<1>3. ASSUME NEW c \in Calls, InstallTerm(c) PROVE Installing'
  BY <1>3 DEF InstallTerm, Install, Goto, TypeOK, Installing, InstalledStays, Busy
<1>4. ASSUME NEW c \in Calls, Publish(c) PROVE Installing'
  BY <1>4 DEF Publish, Goto, TypeOK, Installing, InstalledStays, Busy
<1>5. ASSUME NEW c \in Calls, Restore(c) PROVE Installing'
  BY <1>5 DEF Restore, Goto, TypeOK, Installing, InstalledStays, Busy
<1>6. ASSUME UNCHANGED <<handler, callers>> PROVE Installing'
  BY <1>6 DEF callers, Installing, InstalledStays, Busy
<1>7. ASSUME NEW s \in Signals, Arrive(s) PROVE Installing'
  BY <1>6, <1>7 DEF Arrive
<1>8. ASSUME NEW i \in 1..Len(runs), Handler(i) PROVE Installing'
  BY <1>6, <1>8 DEF Handler, HandlerLoads, HandlerStores
<1>9. CASE UNCHANGED vars
  BY <1>6, <1>9 DEF vars
<1> QED
  BY <1>1, <1>2, <1>3, <1>4, <1>5, <1>7, <1>8, <1>9 DEF Next, Call

LEMMA InstallingInit == Init => Installing
BY DEF Init, Installing, InstalledStays, Busy, Signals

\* Once a call has succeeded both handlers stay, whatever later calls do, if
\* callers take turns.
THEOREM SuccessIsLasting ==
  ASSUME Exclusive PROVE Spec => []InstalledStays
<1>1. Installing => InstalledStays
  BY DEF Installing
<1> QED
  BY <1>1, InstallingInit, InstallingStep, TypeCorrect, PTL DEF Spec

\* Before the first success, a finished call has changed nothing, unless the
\* SIGINT handler could not be restored.
THEOREM FailureUndone ==
  ASSUME Exclusive PROVE Spec => []AllOrNothing
<1>1. Installing => AllOrNothing
  BY DEF Installing, AllOrNothing, Signals, Busy
<1> QED
  BY <1>1, InstallingInit, InstallingStep, TypeCorrect, PTL DEF Spec

-----------------------------------------------------------------------------
(* The signals.                                                             *)

\* What becomes of the i-th signal.
Flipped(i) ==
  LET r == runs[i] IN
  /\ \A d \in r.done : pc[d] = "ok"
  /\ r.newest # NoFlag =>
       /\ r.stage # "old"
       /\ r.stage = "entered" =>
            pointer # NoFlag /\ (pointer = r.newest \/ pointer \notin r.done)
       /\ r.stage \in {"loaded", "end"} =>
            r.flag \in Calls /\ (r.flag = r.newest \/ r.flag \notin r.done)
       /\ r.stage = "end" => flags[r.flag]

\* Every signal that arrives after a success sets the flag that was newest then,
\* or one installed later.
THEOREM SignalsFlip ==
  ASSUME Exclusive PROVE Spec => []FutureSignalsFlip
<1> DEFINE AllFlipped == \A i \in 1..Len(runs) : Flipped(i)
<1>1. Init => AllFlipped
  BY DEF Init
<1>2. TypeOK /\ Published /\ Installing /\ AllFlipped /\ [Next]_vars => AllFlipped'
  <2> SUFFICES ASSUME TypeOK, Published, Installing, AllFlipped, [Next]_vars
               PROVE  AllFlipped'
    OBVIOUS
  <2>1. ASSUME NEW c \in Calls, Call(c), pc[c] # "publish" PROVE AllFlipped'
    <3>1. UNCHANGED <<pointer, flags, runs>>
      BY <2>1 DEF Call, InstallInt, InstallIntFails, InstallTerm, Publish, Restore
    <3>2. \A d \in Calls : pc[d] = "ok" => pc'[d] = "ok"
      BY <2>1 DEF Call, InstallInt, InstallIntFails, InstallTerm, Publish,
                  Restore, Goto, TypeOK
    <3>3. ASSUME NEW i \in 1..Len(runs) PROVE runs[i].done \subseteq Calls
      BY RunTypes DEF Run
    <3> QED
      BY <3>1, <3>2, <3>3 DEF Flipped
  <2>2. ASSUME NEW c \in Calls, Publish(c) PROVE AllFlipped'
    <3>1. /\ pointer' = c /\ UNCHANGED <<flags, runs>> /\ pc[c] = "publish"
          /\ \A d \in Calls : pc[d] = "ok" => pc'[d] = "ok"
      BY <2>2 DEF Publish, Goto, TypeOK
    <3>2. ASSUME NEW i \in 1..Len(runs)
          PROVE  runs[i].done \subseteq Calls /\ c \notin runs[i].done
      BY <3>1, RunTypes DEF Run, Flipped
    <3> QED
      BY <3>1, <3>2 DEF Flipped
  <2>3. ASSUME NEW s \in Signals, Arrive(s) PROVE AllFlipped'
    <3> DEFINE r == [stage |-> IF handler[s] = "shutdown" THEN "entered" ELSE "old",
                     flag |-> NoFlag, newest |-> last,
                     done |-> {c \in Calls : pc[c] = "ok"}]
    <3>1. runs' = Append(runs, r) /\ UNCHANGED <<pointer, flags, pc>>
      BY <2>3 DEF Arrive, callers
    <3>2. last # NoFlag => r.stage = "entered" /\ pointer = r.newest
      BY <2>3 DEF Installing, InstalledStays, Published
    <3>3. /\ r.newest = last /\ r.done = {c \in Calls : pc[c] = "ok"}
          /\ r.stage \in {"entered", "old"}
      OBVIOUS
    <3> HIDE DEF r
    <3>4. ASSUME NEW i \in 1..Len(runs') PROVE Flipped(i)'
      <4>1. CASE i \in 1..Len(runs)
        <5>1. runs'[i] = runs[i]
          BY <3>1, <4>1 DEF TypeOK
        <5> QED
          BY <3>1, <4>1, <5>1 DEF Flipped
      <4>2. CASE i = Len(runs) + 1
        <5>1. runs'[i] = r
          BY <3>1, <4>2 DEF TypeOK
        <5> QED
          BY <3>1, <3>2, <3>3, <5>1 DEF Flipped
      <4> QED
        BY <3>1, <4>1, <4>2 DEF TypeOK
    <3> QED
      BY <3>4
  <2>4. ASSUME NEW i \in 1..Len(runs), HandlerLoads(i) PROVE AllFlipped'
    <3>1. UNCHANGED <<pointer, flags, pc>> /\ pointer \in Calls \cup {NoFlag}
      BY <2>4 DEF HandlerLoads, callers, TypeOK
    <3>2. /\ Len(runs') = Len(runs)
          /\ \A j \in 1..Len(runs) : j # i => runs'[j] = runs[j]
      BY <2>4 DEF HandlerLoads, TypeOK
    <3>3. /\ runs[i].stage = "entered"
          /\ runs'[i].flag = pointer
          /\ runs'[i].newest = runs[i].newest /\ runs'[i].done = runs[i].done
          /\ runs'[i].stage = IF pointer = NoFlag THEN "end" ELSE "loaded"
      BY <2>4 DEF HandlerLoads, TypeOK
    <3>4. Flipped(i)'
      BY <3>1, <3>3 DEF Flipped
    <3>5. ASSUME NEW j \in 1..Len(runs), j # i PROVE Flipped(j)'
      BY <3>1, <3>2, <3>5 DEF Flipped
    <3> QED
      BY <3>2, <3>4, <3>5
  <2>5. ASSUME NEW i \in 1..Len(runs), HandlerStores(i) PROVE AllFlipped'
    <3>1. /\ UNCHANGED <<pointer, pc>> /\ runs[i].flag \in Calls
          /\ runs[i].stage = "loaded"
      BY <2>5 DEF HandlerStores, callers, TypeOK
    <3>2. \A c \in Calls : flags[c] => flags'[c]
      BY <2>5, <3>1 DEF HandlerStores, TypeOK
    <3>3. flags'[runs[i].flag]
      BY <2>5, <3>1 DEF HandlerStores, TypeOK
    <3>4. /\ Len(runs') = Len(runs)
          /\ \A j \in 1..Len(runs) : j # i => runs'[j] = runs[j]
          /\ runs'[i].flag = runs[i].flag /\ runs'[i].newest = runs[i].newest
          /\ runs'[i].done = runs[i].done /\ runs'[i].stage = "end"
      BY <2>5 DEF HandlerStores, TypeOK
    <3>5. Flipped(i)'
      BY <3>1, <3>3, <3>4 DEF Flipped
    <3>6. ASSUME NEW j \in 1..Len(runs), j # i PROVE Flipped(j)'
      BY <3>1, <3>2, <3>4, <3>6 DEF Flipped
    <3> QED
      BY <3>4, <3>5, <3>6
  <2>6. CASE UNCHANGED vars
    BY <2>6 DEF vars, callers, Flipped
  <2>7. ASSUME NEW c \in Calls, Call(c) PROVE AllFlipped'
    BY <2>1, <2>2, <2>7
       DEF Call, InstallInt, InstallIntFails, InstallTerm, Restore
  <2> QED
    BY <2>3, <2>4, <2>5, <2>6, <2>7 DEF Next, Handler
<1>3. TypeOK /\ AllFlipped => FutureSignalsFlip
  BY DEF FutureSignalsFlip, Flipped
<1> QED
  BY <1>1, <1>2, <1>3, PublishedInit, PublishedStep, InstallingInit, InstallingStep,
     TypeCorrect, PTL DEF Spec
=============================================================================
