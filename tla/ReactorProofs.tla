---------------------------- MODULE ReactorProofs ----------------------------
(* Theorems about Reactor, for any files, batch size and number of tokens.  *)
EXTENDS Reactor, FiniteSetTheorems, TLAPS

USE FilesAssumption, FilesFinite, EventsAssumption, LevelAssumption

-----------------------------------------------------------------------------
(* Type correctness.                                                        *)

EventType == [token : Nat \ {0}, file : Files, readable : BOOLEAN,
              writable : BOOLEAN, error : BOOLEAN]

LEMMA EventIsTyped ==
  ASSUME reg \in [Files -> Nat], hup \subseteq Files, level \in [Files -> Nat],
         NEW f \in Files, reg[f] # 0
  PROVE  Event(f) \in EventType
BY DEF Event, EventType

LEMMA ForgetIsTyped ==
  ASSUME reg \in [Files -> Nat], ready \subseteq Files, NEW F, Forget(F)
  PROVE  reg' \in [Files -> Nat] /\ ready' \subseteq Files
BY DEF Forget

LEMMA InitType == Init => TypeOK
<1> SUFFICES ASSUME Init PROVE TypeOK
  OBVIOUS
<1>1. /\ fd \in [Files -> Nat] /\ token \in [Files -> Nat]
      /\ reg \in [Files -> Nat] /\ level \in [Files -> Nat]
  BY DEF Init
<1>2. \A f \in Files : token[f] = 0
  BY DEF Init
<1>3. /\ unopened \subseteq Files /\ next_token \in Nat \ {0}
      /\ ready = {} /\ copies = {} /\ hup = {}
      /\ events = {} /\ pc = "loop" /\ current = NoFile
  BY DEF Init
<1> QED
  BY <1>1, <1>2, <1>3 DEF TypeOK

LEMMA NextType == TypeOK /\ [Next]_vars => TypeOK'
<1> SUFFICES ASSUME TypeOK, [Next]_vars PROVE TypeOK'
  OBVIOUS
<1> USE DEF TypeOK, Held, Calling
<1>1. ASSUME NEW f \in Files, Open(f) PROVE TypeOK'
  BY <1>1 DEF Open, FreeNumbers, Numbers, peers, loop
<1>2. ASSUME NEW f \in Files, Add(f) PROVE TypeOK'
  BY <1>2 DEF Add, files, peers, loop
<1>3. ASSUME NEW f \in Files, AddFails(f) PROVE TypeOK'
  BY <1>3 DEF AddFails, files, peers, loop
<1>4. ASSUME NEW f \in Files, Del(f) PROVE TypeOK'
  BY <1>4, ForgetIsTyped DEF Del, Forget, files, peers, loop
<1>5. ASSUME NEW f \in Files, Drop(f) PROVE TypeOK'
  BY <1>5, ForgetIsTyped DEF Drop, Close, Forget, peers, loop
<1>6. CASE EnterWait
  BY <1>6 DEF EnterWait, files, peers
<1>7. ASSUME NEW T \in SUBSET Files, WaitReports(T) PROVE TypeOK'
  BY <1>7, EventIsTyped DEF WaitReports, Deliverable, EventType, files, peers
<1>8. CASE WaitEmpty
  BY <1>8 DEF WaitEmpty, files, peers
<1>9. ASSUME NEW e \in events, Handle(e) PROVE TypeOK'
  <2>1. CASE UNCHANGED <<pc, current>>
    BY <1>9, <2>1 DEF Handle, files, peers
  <2>2. ASSUME NEW f \in Files, Wanted(f, e), current' = f, pc' = "handler", Held(f)
        PROVE  TypeOK'
    BY <1>9, <2>2 DEF Handle, Wanted, files, peers
  <2> QED
    BY <1>9, <2>1, <2>2 DEF Handle
<1>10. CASE EndDispatch
  BY <1>10 DEF EndDispatch, files, peers
<1>11. CASE ReadSome
  BY <1>11 DEF ReadSome, files, loop
<1>12. CASE ReadWouldBlock
  BY <1>12 DEF ReadWouldBlock, Leave, files, peers
<1>13. CASE ReadEof
  BY <1>13, ForgetIsTyped DEF ReadEof, Leave, Close, Forget, peers
<1>14. ASSUME NEW f \in Files, Fills(f) PROVE TypeOK'
  BY <1>14 DEF Fills, Wake, files, loop
<1>15. ASSUME NEW f \in Files, HangsUp(f) PROVE TypeOK'
  BY <1>15 DEF HangsUp, Wake, files, loop
<1>16. CASE Forks
  BY <1>16 DEF Forks, files, peers, loop
<1>17. CASE ForkedExecs
  BY <1>17, ForgetIsTyped DEF ForkedExecs, Forget, files, peers, loop
<1>18. CASE UNCHANGED vars
  BY <1>18 DEF vars, files, peers, loop
<1> QED
  BY <1>1, <1>2, <1>3, <1>4, <1>5, <1>6, <1>7, <1>8, <1>9, <1>10, <1>11, <1>12,
     <1>13, <1>14, <1>15, <1>16, <1>17, <1>18
     DEF Next, Waiting, Dispatching, Handler, Owning

\* The type invariant holds for every choice of the constants.
THEOREM TypeCorrect == Spec => []TypeOK
BY InitType, NextType, PTL DEF Spec

-----------------------------------------------------------------------------
(* Tokens.                                                                  *)

\* A token is new when it is handed out, registered for one file at most, and
\* an event bears that of its file.
Tokens ==
  /\ \A f \in Files : reg[f] < next_token
  /\ \A f, g \in Files : reg[f] # 0 /\ reg[f] = reg[g] => f = g
  /\ \A e \in events : e.token < next_token
  /\ \A e \in events, f \in Files : reg[f] = e.token => f = e.file

LEMMA ForgetKeepsTokens ==
  ASSUME TypeOK, Tokens, NEW F, Forget(F), events' \subseteq events,
         next_token' = next_token
  PROVE  Tokens'
BY DEF TypeOK, Tokens, Forget

LEMMA NextTokens == TypeOK /\ Tokens /\ [Next]_vars => Tokens'
<1> SUFFICES ASSUME TypeOK, Tokens, [Next]_vars PROVE Tokens'
  OBVIOUS
<1> USE DEF Tokens
<1>1. ASSUME NEW f \in Files, Add(f) PROVE Tokens'
  BY <1>1 DEF TypeOK, Add, loop
<1>2. ASSUME NEW f \in Files, AddFails(f) PROVE Tokens'
  BY <1>2 DEF TypeOK, AddFails, loop
<1>3. ASSUME NEW f \in Files, Del(f) PROVE Tokens'
  BY <1>3, ForgetKeepsTokens DEF Del, loop
<1>4. ASSUME NEW f \in Files, Drop(f) PROVE Tokens'
  BY <1>4, ForgetKeepsTokens DEF Drop, Close, loop
<1>5. CASE ReadEof
  BY <1>5, ForgetKeepsTokens DEF ReadEof, Close
<1>6. CASE ForkedExecs
  BY <1>6, ForgetKeepsTokens DEF ForkedExecs, loop
<1>7. ASSUME NEW T \in SUBSET Files, WaitReports(T) PROVE Tokens'
  BY <1>7 DEF TypeOK, WaitReports, Deliverable, Event
<1>8. ASSUME UNCHANGED <<reg, next_token>>, events' \subseteq events PROVE Tokens'
  BY <1>8
<1>9. ASSUME NEW e \in events, Handle(e) PROVE Tokens'
  BY <1>8, <1>9 DEF Handle
<1>10. ASSUME NEW f \in Files, Open(f) \/ Fills(f) \/ HangsUp(f) PROVE Tokens'
  BY <1>8, <1>10 DEF Open, Fills, HangsUp, loop
<1>11. CASE EnterWait \/ WaitEmpty \/ EndDispatch \/ ReadSome \/ ReadWouldBlock
            \/ Forks \/ UNCHANGED vars
  BY <1>8, <1>11 DEF EnterWait, WaitEmpty, EndDispatch, ReadSome, ReadWouldBlock,
                     Forks, vars, loop
<1> QED
  BY <1>1, <1>2, <1>3, <1>4, <1>5, <1>6, <1>7, <1>9, <1>10, <1>11
     DEF Next, Waiting, Dispatching, Handler, Owning

LEMMA AlwaysTokens == Spec => []Tokens
<1>1. Init => Tokens
  BY DEF Init, Tokens
<1> QED
  BY <1>1, NextTokens, TypeCorrect, PTL DEF Spec

\* Whatever numbers are reused and whoever holds copies, an event is never taken
\* for one of another file.
THEOREM EventsName == Spec => []EventsNameTheirFile
<1>1. TypeOK /\ Tokens => EventsNameTheirFile
  BY DEF TypeOK, Tokens, EventsNameTheirFile
<1> QED
  BY <1>1, AlwaysTokens, TypeCorrect, PTL

-----------------------------------------------------------------------------
(* Readiness.                                                               *)

\* An event of a file that is ready has the flag its handler asks for.
LEMMA EventIsWanted ==
  ASSUME TypeOK, NEW f \in Files, token[f] # 0, Ready(f)
  PROVE  Wanted(f, Event(f))
BY DEF TypeOK, Wanted, Event, Ready

LEMMA ForgetKeepsReadiness ==
  ASSUME ReadinessKept, NEW F, Forget(F),
         \A f \in Files : token'[f] # 0 => token'[f] = token[f] /\ f \notin F,
         \A f \in Files : token'[f] # 0 => (current = f => current' = f),
         UNCHANGED <<level, hup, events>>
  PROVE  ReadinessKept'
BY DEF ReadinessKept, Forget, Ready, Wanted

LEMMA NextReadiness ==
  TypeOK /\ Tokens /\ ReadinessKept /\ [Next]_vars => ReadinessKept'
<1> SUFFICES ASSUME TypeOK, Tokens, ReadinessKept, [Next]_vars PROVE ReadinessKept'
  OBVIOUS
<1>1. ASSUME NEW f \in Files, Add(f) PROVE ReadinessKept'
  BY <1>1 DEF TypeOK, ReadinessKept, Add, Ready, Wanted, peers, loop
<1>2. ASSUME NEW f \in Files, Del(f) PROVE ReadinessKept'
  BY <1>2, ForgetKeepsReadiness DEF TypeOK, Del, peers, loop
<1>3. ASSUME NEW f \in Files, Drop(f) PROVE ReadinessKept'
  BY <1>3, ForgetKeepsReadiness DEF TypeOK, Drop, Close, peers, loop
<1>4. CASE ReadEof
  BY <1>4, ForgetKeepsReadiness DEF TypeOK, ReadEof, Leave, Close, peers
<1>5. CASE ForkedExecs
  BY <1>5, ForgetKeepsReadiness DEF TypeOK, ForkedExecs, Held, peers, loop
<1>6. ASSUME NEW T \in SUBSET Files, WaitReports(T) PROVE ReadinessKept'
  <2> SUFFICES ASSUME NEW f \in Files, token[f] # 0, Ready(f)
               PROVE  f \in ready' \/ current' = f \/ \E e \in events' : Wanted(f, e)
    BY <1>6 DEF ReadinessKept, WaitReports, Ready, Wanted, peers
  <2>1. CASE f \in T
    BY <1>6, <2>1, EventIsWanted DEF WaitReports
  <2>2. CASE f \notin T
    BY <1>6, <2>2 DEF ReadinessKept, WaitReports, TypeOK
  <2> QED
    BY <2>1, <2>2
<1>7. ASSUME NEW e \in events, Handle(e) PROVE ReadinessKept'
  <2> SUFFICES ASSUME NEW f \in Files, token[f] # 0, Ready(f)
               PROVE  f \in ready \/ current' = f \/ \E x \in events' : Wanted(f, x)
    BY <1>7 DEF ReadinessKept, Handle, Ready, Wanted, peers
  <2>1. CASE f \in ready
    BY <2>1
  <2>2. CASE Wanted(f, e)
    <3>1. Held(f)
      BY DEF TypeOK
    <3>2. \A g \in Files : Held(g) /\ Wanted(g, e) => g = f
      <4> SUFFICES ASSUME NEW g \in Files, Wanted(g, e) PROVE g = f
        OBVIOUS
      <4>1. token[f] = e.token /\ token[g] = e.token
        BY <2>2 DEF Wanted
      <4>2. reg[f] = e.token /\ reg[g] = e.token
        BY <4>1 DEF TypeOK
      <4> QED
        BY <4>2 DEF Tokens
    <3> QED
      BY <1>7, <2>2, <3>1, <3>2 DEF Handle
  <2>3. CASE ~Wanted(f, e) /\ f \notin ready
    BY <1>7, <2>3 DEF ReadinessKept, Handle, TypeOK
  <2> QED
    BY <2>1, <2>2, <2>3
<1>8. CASE ReadSome
  BY <1>8 DEF TypeOK, ReadinessKept, ReadSome, Ready, Wanted, loop
<1>9. CASE ReadWouldBlock
  BY <1>9 DEF TypeOK, ReadinessKept, ReadWouldBlock, Leave, Ready, Wanted, peers
<1>10. ASSUME NEW f \in Files, Fills(f) PROVE ReadinessKept'
  BY <1>10 DEF TypeOK, ReadinessKept, Fills, Wake, Ready, Wanted, loop
<1>11. ASSUME NEW f \in Files, HangsUp(f) PROVE ReadinessKept'
  BY <1>11 DEF TypeOK, ReadinessKept, HangsUp, Wake, Ready, Wanted, loop
<1>12. ASSUME UNCHANGED <<token, level, hup, ready, events, current>>
       PROVE  ReadinessKept'
  BY <1>12 DEF ReadinessKept, Ready, Wanted
<1>13. ASSUME NEW f \in Files, Open(f) \/ AddFails(f) PROVE ReadinessKept'
  BY <1>12, <1>13 DEF Open, AddFails, peers, loop
<1>14. CASE EnterWait \/ WaitEmpty \/ EndDispatch \/ Forks \/ UNCHANGED vars
  BY <1>12, <1>14 DEF EnterWait, WaitEmpty, EndDispatch, Forks, vars, peers, loop
<1> QED
  BY <1>1, <1>2, <1>3, <1>4, <1>5, <1>6, <1>7, <1>8, <1>9, <1>10, <1>11, <1>13,
     <1>14 DEF Next, Waiting, Dispatching, Handler, Owning

\* A file that is watched and ready is never forgotten, although epoll reports
\* every edge only once.
THEOREM ReadinessIsKept == Spec => []ReadinessKept
<1>1. Init => ReadinessKept
  BY DEF Init, ReadinessKept
<1> QED
  BY <1>1, NextReadiness, AlwaysTokens, TypeCorrect, PTL DEF Spec

-----------------------------------------------------------------------------
(* The abstract watcher.                                                    *)

\* A file that is held is registered if its token is known; the events of a batch
\* are of different registrations, and each has the flag of its file.
Batch ==
  /\ \A f \in unopened : fd[f] = 0 /\ reg[f] = 0
  /\ \A f \in Files : Held(f) => token[f] = reg[f]
  /\ \A d, e \in events : d.token = e.token => d = e
  /\ \A e \in events : IF e.file \in Writers THEN e.writable ELSE e.readable

LEMMA NextBatch == TypeOK /\ Tokens /\ Batch /\ [Next]_vars => Batch'
<1> SUFFICES ASSUME TypeOK, Tokens, Batch, [Next]_vars PROVE Batch'
  OBVIOUS
<1> USE DEF Batch, Held
<1>1. ASSUME NEW f \in Files, Open(f) PROVE Batch'
  BY <1>1 DEF TypeOK, Open, peers, loop
<1>2. ASSUME NEW f \in Files, Add(f) PROVE Batch'
  BY <1>2 DEF TypeOK, Add, files, loop
<1>3. ASSUME NEW f \in Files, Del(f) PROVE Batch'
  BY <1>3 DEF TypeOK, Del, Forget, files, loop
<1>4. ASSUME NEW f \in Files, Drop(f) PROVE Batch'
  BY <1>4 DEF TypeOK, Drop, Close, Forget, loop
<1>5. CASE ReadEof
  BY <1>5 DEF TypeOK, ReadEof, Leave, Close, Forget
<1>6. CASE ForkedExecs
  BY <1>6 DEF TypeOK, ForkedExecs, Forget, files, loop
<1>7. ASSUME NEW T \in SUBSET Files, WaitReports(T) PROVE Batch'
  <2>1. \A f \in T : reg[f] # 0 /\ Ready(f)
    BY <1>7 DEF TypeOK, WaitReports, Deliverable
  <2>2. \A f \in T : LET e == Event(f) IN IF e.file \in Writers THEN e.writable ELSE e.readable
    BY <2>1 DEF Event, Ready
  <2>3. \A f, g \in T : Event(f).token = Event(g).token => f = g
    BY <2>1 DEF Event, Tokens
  <2> QED
    BY <1>7, <2>2, <2>3 DEF WaitReports, files
<1>8. ASSUME UNCHANGED <<files, token, reg>>, events' \subseteq events PROVE Batch'
  BY <1>8 DEF files
<1>9. ASSUME NEW e \in events, Handle(e) PROVE Batch'
  BY <1>8, <1>9 DEF Handle
<1>10. ASSUME NEW f \in Files, AddFails(f) \/ Fills(f) \/ HangsUp(f) PROVE Batch'
  BY <1>8, <1>10 DEF AddFails, Fills, HangsUp, loop
<1>11. CASE EnterWait \/ WaitEmpty \/ EndDispatch \/ ReadSome \/ ReadWouldBlock
            \/ Forks \/ UNCHANGED vars
  BY <1>8, <1>11 DEF EnterWait, WaitEmpty, EndDispatch, ReadSome, ReadWouldBlock,
                     Forks, vars, loop
<1> QED
  BY <1>1, <1>2, <1>3, <1>4, <1>5, <1>6, <1>7, <1>9, <1>10, <1>11
     DEF Next, Waiting, Dispatching, Handler, Owning

LEMMA AlwaysBatch == Spec => []Batch
<1>1. Init => Batch
  BY DEF Init, Batch, Held
<1> QED
  BY <1>1, NextBatch, TypeCorrect, AlwaysTokens, PTL DEF Spec

\* The variables of Watcher.
watched == {f \in Files : token[f] # 0}
lingering == {f \in Files : reg[f] # 0 /\ token[f] = 0}
unserved == {f \in Files : Ready(f)}
told == {f \in Files : token[f] # 0 /\ \E e \in events : e.token = token[f]}
phase == IF pc = "epoll_wait" THEN "waiting" ELSE "working"
abstract == <<watched, lingering, unserved, told, current, phase>>

LEMMA Stutter == UNCHANGED abstract => UNCHANGED W!vars
BY DEF abstract, watched, lingering, unserved, told, phase, W!vars

LEMMA ReportStep ==
  ASSUME NEW F \in SUBSET Files, phase = "waiting", phase' = "working",
         F \subseteq watched \cap unserved, Cardinality(F) <= MaxEvents,
         F = {} => watched \cap unserved = {} \/ lingering \cap unserved # {},
         told' = F, UNCHANGED <<watched, lingering, unserved, current>>
  PROVE  W!Next
<1> DEFINE batches == {S \in SUBSET Files : Cardinality(S) <= MaxEvents}
<1>1. F \in batches /\ W!Report(F)
  BY DEF W!Report, watched, lingering, unserved, told, phase
<1> QED
  BY <1>1 DEF W!Next

\* Giving up a file is one step of the watcher, or none if it was not watched.
LEMMA ForgetIsUnwatch ==
  ASSUME TypeOK, Tokens, Batch, pc # "epoll_wait", pc' # "epoll_wait",
         NEW f \in Files, token[f] # 0,
         NEW F \in SUBSET {f}, Forget(F), token' = [token EXCEPT ![f] = 0],
         UNCHANGED <<level, hup, events>>,
         current' = IF current = f THEN NoFile ELSE current
  PROVE  W!Unwatch(f)
<1>1. watched' = watched \ {f} /\ f \in watched
  BY DEF TypeOK, watched
<1>2. lingering' = lingering \/ lingering' = lingering \cup {f}
  BY DEF TypeOK, lingering, Forget
<1>3. told' = told \ {f} /\ unserved' = unserved
  BY DEF TypeOK, told, unserved, Ready
<1> QED
  BY <1>1, <1>2, <1>3 DEF W!Unwatch, watched, lingering, told, unserved, phase

LEMMA NextWatches ==
  TypeOK /\ Tokens /\ Batch /\ ReadinessKept /\ [Next]_vars => [W!Next]_(W!vars)
<1> SUFFICES ASSUME TypeOK, Tokens, Batch, ReadinessKept, [Next]_vars
             PROVE  W!Next \/ UNCHANGED W!vars
  OBVIOUS
<1> USE DEF abstract, watched, lingering, unserved, told, phase
<1>1. ASSUME NEW f \in Files, Add(f) PROVE W!Watch(f)
  <2>1. /\ watched' = watched \cup {f} /\ lingering' = lingering
        /\ f \notin watched \cup lingering
    BY <1>1 DEF TypeOK, Add
  <2>2. told' = told
    BY <1>1 DEF TypeOK, Tokens, Add, loop
  <2> QED
    BY <1>1, <2>1, <2>2 DEF Add, Calling, W!Watch, Ready, peers, loop
<1>2. ASSUME NEW f \in Files, Del(f) PROVE W!Unwatch(f)
  BY <1>2, ForgetIsUnwatch DEF TypeOK, Batch, Del, Calling, peers, loop
<1>3. ASSUME NEW f \in Files, Drop(f) PROVE W!Unwatch(f) \/ UNCHANGED W!vars
  <2>1. CASE token[f] # 0
    BY <1>3, <2>1, ForgetIsUnwatch DEF TypeOK, Drop, Close, Calling, peers, loop
  <2>2. CASE token[f] = 0
    <3>1. reg[f] = 0
      BY <1>3, <2>2 DEF Drop, Batch
    <3>2. reg' = reg /\ token' = token
      BY <1>3, <2>2, <3>1 DEF TypeOK, Drop, Close, Forget
    <3> QED
      BY <1>3, <3>2, Stutter DEF Drop, Close, Ready, peers, loop
  <2> QED
    BY <2>1, <2>2
<1>4. CASE ReadEof
  BY <1>4, ForgetIsUnwatch DEF TypeOK, ReadEof, Leave, Close, peers, W!Next
<1>5. CASE ForkedExecs
  <2>1. lingering' = {}
    BY <1>5 DEF TypeOK, Batch, ForkedExecs, Forget
  <2> QED
    BY <1>5, <2>1, Stutter DEF ForkedExecs, Ready, files, peers, loop, W!Vanish, W!Next
<1>6. CASE EnterWait
  BY <1>6 DEF TypeOK, EnterWait, Ready, files, peers, W!Wait, W!Next
<1>7. ASSUME NEW T \in SUBSET Files, WaitReports(T) PROVE W!Next
  <2>1. T \cap watched \subseteq watched \cap unserved
    BY <1>7 DEF WaitReports, Deliverable
  <2>2. Cardinality(T \cap watched) <= MaxEvents
    <3>1. IsFiniteSet(T)
      BY FS_Subset
    <3>2. /\ Cardinality(T \cap watched) <= Cardinality(T)
          /\ Cardinality(T \cap watched) \in Nat /\ Cardinality(T) \in Nat
      BY <3>1, FS_Subset, FS_CardinalityType
    <3> QED
      BY <1>7, <3>2 DEF WaitReports
  <2>3. T \cap watched = {} => lingering \cap unserved # {}
    <3>1. PICK f \in T : TRUE
      BY <1>7 DEF WaitReports
    <3> QED
      BY <1>7, <3>1 DEF TypeOK, WaitReports, Deliverable
  <2>4. told' = T \cap watched
    <3>1. \A f \in Files : token[f] # 0 => token[f] = reg[f]
      BY DEF TypeOK
    <3>2. \A f \in Files : token[f] # 0 =>
            (f \in T <=> \E e \in events' : e.token = token[f])
      <4> SUFFICES ASSUME NEW f \in Files, token[f] # 0
                   PROVE  f \in T <=> \E e \in events' : e.token = token[f]
        OBVIOUS
      <4>1. \A g \in Files : Event(g).token = reg[g]
        BY DEF Event
      <4>2. f \in T => Event(f) \in events' /\ Event(f).token = token[f]
        BY <1>7, <3>1, <4>1 DEF WaitReports
      <4>3. ASSUME NEW e \in events', e.token = token[f] PROVE f \in T
        <5>1. PICK g \in T : e = Event(g)
          BY <1>7, <4>3 DEF WaitReports
        <5>2. reg[g] = reg[f] /\ reg[f] # 0
          BY <3>1, <4>1, <4>3, <5>1
        <5> QED
          BY <5>2 DEF Tokens
      <4> QED
        BY <4>2, <4>3
    <3> QED
      BY <1>7, <3>2 DEF WaitReports
  <2>5. UNCHANGED <<watched, lingering, unserved, current>>
    BY <1>7 DEF WaitReports, Ready, files, peers
  <2>6. phase = "waiting" /\ phase' = "working"
    BY <1>7 DEF WaitReports
  <2> HIDE DEF watched, lingering, unserved, told, phase
  <2> QED
    BY <2>1, <2>2, <2>3, <2>4, <2>5, <2>6, ReportStep
<1>8. CASE WaitEmpty
  <2>1. watched \cap unserved = {}
    BY <1>8 DEF TypeOK, ReadinessKept, WaitEmpty, Deliverable
  <2>2. told' = {}
    BY <1>8 DEF TypeOK, WaitEmpty
  <2>3. Cardinality({}) = 0
    BY FS_EmptySet
  <2>4. UNCHANGED <<watched, lingering, unserved, current>>
    BY <1>8 DEF WaitEmpty, Ready, files, peers
  <2>5. phase = "waiting" /\ phase' = "working"
    BY <1>8 DEF WaitEmpty
  <2> HIDE DEF watched, lingering, unserved, told, phase
  <2> QED
    BY <2>1, <2>2, <2>3, <2>4, <2>5, ReportStep
<1>9. ASSUME NEW e \in events, Handle(e) PROVE W!Next \/ UNCHANGED W!vars
  <2>1. \A f \in Files : token[f] = e.token => Held(f) /\ Wanted(f, e) /\ f = e.file
    BY DEF TypeOK, Tokens, Batch, Wanted
  <2>2. ASSUME NEW f \in Files, token[f] = e.token, current' = f, pc' = "handler"
        PROVE  W!Serve(f)
    <3>1. told' = told \ {f} /\ f \in told
      BY <1>9, <2>2 DEF TypeOK, Tokens, Batch, Handle
    <3>2. current = NoFile
      BY <1>9 DEF TypeOK, Handle
    <3> QED
      BY <1>9, <2>2, <3>1, <3>2 DEF Handle, Ready, files, peers, W!Serve
  <2>3. CASE \A f \in Files : token[f] # e.token
    <3>1. told' = told /\ UNCHANGED <<pc, current>>
      BY <1>9, <2>3 DEF Handle, Wanted
    <3> QED
      BY <1>9, <3>1, Stutter DEF Handle, Ready, files, peers
  <2> QED
    BY <1>9, <2>1, <2>2, <2>3 DEF Handle, Wanted, W!Next
<1>10. CASE ReadSome
  <2>1. CASE Ready(current)'
    BY <1>10, <2>1, Stutter DEF TypeOK, ReadSome, Ready, files, loop
  <2>2. CASE ~Ready(current)'
    <3>1. unserved' = unserved \ {current}
      <4>1. \A f \in Files : f # current => level'[f] = level[f]
        BY <1>10 DEF TypeOK, ReadSome
      <4>2. hup' = hup
        BY <1>10 DEF ReadSome
      <4>3. ~(level'[current] > 0) /\ current \notin hup'
        BY <1>10, <2>2 DEF ReadSome, Ready, loop
      <4> QED
        BY <4>1, <4>2, <4>3 DEF Ready
    <3> QED
      BY <1>10, <3>1 DEF TypeOK, ReadSome, files, loop, W!Drain, W!Next
  <2> QED
    BY <2>1, <2>2
<1>11. CASE ReadWouldBlock
  BY <1>11 DEF TypeOK, ReadWouldBlock, Leave, Ready, files, peers, W!Finish, W!Next
<1>12. ASSUME NEW f \in Files, Fills(f) PROVE W!Become(f)
  <2>1. unserved' = unserved \cup {f}
    BY <1>12 DEF TypeOK, Fills, Ready
  <2> QED
    BY <1>12, <2>1 DEF Fills, files, loop, W!Become
<1>13. ASSUME NEW f \in Files, HangsUp(f) PROVE W!Become(f)
  <2>1. unserved' = unserved \cup {f}
    BY <1>13 DEF TypeOK, HangsUp, Ready
  <2> QED
    BY <1>13, <2>1 DEF HangsUp, files, loop, W!Become
<1>14. ASSUME UNCHANGED <<token, reg, level, hup, events, current>>, phase' = phase
       PROVE  UNCHANGED W!vars
  BY <1>14, Stutter DEF Ready
<1>15. ASSUME NEW f \in Files, Open(f) \/ AddFails(f) PROVE UNCHANGED W!vars
  BY <1>14, <1>15 DEF Open, AddFails, peers, loop
<1>16. CASE EndDispatch \/ Forks \/ UNCHANGED vars
  BY <1>14, <1>16 DEF EndDispatch, Forks, vars, files, peers, loop
<1>17. \A f \in Files : W!Watch(f) \/ W!Unwatch(f) \/ W!Become(f) => W!Next
  BY DEF W!Next
<1> QED
  BY <1>1, <1>2, <1>3, <1>4, <1>5, <1>6, <1>7, <1>8, <1>9, <1>10, <1>11, <1>12,
     <1>13, <1>15, <1>16, <1>17 DEF Next, Waiting, Dispatching, Handler, Owning

\* An edge-triggered Reactor whose caller drains is a level-triggered watcher.
THEOREM ReactorWatches == Spec => Watches
<1>1. Init => W!Init
  BY DEF Init, W!Init, Ready
<1> QED
  BY <1>1, NextWatches, TypeCorrect, AlwaysTokens, AlwaysBatch, ReadinessIsKept, PTL
     DEF Spec, Watches, W!Spec
=============================================================================
