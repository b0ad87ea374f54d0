------------------------------ MODULE Reactor ------------------------------
(***************************************************************************)
(* Reactor of src/reactor/mod.rs with several descriptors: tokens, batches *)
(* of events, descriptors dropped and numbers reused while events about    *)
(* them are under way.                                                     *)
(*                                                                         *)
(* Actors: a caller that runs the loop of the Reactor's example and keeps  *)
(* its contract (a handler drains until it would block), the other ends of *)
(* the files, and a process that another thread forks: it has a copy of    *)
(* every descriptor until it runs exec.  Files in Writers are registered   *)
(* for writing, the others for reading; level is what there is to read, or *)
(* the room to write.                                                      *)
(***************************************************************************)
EXTENDS Naturals, FiniteSets

CONSTANTS
  Files,      \* open files, each opened at most once
  Writers,    \* those registered with add(fd, false, true)
  MaxEvents,  \* max_events of wait
  MaxToken,   \* bound: tokens handed out
  MaxLevel,   \* bound: units to read or room to write
  MayFail,    \* epoll_ctl may fail
  NoFile

ASSUME FilesAssumption == NoFile \notin Files /\ Writers \subseteq Files
ASSUME FilesFinite == IsFiniteSet(Files)
ASSUME EventsAssumption == MaxEvents \in Nat \ {0} /\ MaxToken \in Nat
ASSUME LevelAssumption == MaxLevel \in Nat /\ MayFail \in BOOLEAN

VARIABLES
  unopened,    \* the files not opened yet
  fd,          \* the descriptor number of each file the caller holds, 0 for none
  token,       \* its token, 0 for none
  next_token,
  reg,         \* epoll: the token a file is registered with, 0 for none
  ready,       \* epoll: the ready list
  copies,      \* the files the forked process still holds
  level, hup,
  events,      \* what wait returned and the caller has not handled
  pc,          \* the caller: "loop", "epoll_wait", "dispatch" or "handler"
  current      \* the file the handler drains

files == <<unopened, fd>>
peers == <<level, hup>>
loop == <<events, pc, current>>
vars == <<files, token, next_token, reg, ready, copies, peers, loop>>

-----------------------------------------------------------------------------

Numbers == 1..Cardinality(Files)
Held(f) == fd[f] # 0
FreeNumbers == {n \in Numbers : \A f \in Files : fd[f] # n}

\* What epoll finds when it polls the file.
Ready(f) == level[f] > 0 \/ f \in hup

\* The caller is running its own code, a handler's included.
Calling == pc \in {"loop", "dispatch"}

Init ==
  /\ unopened = Files /\ fd = [f \in Files |-> 0]
  /\ token = [f \in Files |-> 0] /\ next_token = 1
  /\ reg = [f \in Files |-> 0] /\ ready = {} /\ copies = {}
  /\ level = [f \in Files |-> 0] /\ hup = {}
  /\ events = {} /\ pc = "loop" /\ current = NoFile

\* A file is opened at the lowest free number.
Open(f) ==
  /\ Calling /\ f \in unopened
  /\ unopened' = unopened \ {f}
  /\ \E n \in FreeNumbers :
       (\A m \in FreeNumbers : n <= m) /\ fd' = [fd EXCEPT ![f] = n]
  /\ UNCHANGED <<token, next_token, reg, ready, copies, peers, loop>>

-----------------------------------------------------------------------------
(* add, del and the drop of an Fd.                                          *)

\* Mutant: the descriptor number serves as the token.
AddNumberAsToken(f) ==
  /\ Calling /\ Held(f) /\ reg[f] = 0 /\ next_token <= MaxToken
  /\ next_token' = next_token + 1
  /\ reg' = [reg EXCEPT ![f] = fd[f]]
  /\ token' = [token EXCEPT ![f] = fd[f]]
  /\ ready' = IF Ready(f) THEN ready \cup {f} ELSE ready
  /\ UNCHANGED <<files, copies, peers, loop>>

\* epoll_ctl polls the file when it is added.
Add(f) ==
  /\ Calling /\ Held(f) /\ reg[f] = 0 /\ next_token <= MaxToken
  /\ next_token' = next_token + 1
  /\ reg' = [reg EXCEPT ![f] = next_token]
  /\ token' = [token EXCEPT ![f] = next_token]
  /\ ready' = IF Ready(f) THEN ready \cup {f} ELSE ready
  /\ UNCHANGED <<files, copies, peers, loop>>

\* EEXIST, or another error: the token is spent.
AddFails(f) ==
  /\ Calling /\ Held(f) /\ next_token <= MaxToken
  /\ reg[f] # 0 \/ MayFail
  /\ next_token' = next_token + 1
  /\ UNCHANGED <<files, token, reg, ready, copies, peers, loop>>

\* epoll forgets the file.
Forget(F) ==
  /\ reg' = [f \in Files |-> IF f \in F THEN 0 ELSE reg[f]]
  /\ ready' = ready \ F

Del(f) ==
  /\ Calling /\ Held(f) /\ reg[f] # 0
  /\ Forget({f})
  /\ token' = [token EXCEPT ![f] = 0]
  /\ UNCHANGED <<files, next_token, copies, peers, loop>>

\* epoll forgets a file when its last descriptor is closed, not before.
Close(f) ==
  /\ fd' = [fd EXCEPT ![f] = 0]
  /\ token' = [token EXCEPT ![f] = 0]
  /\ Forget({f} \ copies)
  /\ UNCHANGED <<unopened, next_token, copies, peers>>

Drop(f) == Calling /\ Held(f) /\ Close(f) /\ UNCHANGED loop

-----------------------------------------------------------------------------
(* wait.                                                                    *)

\* buffer.clear() and the call of epoll_wait.
EnterWait ==
  /\ pc = "loop"
  /\ pc' = "epoll_wait"
  /\ UNCHANGED <<files, token, next_token, reg, ready, copies, peers, events, current>>

\* Mutant: a hang-up sets error only, neither readable nor writable.
EventWithoutHangup(f) ==
  [token |-> reg[f], file |-> f,
   readable |-> f \notin Writers /\ level[f] > 0,
   writable |-> f \in Writers /\ level[f] > 0, error |-> f \in hup]

\* The Event of a file; file is where it comes from, which the caller does not see.
Event(f) ==
  [token |-> reg[f], file |-> f,
   readable |-> (f \notin Writers /\ level[f] > 0) \/ f \in hup,
   writable |-> (f \in Writers /\ level[f] > 0) \/ f \in hup, error |-> f \in hup]

Deliverable == {f \in ready : Ready(f)}

\* Mutant: epoll_wait fills the whole events_buf, max_events of it are passed on.
WaitTruncates(T) ==
  /\ pc = "epoll_wait"
  /\ T \subseteq Deliverable /\ T # {} /\ Cardinality(T) <= MaxEvents
  /\ events' = {Event(f) : f \in T}
  /\ ready' = {}
  /\ pc' = "dispatch"
  /\ UNCHANGED <<files, token, next_token, reg, copies, peers, current>>

\* Up to max_events files are reported and leave the ready list.
WaitReports(T) ==
  /\ pc = "epoll_wait"
  /\ T \subseteq Deliverable /\ T # {} /\ Cardinality(T) <= MaxEvents
  /\ events' = {Event(f) : f \in T}
  /\ ready' = ready \ T
  /\ pc' = "dispatch"
  /\ UNCHANGED <<files, token, next_token, reg, copies, peers, current>>

\* The timeout, EINTR (Ok(0) both) or an error.  epoll_wait looks at its list first.
WaitEmpty ==
  /\ pc = "epoll_wait" /\ Deliverable = {}
  /\ pc' = "loop"
  /\ UNCHANGED <<files, token, next_token, reg, ready, copies, peers, events, current>>

-----------------------------------------------------------------------------
(* The caller's loop over the events.                                       *)

Wanted(f, e) == token[f] = e.token /\ (IF f \in Writers THEN e.writable ELSE e.readable)

Handle(e) ==
  /\ pc = "dispatch" /\ e \in events
  /\ events' = events \ {e}
  /\ \/ \E f \in Files : /\ Held(f) /\ Wanted(f, e)
                         /\ current' = f /\ pc' = "handler"
     \/ /\ \A f \in Files : Held(f) => ~Wanted(f, e)
        /\ UNCHANGED <<pc, current>>
  /\ UNCHANGED <<files, token, next_token, reg, ready, copies, peers>>

EndDispatch ==
  /\ pc = "dispatch" /\ events = {}
  /\ pc' = "loop"
  /\ UNCHANGED <<files, token, next_token, reg, ready, copies, peers, events, current>>

Leave == pc' = "dispatch" /\ current' = NoFile

\* read_raw, write_raw: Ok(Some(n)), after any number of EINTR.
ReadSome ==
  /\ pc = "handler" /\ level[current] > 0 /\ current \notin Writers \cap hup
  /\ \E n \in 0..(level[current] - 1) : level' = [level EXCEPT ![current] = n]
  /\ UNCHANGED <<files, token, next_token, reg, ready, copies, hup, loop>>

\* Ok(None).
ReadWouldBlock ==
  /\ pc = "handler" /\ level[current] = 0 /\ current \notin hup
  /\ Leave
  /\ UNCHANGED <<files, token, next_token, reg, ready, copies, peers, events>>

\* Ok(Some(0)) or EPIPE: the file is dropped, without del.
ReadEof ==
  /\ pc = "handler" /\ current \in hup
  /\ level[current] = 0 \/ current \in Writers
  /\ Leave /\ Close(current)
  /\ UNCHANGED events

-----------------------------------------------------------------------------
(* The other ends, and another thread's fork.                               *)

\* The fewest wake-ups: what is ready anyway does not wake epoll again.
Wake(f) == ready' = IF reg[f] # 0 THEN ready \cup {f} ELSE ready

Fills(f) ==
  /\ level[f] < MaxLevel /\ f \notin hup
  /\ level' = [level EXCEPT ![f] = @ + 1]
  /\ IF level[f] = 0 THEN Wake(f) ELSE UNCHANGED ready
  /\ UNCHANGED <<files, token, next_token, reg, copies, hup, loop>>

HangsUp(f) ==
  /\ f \notin hup
  /\ hup' = hup \cup {f}
  /\ Wake(f)
  /\ UNCHANGED <<files, token, next_token, reg, copies, level, loop>>

Forks ==
  /\ copies = {}
  /\ copies' = {f \in Files : Held(f)}
  /\ UNCHANGED <<files, token, next_token, reg, ready, peers, loop>>

\* The copies have O_CLOEXEC.
ForkedExecs ==
  /\ copies # {}
  /\ copies' = {}
  /\ Forget({f \in Files : ~Held(f)})
  /\ UNCHANGED <<files, token, next_token, peers, loop>>

-----------------------------------------------------------------------------

Handler == ReadSome \/ ReadWouldBlock \/ ReadEof
Waiting == WaitEmpty \/ \E T \in SUBSET Files : WaitReports(T)
Dispatching == EndDispatch \/ \E e \in events : Handle(e)

Owning(f) == Open(f) \/ Add(f) \/ AddFails(f) \/ Del(f) \/ Drop(f)

Next ==
  \/ EnterWait \/ Waiting \/ Dispatching \/ Handler
  \/ \E f \in Files : Owning(f) \/ Fills(f) \/ HangsUp(f)
  \/ Forks \/ ForkedExecs

\* The caller's loop runs on, and epoll takes the ready files in turn.
Fairness ==
  /\ WF_vars(EnterWait) /\ WF_vars(Waiting)
  /\ WF_vars(Dispatching) /\ WF_vars(Handler)
  /\ \A f \in Files : SF_vars(\E T \in SUBSET Files : f \in T /\ WaitReports(T))

Spec == Init /\ [][Next]_vars /\ Fairness

-----------------------------------------------------------------------------
(* Properties.                                                              *)

\* Every variable keeps its type; a token the caller holds is the one epoll has,
\* and the file that is drained is held.
TypeOK ==
  /\ unopened \subseteq Files /\ fd \in [Files -> Nat]
  /\ token \in [Files -> Nat] /\ next_token \in Nat \ {0}
  /\ reg \in [Files -> Nat] /\ ready \subseteq Files /\ copies \subseteq Files
  /\ level \in [Files -> Nat] /\ hup \subseteq Files
  /\ events \subseteq [token : Nat \ {0}, file : Files, readable : BOOLEAN,
                       writable : BOOLEAN, error : BOOLEAN]
  /\ \A f \in ready : reg[f] # 0
  /\ pc \in {"loop", "epoll_wait", "dispatch", "handler"}
  /\ current \in Files \cup {NoFile} /\ (pc = "handler" <=> current # NoFile)
  /\ \A f \in Files : token[f] # 0 => token[f] = reg[f] /\ Held(f)
  /\ pc = "handler" => token[current] # 0
  /\ pc \in {"loop", "epoll_wait"} => events = {}

\* "A new unique token": an event of a file that was dropped is never taken for
\* one of another file, whatever number that one has.
EventsNameTheirFile ==
  \A e \in events, f \in Files : token[f] = e.token => f = e.file

\* While the caller keeps its contract, a watched file with something to do is
\* on the ready list, in the batch with a flag its handler asks for, or served.
ReadinessKept ==
  \A f \in Files :
    token[f] # 0 /\ Ready(f) =>
      \/ f \in ready \/ current = f
      \/ \E e \in events : Wanted(f, e)

\* A caller that returns to wait serves every watched file in the end, however
\* small max_events is and however often others become ready.
Served ==
  []<>(pc = "loop") =>
    \A f \in Files :
      token[f] # 0 /\ Ready(f) ~> token[f] = 0 \/ ~Ready(f)

\* The promise of module Watcher.
W == INSTANCE Watcher WITH
  Batches <- {F \in SUBSET Files : Cardinality(F) <= MaxEvents},
  watched <- {f \in Files : token[f] # 0},
  lingering <- {f \in Files : reg[f] # 0 /\ token[f] = 0},
  unserved <- {f \in Files : Ready(f)},
  told <- {f \in Files : token[f] # 0 /\ \E e \in events : e.token = token[f]},
  serving <- current,
  phase <- IF pc = "epoll_wait" THEN "waiting" ELSE "working"

Watches == W!Spec
=============================================================================
