------------------------------ MODULE Inotify ------------------------------
(***************************************************************************)
(* src/inotify.rs with Reactor::setup_inotify, as the loop of              *)
(* examples/watch_temp.rs runs them: changes become events in the kernel's *)
(* queue, wait reports an edge, read_events drains the queue through a     *)
(* buffer, decode_events unpacks it.                                       *)
(*                                                                         *)
(* A buffer is a sequence of cells.  An event takes Base cells of header,  *)
(* the first of which holds its fields, and its name, which is padded with *)
(* zeros to whole headers.  wd and cookie are taken together as id, the    *)
(* serial number of the event.  A name is a sequence of bytes in the       *)
(* kernel; decode_events makes a String of it, for which bytes that are    *)
(* not UTF-8 are replaced.                                                 *)
(***************************************************************************)
EXTENDS Naturals, Sequences, SequencesExt

CONSTANTS
  Base,        \* size of a header
  BufLen,      \* size of the buffer of read_events
  Paths,       \* what can be watched
  Names,       \* names of changed files, <<>> for an event that has none
  FromUtf8Lossy(_),  \* String::from_utf8_lossy, of any encoding
  MaxQueue,    \* max_queued_events of the kernel
  MaxEvents,   \* bound: events the kernel queues
  MayFail      \* system calls may fail

Padded(n) == IF n = <<>> THEN 0 ELSE ((Len(n) + Base) \div Base) * Base

ASSUME SizesAssumption == Base \in Nat \ {0} /\ BufLen \in Nat /\ MaxQueue \in Nat \ {0}
\* A file name has no zero byte.
ASSUME NamesAssumption == Names \subseteq Seq(Nat \ {0})
\* read(2) fails with EINVAL if the next event does not fit; 4096 bytes always do.
ASSUME BufferFitsAnyEvent == \A n \in Names : Base + Padded(n) <= BufLen

VARIABLES
  watched,        \* the paths of the watches
  queue,          \* the kernel's queue of events
  ready,          \* epoll's ready list holds the inotify descriptor
  reg,            \* its token in epoll, 0 before it is added
  inotify_token,  \* the field of the Reactor, 0 for None
  next_token,
  events,         \* tokens returned by wait
  all_events,     \* local to read_events
  seen,           \* what read_events has returned
  pc,             \* "setup", "loop", "wait", "dispatch", "read" or "done"
  log,            \* every event the kernel has queued
  failed,         \* a read has failed
  dropped         \* the events its call had taken

kernel == <<watched, queue, log>>
failure == <<failed, dropped>>
setup == <<reg, inotify_token, next_token>>
vars == <<kernel, ready, setup, events, all_events, seen, pc, failure>>

-----------------------------------------------------------------------------
(* The packed stream.                                                       *)

Zeros(n) == [i \in 1..n |-> 0]
Header(e) == <<[id |-> e.id, mask |-> e.mask, len |-> Padded(e.name)]>> \o Zeros(Base - 1)
Encoded(e) == Header(e) \o e.name \o Zeros(Padded(e.name) - Len(e.name))
Encode(q) == FlattenSeq([i \in DOMAIN q |-> Encoded(q[i])])

\* What the first k events of q take.
Cells(q, k) ==
  LET upto[j \in 0..k] == IF j = 0 THEN 0 ELSE upto[j - 1] + Base + Padded(q[j].name)
  IN upto[k]

\* What comes before the first zero.
Unpadded(s) ==
  SubSeq(s, 1, Min({i - 1 : i \in {j \in DOMAIN s : s[j] = 0}} \cup {Len(s)}))

\* The InotifyEvent of a header h and what follows it, s; <<>> is None.
Event(h, s) ==
  [id |-> h.id, mask |-> h.mask,
   name |-> IF h.len > 0 THEN FromUtf8Lossy(Unpadded(s)) ELSE <<>>]

\* Mutant: an event that ends where the buffer ends is taken for a truncated one.
DecodeStepStrict(buf, s) ==
  IF s.offset + Base > Len(buf) THEN s
  ELSE LET h == buf[s.offset + 1]
           end == s.offset + Base + h.len
       IN IF end >= Len(buf) THEN s
          ELSE [offset |-> end,
                events |-> Append(s.events, Event(h, SubSeq(buf, s.offset + Base + 1, end)))]

\* Mutant: the name is cut at the end of the buffer.
DecodeStepCut(buf, s) ==
  IF s.offset + Base > Len(buf) THEN s
  ELSE LET h == buf[s.offset + 1]
           end == s.offset + Base + h.len
       IN [offset |-> end,
           events |-> Append(s.events, Event(h, SubSeq(buf, s.offset + Base + 1,
                        IF end > Len(buf) THEN Len(buf) ELSE end)))]

\* One turn of the loop of decode_events; a turn that breaks changes nothing.
DecodeStep(buf, s) ==
  IF s.offset + Base > Len(buf) THEN s
  ELSE LET h == buf[s.offset + 1]
           end == s.offset + Base + h.len
       IN IF end > Len(buf) THEN s
          ELSE [offset |-> end,
                events |-> Append(s.events, Event(h, SubSeq(buf, s.offset + Base + 1, end)))]

\* decode_events; a turn that does not break takes a header at least.
Decode(buf) ==
  LET turns == Len(buf) \div Base
      after[n \in 0..turns] ==
        IF n = 0 THEN [offset |-> 0, events |-> <<>>] ELSE DecodeStep(buf, after[n - 1])
  IN after[turns].events

\* The events of q that fit in n cells whole, in their order.
Fitting(q, n) ==
  SubSeq(q, 1, Max({k \in 0..Len(q) : Cells(q, k) <= n}))

-----------------------------------------------------------------------------

Init ==
  /\ watched = {} /\ queue = <<>> /\ ready = FALSE
  /\ reg = 0 /\ inotify_token = 0 /\ next_token = 1
  /\ events = {} /\ all_events = <<>> /\ seen = <<>> /\ pc = "setup"
  /\ log = <<>> /\ failed = FALSE /\ dropped = {}

\* The kernel queues an event and wakes epoll.  Beyond MaxQueue there is room for
\* one IN_Q_OVERFLOW, and what comes while that is queued is discarded.
Queue(mask, name) ==
  LET over == Len(queue) >= MaxQueue
      e == [id |-> Len(log) + 1, mask |-> IF over THEN "overflow" ELSE mask,
            name |-> IF over THEN <<>> ELSE name]
  IN IF over /\ \E i \in DOMAIN queue : queue[i].mask = "overflow"
       THEN UNCHANGED <<queue, log, ready>>
       ELSE queue' = Append(queue, e) /\ log' = Append(log, e) /\ ready' = (reg # 0)

\* A watched file, or a file of a watched directory, is modified.
Modified(p, name) ==
  /\ p \in watched /\ Len(log) < MaxEvents
  /\ Queue("modify", name)
  /\ UNCHANGED <<watched, setup, events, all_events, seen, pc, failure>>

\* The watched object is deleted or unmounted, and its watch with it.
Removed(p) ==
  /\ p \in watched /\ Len(log) < MaxEvents
  /\ watched' = watched \ {p}
  /\ Queue("ignored", <<>>)
  /\ UNCHANGED <<setup, events, all_events, seen, pc, failure>>

-----------------------------------------------------------------------------
(* setup_inotify and add_watch.                                             *)

SetupInotify ==
  /\ pc = "setup" /\ reg = 0
  /\ reg' = next_token /\ inotify_token' = next_token /\ next_token' = next_token + 1
  /\ UNCHANGED <<kernel, ready, events, all_events, seen, pc, failure>>

\* inotify_init1 or epoll_ctl fails: the descriptor is dropped, ? ends the program.
SetupFails ==
  /\ pc = "setup" /\ reg = 0 /\ MayFail
  /\ next_token' \in {next_token, next_token + 1}
  /\ pc' = "done"
  /\ UNCHANGED <<kernel, ready, reg, inotify_token, events, all_events, seen, failure>>

AddWatch(p) ==
  /\ pc \in {"setup", "loop"} /\ reg # 0
  /\ watched' = watched \cup {p}
  /\ pc' = "loop"
  /\ UNCHANGED <<queue, log, ready, setup, events, all_events, seen, failure>>

\* The path has a NUL, or the system call fails.
AddWatchFails ==
  /\ pc = "setup" /\ reg # 0 /\ MayFail
  /\ pc' = "done"
  /\ UNCHANGED <<kernel, ready, setup, events, all_events, seen, failure>>

-----------------------------------------------------------------------------
(* The loop of watch_temp.                                                  *)

\* The time to watch is up, or it is not.
Elapsed ==
  /\ pc = "loop"
  /\ pc' \in {"wait", "done"}
  /\ UNCHANGED <<kernel, ready, setup, events, all_events, seen, failure>>

\* A timeout and EINTR return no events.
Wait ==
  /\ pc = "wait"
  /\ events' = IF ready /\ queue # <<>> THEN {reg} ELSE {}
  /\ ready' = FALSE
  /\ pc' = "dispatch"
  /\ UNCHANGED <<kernel, setup, all_events, seen, failure>>

Dispatch ==
  /\ pc = "dispatch"
  /\ pc' = IF inotify_token \in events THEN "read" ELSE "loop"
  /\ events' = {}
  /\ UNCHANGED <<kernel, ready, setup, all_events, seen, failure>>

\* The kernel fills the buffer with whole events.
Filled == Fitting(queue, BufLen)
Unread == SubSeq(queue, Len(Filled) + 1, Len(queue))

\* Mutant: read_events returns after one buffer.
ReadOnce ==
  /\ pc = "read" /\ queue # <<>>
  /\ \E buf \in {Encode(Filled)} : seen' = seen \o all_events \o Decode(buf)
  /\ all_events' = <<>>
  /\ queue' = Unread
  /\ pc' = "loop"
  /\ UNCHANGED <<watched, log, ready, setup, events, failure>>

\* Ok(Some(n)).
Read ==
  /\ pc = "read" /\ queue # <<>>
  /\ \E buf \in {Encode(Filled)} : all_events' = all_events \o Decode(buf)
  /\ queue' = Unread
  /\ UNCHANGED <<watched, log, ready, setup, events, seen, pc, failure>>

\* Ok(None).
ReadWouldBlock ==
  /\ pc = "read" /\ queue = <<>>
  /\ seen' = seen \o all_events /\ all_events' = <<>>
  /\ pc' = "loop"
  /\ UNCHANGED <<kernel, ready, setup, events, failure>>

\* Err: what the call had read is gone; watch_temp ends, another caller may go on.
ReadFails ==
  /\ pc = "read" /\ MayFail
  /\ failed' = TRUE
  /\ dropped' = dropped \cup {all_events[i].id : i \in DOMAIN all_events}
  /\ all_events' = <<>>
  /\ pc' \in {"loop", "done"}
  /\ UNCHANGED <<kernel, ready, setup, events, seen>>

-----------------------------------------------------------------------------

Setup == SetupInotify \/ SetupFails \/ AddWatchFails \/ \E p \in Paths : AddWatch(p)
Loop == Elapsed \/ Wait \/ Dispatch \/ Read \/ ReadWouldBlock

Next ==
  \/ Setup \/ Loop \/ ReadFails
  \/ \E p \in Paths : Removed(p) \/ \E n \in Names : Modified(p, n)

\* The program's thread runs.
Spec == Init /\ [][Next]_vars /\ WF_vars(Loop)

-----------------------------------------------------------------------------
(* Properties.                                                              *)

Masks == {"modify", "ignored", "overflow"}
Events == [id : Nat \ {0}, mask : Masks, name : Names \cup {<<>>}]

\* How the caller is told of an event of the kernel, and of several.
Told(e) ==
  [id |-> e.id, mask |-> e.mask,
   name |-> IF e.name = <<>> THEN <<>> ELSE FromUtf8Lossy(e.name)]
AllTold(q) == [i \in DOMAIN q |-> Told(q[i])]
ToldEvents ==
  [id : Nat \ {0}, mask : Masks, name : {FromUtf8Lossy(n) : n \in Names} \cup {<<>>}]

\* Every variable keeps its type, and inotify_token is the token epoll has.
TypeOK ==
  /\ watched \subseteq Paths /\ dropped \subseteq DOMAIN log
  /\ ready \in BOOLEAN /\ failed \in BOOLEAN
  /\ queue \in Seq(Events) /\ log \in Seq(Events)
  /\ all_events \in Seq(ToldEvents) /\ seen \in Seq(ToldEvents)
  /\ reg \in Nat /\ inotify_token = reg /\ next_token \in Nat /\ events \subseteq {reg}
  /\ pc \in {"setup", "loop", "wait", "dispatch", "read", "done"}
  /\ Len(queue) <= MaxQueue + 1

\* "Truncated events at the end of the buffer are ignored", and nothing else is:
\* wherever the stream of the queued events is cut, the whole events before the
\* cut come out, in order, each with the String made of its own name.
TruncationIgnored ==
  \A buf \in Prefixes(Encode(queue)) : Decode(buf) = AllTold(Fitting(queue, Len(buf)))

\* "Read all available inotify events": what was returned, what a call has taken and
\* what is queued are, in this order, every event the kernel queued, the overflow
\* included, once each, but for those taken by a call that failed.
NoSilentLoss ==
  LET all == seen \o all_events \o AllTold(queue)
  IN /\ \A i \in DOMAIN all : all[i] = Told(log[all[i].id])
     /\ \A i, j \in DOMAIN all : i < j => all[i].id < all[j].id
     /\ {all[i].id : i \in DOMAIN all} = DOMAIN log \ dropped

\* "It is safe to use with edge-triggered reactors": whenever an event is queued, its
\* edge is still to come or its reader is on its way, unless a read failed and left
\* the queue as it was.
EdgeKept ==
  queue # <<>> =>
    ready \/ inotify_token \in events \/ pc \in {"read", "done"} \/ failed

\* The same over time: a program that goes on watching
\* is given every event, whenever it comes, if no read fails.
Delivered ==
  \A i \in 1..MaxEvents :
    Len(log) >= i ~> pc = "done" \/ failed \/ \E k \in DOMAIN seen : seen[k].id = i
=============================================================================
