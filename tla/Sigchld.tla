------------------------------ MODULE Sigchld ------------------------------
(***************************************************************************)
(* setup_signalfd and drain_signalfd of src/reactor/mod.rs: a program      *)
(* learns of its children's ends from its epoll loop.                      *)
(*                                                                         *)
(* Actors: the program, which is told of sigchld_token by wait, drains the *)
(* signalfd and then polls every child with Process::wait_step; and the    *)
(* children.  SIGCHLD is a standard signal: while one is pending another   *)
(* is not generated and wakes nobody.  All threads that do not run the     *)
(* reactor are taken to block SIGCHLD.                                     *)
(***************************************************************************)
EXTENDS Naturals

CONSTANTS
  Children,   \* processes the program starts
  MaxSetups,  \* bound: calls of setup_signalfd
  MayFail     \* sigprocmask, signalfd and epoll_ctl may fail

ASSUME SetupsAssumption == MaxSetups \in Nat /\ MayFail \in BOOLEAN

VARIABLES
  child,         \* each child: "unborn", "running", "zombie" or "reaped"
  lost,          \* those that ended while SIGCHLD was not blocked
  blocked,       \* SIGCHLD in the signal mask
  pending,       \* SIGCHLD is pending
  made,          \* calls of setup_signalfd whose signalfd is made, or that failed before it
  open, reg,     \* the open ones, and the token each has in epoll, 0 for none
  ready,         \* epoll's ready list
  signalfd,      \* the Reactor's fields, 0 for None
  sigchld_token,
  next_token,
  events,        \* tokens that wait returned
  todo,          \* children the program has still to poll
  pc             \* "loop", "signalfd", "add", "store", "dispatch", "drain", "poll"

children == <<child, lost>>
kernel == <<pending, ready>>
fds == <<made, open, reg>>
fields == <<signalfd, sigchld_token, next_token>>
caller == <<events, todo, pc>>
vars == <<children, blocked, kernel, fds, fields, caller>>

-----------------------------------------------------------------------------

Fds == 1..MaxSetups
Registered == {s \in open : reg[s] # 0}

Init ==
  /\ child = [c \in Children |-> "unborn"] /\ lost = {}
  /\ blocked = FALSE /\ pending = FALSE /\ ready = {}
  /\ made = 0 /\ open = {} /\ reg = [s \in Fds |-> 0]
  /\ signalfd = 0 /\ sigchld_token = 0 /\ next_token = 1
  /\ events = {} /\ todo = {} /\ pc = "loop"

-----------------------------------------------------------------------------
(* The children.                                                            *)

Start(c) ==
  /\ pc = "loop" /\ child[c] = "unborn"
  /\ child' = [child EXCEPT ![c] = "running"]
  /\ UNCHANGED <<lost, blocked, kernel, fds, fields, caller>>

\* SIGCHLD is discarded while it is not blocked, for its default is to be ignored.
Ends(c) ==
  /\ child[c] = "running"
  /\ child' = [child EXCEPT ![c] = "zombie"]
  /\ lost' = IF blocked THEN lost ELSE lost \cup {c}
  /\ pending' = (pending \/ blocked)
  /\ ready' = IF blocked /\ ~pending THEN ready \cup Registered ELSE ready
  /\ UNCHANGED <<blocked, fds, fields, caller>>

-----------------------------------------------------------------------------
(* setup_signalfd, one system call at a time.                               *)

BlockSigchld ==
  /\ pc = "loop" /\ made < MaxSetups
  /\ blocked' = TRUE
  /\ pc' = "signalfd"
  /\ UNCHANGED <<children, kernel, fds, fields, events, todo>>

\* sigprocmask refuses: the mask is as before and no signalfd is made.
BlockFails ==
  /\ pc = "loop" /\ made < MaxSetups /\ MayFail
  /\ made' = made + 1
  /\ UNCHANGED <<children, blocked, kernel, open, reg, fields, caller>>

MakeSignalfd ==
  /\ pc = "signalfd"
  /\ made' = made + 1
  /\ open' = open \cup {made + 1}
  /\ pc' = "add"
  /\ UNCHANGED <<children, blocked, kernel, reg, fields, events, todo>>

MakeFails ==
  /\ pc = "signalfd" /\ MayFail
  /\ made' = made + 1 /\ pc' = "loop"
  /\ UNCHANGED <<children, blocked, kernel, open, reg, fields, events, todo>>

\* epoll polls the signalfd when it is added.
AddSignalfd ==
  /\ pc = "add"
  /\ reg' = [reg EXCEPT ![made] = next_token]
  /\ next_token' = next_token + 1
  /\ ready' = IF pending THEN ready \cup {made} ELSE ready
  /\ pc' = "store"
  /\ UNCHANGED <<children, blocked, pending, made, open, signalfd, sigchld_token, events, todo>>

\* Mutant: the new descriptor is not owned by an Fd yet and stays open.
AddFailsLeaking ==
  /\ pc = "add" /\ MayFail
  /\ next_token' = next_token + 1
  /\ pc' = "loop"
  /\ UNCHANGED <<children, blocked, kernel, fds, signalfd, sigchld_token, events, todo>>

\* The error return drops the Fd; the mask stays.
AddFails ==
  /\ pc = "add" /\ MayFail
  /\ next_token' = next_token + 1
  /\ open' = open \ {made}
  /\ pc' = "loop"
  /\ UNCHANGED <<children, blocked, kernel, made, reg, signalfd, sigchld_token, events, todo>>

\* Mutant: a second setup keeps the first token.
StoreFirstToken ==
  /\ pc = "store"
  /\ signalfd' = made
  /\ sigchld_token' = IF sigchld_token = 0 THEN reg[made] ELSE sigchld_token
  /\ open' = open \ {signalfd} /\ ready' = ready \ {signalfd}
  /\ reg' = [s \in Fds |-> IF s = signalfd THEN 0 ELSE reg[s]]
  /\ pc' = "loop"
  /\ UNCHANGED <<children, blocked, pending, made, next_token, events, todo>>

\* A signalfd of an earlier setup is dropped, and epoll forgets it.
Store ==
  /\ pc = "store"
  /\ signalfd' = made /\ sigchld_token' = reg[made]
  /\ open' = open \ {signalfd} /\ ready' = ready \ {signalfd}
  /\ reg' = [s \in Fds |-> IF s = signalfd THEN 0 ELSE reg[s]]
  /\ pc' = "loop"
  /\ UNCHANGED <<children, blocked, pending, made, next_token, events, todo>>

\* The Reactor is dropped and another is made.
Renew ==
  /\ pc = "loop" /\ signalfd # 0
  /\ signalfd' = 0 /\ sigchld_token' = 0 /\ next_token' = 1
  /\ open' = {} /\ reg' = [s \in Fds |-> 0] /\ ready' = {}
  /\ UNCHANGED <<children, blocked, pending, made, caller>>

-----------------------------------------------------------------------------
(* The loop of the program.                                                 *)

\* A signalfd is readable while SIGCHLD is pending.
Wait ==
  /\ pc = "loop" /\ ready # {}
  /\ ready' = {}
  /\ events' = IF pending THEN {reg[s] : s \in ready} ELSE {}
  /\ pc' = "dispatch"
  /\ UNCHANGED <<children, blocked, pending, fds, fields, todo>>

Dispatch ==
  /\ pc = "dispatch"
  /\ events' = {}
  /\ pc' = IF sigchld_token \in events THEN "drain" ELSE "loop"
  /\ UNCHANGED <<children, blocked, kernel, fds, fields, todo>>

\* Mutant: the buffer is shorter than a signalfd_siginfo, every read fails.
DrainTooShort ==
  /\ pc = "drain"
  /\ todo' = {c \in Children : child[c] \in {"running", "zombie"}}
  /\ pc' = "poll"
  /\ UNCHANGED <<children, blocked, kernel, fds, fields, events>>

\* One read: Ok(Some(n)), or EAGAIN, on which drain_signalfd returns.
Drain ==
  /\ pc = "drain"
  /\ pending' = FALSE
  /\ IF pending
       THEN UNCHANGED <<todo, pc>>
       ELSE /\ todo' = {c \in Children : child[c] \in {"running", "zombie"}}
            /\ pc' = "poll"
  /\ UNCHANGED <<children, blocked, ready, fds, fields, events>>

\* wait_step takes the status of a child that has ended.
Poll(c) ==
  /\ pc = "poll" /\ c \in todo
  /\ todo' = todo \ {c}
  /\ child' = [child EXCEPT ![c] = IF @ = "zombie" THEN "reaped" ELSE @]
  /\ UNCHANGED <<lost, blocked, kernel, fds, fields, events, pc>>

EndPoll ==
  /\ pc = "poll" /\ todo = {}
  /\ pc' = "loop"
  /\ UNCHANGED <<children, blocked, kernel, fds, fields, events, todo>>

-----------------------------------------------------------------------------

Setup == MakeSignalfd \/ MakeFails \/ AddSignalfd \/ AddFails \/ Store
Round == Wait \/ Dispatch \/ Drain \/ EndPoll \/ \E c \in Children : Poll(c)

Next ==
  \/ \E c \in Children : Start(c) \/ Ends(c)
  \/ BlockSigchld \/ BlockFails \/ Setup \/ Renew \/ Round

\* A call that was begun ends, and the program returns to its loop.
Spec == Init /\ [][Next]_vars /\ WF_vars(Setup) /\ WF_vars(Round)

-----------------------------------------------------------------------------
(* Properties.                                                              *)

\* Every variable keeps its type; outside setup_signalfd the Reactor's signalfd
\* is the only one open, and sigchld_token is the token epoll has for it.
TypeOK ==
  /\ child \in [Children -> {"unborn", "running", "zombie", "reaped"}]
  /\ lost \subseteq Children /\ todo \subseteq Children
  /\ blocked \in BOOLEAN /\ pending \in BOOLEAN
  /\ made \in 0..MaxSetups /\ open \subseteq 1..made
  /\ reg \in [Fds -> Nat] /\ ready \subseteq Registered
  /\ signalfd \in open \cup {0} /\ sigchld_token \in Nat
  /\ next_token \in Nat \ {0} /\ events \subseteq Nat
  /\ pc \in {"loop", "signalfd", "add", "store", "dispatch", "drain", "poll"}

\* Whatever setup fails at, it leaves no second signalfd behind and the token of
\* the one that works: no event of another descriptor is taken for SIGCHLD.
OneSignalfd ==
  /\ sigchld_token = IF signalfd = 0 THEN 0 ELSE reg[signalfd]
  /\ pc \notin {"add", "store"} => open = {signalfd} \ {0}

\* "Block SIGCHLD so signalfd can intercept it": the program is on its way to
\* poll every child that ended since, although several ends are one signal, the
\* signal may come before, during or after a setup, and setups may fail.
NoExitUnseen ==
  \A c \in Children \ lost :
    child[c] = "zombie" /\ signalfd # 0 =>
      \/ pending /\ signalfd \in ready
      \/ pending /\ sigchld_token \in events
      \/ pc = "drain"
      \/ pc = "poll" /\ c \in todo

\* A program that has set the signalfd up, and keeps it, reaps every such child.
ExitsNoticed ==
  \A c \in Children :
    child[c] = "zombie" /\ c \notin lost /\ signalfd # 0
      ~> child[c] = "reaped" \/ signalfd = 0
=============================================================================
