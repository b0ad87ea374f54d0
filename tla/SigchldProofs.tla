--------------------------- MODULE SigchldProofs ---------------------------
(* Theorems about Sigchld, for any children and any number of setups.       *)
EXTENDS Sigchld, TLAPS

USE SetupsAssumption

-----------------------------------------------------------------------------
(* The inductive invariant.                                                 *)

\* What is open, and where the new signalfd of a setup stands.
Shape ==
  /\ sigchld_token = IF signalfd = 0 THEN 0 ELSE reg[signalfd]
  /\ signalfd # 0 => reg[signalfd] # 0
  /\ pc \notin {"add", "store"} => open = {signalfd} \ {0}
  /\ pc \in {"add", "store"} =>
       open = {signalfd, made} \ {0} /\ made # 0 /\ made # signalfd
  /\ pc = "add" => reg[made] = 0
  /\ pc = "store" => reg[made] # 0
  /\ pc = "signalfd" => made < MaxSetups
  /\ \A s \in Fds : s > made => reg[s] = 0

\* A pending SIGCHLD has been, or will be, reported for every signalfd in use.
Told ==
  /\ pending /\ signalfd # 0 =>
       signalfd \in ready \/ sigchld_token \in events \/ pc = "drain"
  /\ pc = "store" /\ pending => made \in ready

\* A child that ended, and is not polled soon, left SIGCHLD pending.
Noted ==
  \A c \in Children \ lost :
    child[c] = "zombie" => pending \/ pc = "drain" \/ (pc = "poll" /\ c \in todo)

Inv == TypeOK /\ Shape /\ Told /\ Noted

LEMMA InitInv == Init => Inv
<1> SUFFICES ASSUME Init PROVE Inv
  OBVIOUS
<1>1. TypeOK
  <2>1. child \in [Children -> {"unborn", "running", "zombie", "reaped"}]
    BY DEF Init
  <2>2. reg \in [Fds -> Nat] /\ ready \subseteq Registered
    BY DEF Init
  <2>3. made \in 0..MaxSetups /\ open \subseteq 1..made /\ signalfd \in open \cup {0}
    BY DEF Init
  <2>4. lost = {} /\ todo = {} /\ events = {} /\ pc = "loop"
    BY DEF Init
  <2>5. sigchld_token \in Nat /\ next_token \in Nat \ {0}
    BY DEF Init
  <2>6. blocked \in BOOLEAN /\ pending \in BOOLEAN
    BY Zenon DEF Init
  <2> QED
    BY <2>1, <2>2, <2>3, <2>4, <2>5, <2>6 DEF TypeOK
<1>2. Shape /\ Told /\ Noted
  BY DEF Init, Shape, Told, Noted, Fds
<1> QED
  BY <1>1, <1>2 DEF Inv

LEMMA NextInv == Inv /\ [Next]_vars => Inv'
<1> SUFFICES ASSUME Inv, [Next]_vars PROVE Inv'
  OBVIOUS
<1> USE DEF Inv, Shape, Fds, Registered
<1>1. ASSUME NEW c \in Children, Start(c) PROVE Inv'
  BY <1>1 DEF Start, TypeOK, Told, Noted, kernel, fds, fields, caller
<1>2. ASSUME NEW c \in Children, Ends(c) PROVE Inv'
  BY <1>2 DEF Ends, TypeOK, Told, Noted, fds, fields, caller
<1>3. CASE BlockSigchld
  BY <1>3 DEF BlockSigchld, TypeOK, Told, Noted, children, kernel, fds, fields
<1>4. CASE MakeSignalfd
  BY <1>4 DEF MakeSignalfd, TypeOK, Told, Noted, children, kernel, fields
<1>5. CASE MakeFails
  BY <1>5 DEF MakeFails, TypeOK, Told, Noted, children, kernel, fields
<1>6. CASE AddSignalfd
  BY <1>6 DEF AddSignalfd, TypeOK, Told, Noted, children
<1>7. CASE AddFails
  BY <1>7 DEF AddFails, TypeOK, Told, Noted, children, kernel
<1>8. CASE Store
  BY <1>8 DEF Store, TypeOK, Told, Noted, children
<1>9. CASE Renew
  BY <1>9 DEF Renew, TypeOK, Told, Noted, children, caller
<1>10. CASE Wait
  BY <1>10 DEF Wait, TypeOK, Told, Noted, children, fds, fields
<1>11. CASE Dispatch
  BY <1>11 DEF Dispatch, TypeOK, Told, Noted, children, kernel, fds, fields
<1>12. CASE Drain
  BY <1>12 DEF Drain, TypeOK, Told, Noted, children, fds, fields
<1>13. ASSUME NEW c \in Children, Poll(c) PROVE Inv'
  BY <1>13 DEF Poll, TypeOK, Told, Noted, kernel, fds, fields
<1>14. CASE EndPoll
  BY <1>14 DEF EndPoll, TypeOK, Told, Noted, children, kernel, fds, fields
<1>15. CASE BlockFails
  BY <1>15 DEF BlockFails, TypeOK, Told, Noted, children, kernel, fields, caller
<1>16. CASE UNCHANGED vars
  BY <1>16 DEF vars, TypeOK, Told, Noted, children, kernel, fds, fields, caller
<1> QED
  BY <1>1, <1>2, <1>3, <1>4, <1>5, <1>6, <1>7, <1>8, <1>9, <1>10, <1>11, <1>12,
     <1>13, <1>14, <1>15, <1>16 DEF Next, Setup, Round

LEMMA AlwaysInv == Spec => []Inv
BY InitInv, NextInv, PTL DEF Spec

-----------------------------------------------------------------------------

\* The type invariant holds for any number of children and setups.
THEOREM TypeCorrect == Spec => []TypeOK
BY AlwaysInv, PTL DEF Inv

\* However setups fail and are repeated, one signalfd is open at most and its
\* token is the one the program compares with.
THEOREM NoSecondSignalfd == Spec => []OneSignalfd
<1>1. Inv => OneSignalfd
  BY DEF Inv, Shape, OneSignalfd
<1> QED
  BY <1>1, AlwaysInv, PTL

\* No child that ended while SIGCHLD was blocked is forgotten by a program with a
\* signalfd, although many ends may be one signal.
THEOREM ExitsSeen == Spec => []NoExitUnseen
<1>1. Inv => NoExitUnseen
  BY DEF Inv, Told, Noted, NoExitUnseen
<1> QED
  BY <1>1, AlwaysInv, PTL
=============================================================================
