-------------------------- MODULE SpawnSetupProofs --------------------------
(* Theorems about SpawnSetup, for every limit on descriptors and any number *)
(* of descriptors of other threads.                                         *)
EXTENDS SpawnSetup, FiniteSetTheorems, TLAPS

-----------------------------------------------------------------------------
(* Numbers and files.                                                       *)

\* A set of numbers has a least element: the one whose interval from 0 contains
\* that of no other.
LEMMA LeastNumber ==
  ASSUME NEW S \in SUBSET Nat, S # {}
  PROVE  Min(S) \in S /\ \A n \in S : Min(S) <= n
<1> DEFINE T == {0..n : n \in S}
<1>1. T \subseteq FiniteSubsetsOf(Nat) /\ T # {}
  <2>1. ASSUME NEW n \in S PROVE 0..n \in FiniteSubsetsOf(Nat)
    BY FS_Interval, 0 \in Int, n \in Int DEF FiniteSubsetsOf
  <2> QED
    BY <2>1
<1>2. PICK x \in T : \A y \in T : <<y, x>> \notin StrictSubsetOrdering(Nat)
  <2>1. IsWellFoundedOn(StrictSubsetOrdering(Nat), FiniteSubsetsOf(Nat))
    BY FS_StrictSubsetOrderingWellFounded
  <2> HIDE DEF T
  <2> QED
    BY <1>1, <2>1, WFMin
<1>3. PICK m \in S : x = 0..m
  BY <1>2
<1>4. ASSUME NEW n \in S PROVE m <= n
  <2>1. <<0..n, 0..m>> \notin StrictSubsetOrdering(Nat)
    BY <1>2, <1>3
  <2>2. ~(0..n \subseteq 0..m /\ 0..n # 0..m)
    BY <2>1 DEF StrictSubsetOrdering
  <2>3. CASE n < m
    <3>1. 0..n \subseteq 0..m /\ m \in 0..m /\ m \notin 0..n
      BY <2>3
    <3> QED
      BY <2>2, <3>1
  <2> QED
    BY <2>3
<1> QED
  BY <1>4 DEF Min

LEMMA LowestIsFree == FreeFds # {} => Lowest \in FreeFds
<1>1. FreeFds \subseteq Nat
  BY FdAssumption DEF FreeFds, Fds
<1> QED
  BY <1>1, LeastNumber DEF Lowest

\* A pipe end is none of the other files.
LEMMA EndsAreNoOther ==
  ASSUME NEW e \in Ends
  PROVE  e # Free /\ e # Dir /\ e # Other /\ \A n \in 0..2 : e # Std(n)
BY DEF Ends, Streams, Free, Dir, Other, Std

-----------------------------------------------------------------------------
(* The parent's table and Pipes.                                            *)

\* Pipes and the table agree: what Pipes holds is open, and a pipe end that is
\* open is held.
Owned ==
  /\ table \in [Fds -> File] /\ cloexec \subseteq Fds
  /\ ends \in [Ends -> Fds \cup {NoFd}]
  /\ \A e \in Ends : ends[e] # NoFd => table[ends[e]] = e
  /\ \A n \in Fds, e \in Ends : table[n] = e => ends[e] = n

\* Pipes has both ends of a pipe until the thread drops the child's, and has the
\* pipes that are wanted from the end of Pipes::new on.
Paired ==
  /\ pc = "err" => \A e \in Ends : ends[e] = NoFd
  /\ pc \in {"new", "ok"} => \A s \in Streams :
       ends[ChildEnd(s)] = NoFd /\ (ends[ParentEnd(s)] # NoFd <=> s \in want)
  /\ pc \notin {"err", "new", "ok"} => \A s \in Streams :
       /\ ends[ChildEnd(s)] # NoFd <=> ends[ParentEnd(s)] # NoFd
       /\ ends[ChildEnd(s)] # NoFd => s \in want
  /\ pc \notin {"pipes", "err", "new", "ok"} => Missing = {}

LEMMA EndsOfStreams ==
  ASSUME NEW s \in Streams
  PROVE  /\ ChildEnd(s) \in Ends /\ ParentEnd(s) \in Ends
         /\ ChildEnd(s) # ParentEnd(s)
         /\ {ChildEnd(s), ParentEnd(s)} = {<<s, "r">>, <<s, "w">>}
         /\ \A t \in Streams : ChildEnd(t) # ParentEnd(s)
BY DEF ChildEnd, ParentEnd, Ends, Streams

LEMMA NoFdIsNone == NoFd \notin Fds
BY FdAssumption DEF NoFd, Fds

\* Closing some of the ends.
LEMMA CloseKeepsOwned ==
  ASSUME Owned, NEW E \in SUBSET Ends, Close(E)
  PROVE  /\ Owned'
         /\ \A e \in Ends : ends'[e] = IF e \in E THEN NoFd ELSE ends[e]
<1>1. /\ table' \in [Fds -> File] /\ cloexec' \subseteq Fds
      /\ ends' \in [Ends -> Fds \cup {NoFd}]
      /\ \A e \in Ends : ends'[e] = IF e \in E THEN NoFd ELSE ends[e]
  BY DEF Owned, Close, File
<1>2. ASSUME NEW e \in Ends, ends'[e] # NoFd
      PROVE  table'[ends'[e]] = e
  <2>1. e \notin E /\ ends'[e] = ends[e] /\ ends[e] \in Fds /\ table[ends[e]] = e
    BY <1>1, <1>2 DEF Owned
  <2>2. ends[e] \notin {ends[d] : d \in E}
    BY <2>1, NoFdIsNone DEF Owned
  <2> QED
    BY <2>1, <2>2 DEF Close
<1>3. ASSUME NEW n \in Fds, NEW e \in Ends, table'[n] = e
      PROVE  ends'[e] = n
  <2>1. n \notin {ends[d] : d \in E} /\ table[n] = e
    BY <1>3, EndsAreNoOther DEF Close
  <2> QED
    BY <1>1, <2>1 DEF Owned
<1> QED
  BY <1>1, <1>2, <1>3 DEF Owned

LEMMA FailKeepsOwned ==
  ASSUME Owned, Fail
  PROVE  Owned' /\ pc' = "err" /\ \A e \in Ends : ends'[e] = NoFd
BY CloseKeepsOwned DEF Fail

\* A number that is no pipe end's is taken or given back.
LEMMA OtherFileKeepsOwned ==
  ASSUME Owned, NEW N \in SUBSET Fds, NEW x \in {Free, Dir, Other},
         \A n \in N : table[n] \notin Ends,
         table' = [n \in Fds |-> IF n \in N THEN x ELSE table[n]],
         cloexec' \subseteq Fds, ends' = ends
  PROVE  Owned'
<1>1. table' \in [Fds -> File]
  BY DEF Owned, File
<1>2. ASSUME NEW e \in Ends, ends[e] # NoFd PROVE table'[ends[e]] = e
  BY <1>2 DEF Owned
<1>3. ASSUME NEW n \in Fds, NEW e \in Ends, table'[n] = e PROVE ends[e] = n
  BY <1>3, EndsAreNoOther DEF Owned
<1> QED
  BY <1>1, <1>2, <1>3 DEF Owned

LEMMA NextStreamIsMissing ==
  ASSUME want \subseteq Streams, Missing # {}
  PROVE  NextStream \in Missing /\ NextStream \in want
<1>1. Missing \subseteq Streams /\ Missing \subseteq want
  BY DEF Missing
<1>2. Target["stdin"] = 0 /\ Target["stdout"] = 1 /\ Target["stderr"] = 2
  BY DEF Target
<1>3. \E s \in Missing : \A t \in Missing : Target[s] <= Target[t]
  <2>1. CASE "stdin" \in Missing
    BY <1>1, <1>2, <2>1 DEF Streams
  <2>2. CASE "stdin" \notin Missing /\ "stdout" \in Missing
    BY <1>1, <1>2, <2>2 DEF Streams
  <2>3. CASE Missing = {"stderr"}
    BY <1>2, <2>3
  <2> QED
    BY <1>1, <2>1, <2>2, <2>3 DEF Streams
<1> QED
  BY <1>1, <1>3 DEF NextStream

LEMMA TwoFree ==
  ASSUME MakePipe
  PROVE  /\ Lowest \in FreeFds
         /\ Min(FreeFds \ {Lowest}) \in FreeFds
         /\ Min(FreeFds \ {Lowest}) # Lowest
<1> DEFINE r == Lowest
<1>1. FreeFds \subseteq Nat /\ FreeFds \subseteq Fds /\ IsFiniteSet(FreeFds)
  <2>1. 0 \in Int /\ MaxFd \in Int
    BY FdAssumption
  <2>2. IsFiniteSet(Fds)
    BY <2>1, FS_Interval DEF Fds
  <2>3. FreeFds \subseteq Fds /\ Fds \subseteq Nat
    BY FdAssumption DEF FreeFds, Fds
  <2> QED
    BY <2>2, <2>3, FS_Subset
<1>2. r \in FreeFds
  BY <1>1, LowestIsFree, FS_EmptySet DEF MakePipe
<1>3. FreeFds \ {r} # {}
  BY <1>1, <1>2, FS_Singleton DEF MakePipe
<1> QED
  BY <1>1, <1>2, <1>3, LeastNumber

\* A pipe takes two free numbers.
LEMMA MakePipeKeeps ==
  ASSUME want \subseteq Streams, Owned, Paired, MakePipe
  PROVE  Owned' /\ Paired'
<1> DEFINE p == NextStream
           r == Lowest
           w == Min(FreeFds \ {r})
<1>1. p \in Missing /\ p \in want /\ p \in Streams
  BY NextStreamIsMissing DEF MakePipe
<1>2. r \in FreeFds
  BY TwoFree
<1>3. w \in FreeFds /\ w # r
  BY TwoFree
<1> HIDE DEF p, r, w
<1>4. /\ table' = [table EXCEPT ![r] = <<p, "r">>, ![w] = <<p, "w">>]
      /\ cloexec' = cloexec \cup {r, w}
      /\ ends' = [ends EXCEPT ![<<p, "r">>] = r, ![<<p, "w">>] = w]
      /\ pc = "pipes" /\ UNCHANGED <<want, pc>>
  BY DEF MakePipe, config, p, r, w
<1>5. r \in Fds /\ w \in Fds /\ table[r] = Free /\ table[w] = Free
  BY <1>2, <1>3 DEF FreeFds
<1>6. /\ <<p, "r">> \in Ends /\ <<p, "w">> \in Ends
      /\ ends[<<p, "r">>] = NoFd /\ ends[<<p, "w">>] = NoFd
  <2>1. ends[ChildEnd(p)] = NoFd /\ ends[ParentEnd(p)] = NoFd
    BY <1>1, <1>4 DEF Missing, Paired
  <2> QED
    BY <1>1, <2>1 DEF ChildEnd, ParentEnd, Ends
<1>7. /\ table' \in [Fds -> File] /\ cloexec' \subseteq Fds
      /\ ends' \in [Ends -> Fds \cup {NoFd}]
  BY <1>4, <1>5, <1>6 DEF Owned, File
<1>8. ASSUME NEW e \in Ends, ends'[e] # NoFd PROVE table'[ends'[e]] = e
  <2>1. CASE e \in {<<p, "r">>, <<p, "w">>}
    BY <1>3, <1>4, <1>5, <1>6, <2>1 DEF Owned
  <2>2. CASE e \notin {<<p, "r">>, <<p, "w">>}
    <3>1. ends'[e] = ends[e] /\ ends[e] \in Fds /\ table[ends[e]] = e
      BY <1>4, <1>8, <2>2 DEF Owned
    <3>2. ends[e] # r /\ ends[e] # w
      BY <1>5, <3>1, EndsAreNoOther
    <3> QED
      BY <1>4, <3>1, <3>2 DEF Owned
  <2> QED
    BY <2>1, <2>2
<1>9. ASSUME NEW n \in Fds, NEW e \in Ends, table'[n] = e PROVE ends'[e] = n
  <2>1. CASE n = r \/ n = w
    BY <1>3, <1>4, <1>5, <1>6, <1>9, <2>1 DEF Owned
  <2>2. CASE n # r /\ n # w
    <3>1. table[n] = e /\ ends[e] = n
      BY <1>4, <1>9, <2>2 DEF Owned
    <3> QED
      BY <1>4, <1>6, <3>1, NoFdIsNone DEF Owned
  <2> QED
    BY <2>1, <2>2
<1>10. Paired'
  <2>1. ASSUME NEW s \in Streams
        PROVE  /\ ends'[ChildEnd(s)] # NoFd <=> ends'[ParentEnd(s)] # NoFd
               /\ ends'[ChildEnd(s)] # NoFd => s \in want
    <3>1. CASE s = p
      BY <1>1, <1>4, <1>5, <1>6, <3>1, NoFdIsNone
         DEF ChildEnd, ParentEnd, Owned
    <3>2. CASE s # p
      <4>1. ends'[ChildEnd(s)] = ends[ChildEnd(s)]
            /\ ends'[ParentEnd(s)] = ends[ParentEnd(s)]
        BY <1>4, <3>2, EndsOfStreams DEF ChildEnd, ParentEnd, Owned
      <4> QED
        BY <1>4, <4>1 DEF Paired
    <3> QED
      BY <3>1, <3>2
  <2> QED
    BY <1>4, <2>1 DEF Paired
<1> QED
  BY <1>7, <1>8, <1>9, <1>10 DEF Owned

-----------------------------------------------------------------------------
(* What the child is told to do.                                            *)

Action == [op : {"dup2", "close", "range"}, fd : Fds, to : {NoFd} \cup 0..2]

LEMMA InOrderType ==
  ASSUME NEW A, NEW block, \A s \in want : block[s] \in Seq(A)
  PROVE  InOrder(block) \in Seq(A)
BY DEF InOrder

\* Every action is about a number of Pipes.
LEMMA BlocksType ==
  ASSUME want \subseteq Streams, Owned, Paired, pc = "pipes", Missing = {}
  PROVE  /\ InOrder([s \in want |-> Connect(s)]) \in Seq(Action)
         /\ InOrder([s \in want |-> CloseBoth(s)]) \in Seq(Action)
         /\ InOrder([s \in want |-> ConnectAndClose(s)]) \in Seq(Action)
<1>1. ASSUME NEW s \in want
      PROVE  ends[ChildEnd(s)] \in Fds /\ ends[ParentEnd(s)] \in Fds
  <2>1. ends[ChildEnd(s)] # NoFd /\ ends[ParentEnd(s)] # NoFd
    BY DEF Missing, Paired
  <2> QED
    BY <2>1, EndsOfStreams DEF Owned
<1>2. ASSUME NEW s \in want
      PROVE  /\ Connect(s) \in Seq(Action) /\ CloseBoth(s) \in Seq(Action)
             /\ ConnectAndClose(s) \in Seq(Action)
  <2>1. Target[s] \in 0..2
    BY DEF Target, Streams
  <2>2. Dup2(ends[ChildEnd(s)], Target[s]) \in Action
    BY <1>1, <2>1 DEF Dup2, Action
  <2>3. CloseFd(ends[ChildEnd(s)]) \in Action /\ CloseFd(ends[ParentEnd(s)]) \in Action
    BY <1>1 DEF CloseFd, Action
  <2>4. Connect(s) \in Seq(Action) /\ CloseBoth(s) \in Seq(Action)
    BY <2>2, <2>3 DEF Connect, CloseBoth
  <2> QED
    BY <2>4 DEF ConnectAndClose
<1> QED
  BY <1>2, InOrderType

-----------------------------------------------------------------------------
(* The invariant.                                                           *)

Sound == TypeOK /\ Owned /\ Paired

LEMMA SoundInit == Init => Sound
<1> SUFFICES ASSUME Init PROVE Sound
  OBVIOUS
<1>1. table \in [Fds -> File] /\ \A n \in Fds : table[n] \notin Ends
  <2>1. std \subseteq 0..2
    BY FdAssumption DEF Init
  <2>2. ASSUME NEW n \in Fds PROVE table[n] \in File /\ table[n] \notin Ends
    BY <2>1, EndsAreNoOther DEF Init, File
  <2> QED
    BY <2>2 DEF Init
<1>2. Owned
  BY <1>1 DEF Init, Owned
<1>3. Paired
  BY EndsOfStreams DEF Init, Paired
<1>4. TypeOK
  <2>1. scan \in 0..(MaxFd + 1) /\ actions \in Seq(Action)
    BY FdAssumption DEF Init
  <2>2. child \in [Fds -> File] /\ ccloexec \subseteq Fds
    BY <1>1 DEF Init
  <2> QED
    BY <1>2, <2>1, <2>2 DEF Init, TypeOK, Owned, Action
<1> QED
  BY <1>2, <1>3, <1>4 DEF Sound

\* The child does what is next, to its own table.
LEMMA ChildStep ==
  ASSUME Sound, Child
  PROVE  Sound'
<1>1. UNCHANGED <<config, pc, table, cloexec, ends, scan>>
  BY DEF Child, ChildDup2, ChildClose, ChildCloseRange, ChildExec, ChildFails,
         Doing
<1>2. Owned' /\ Paired'
  BY <1>1 DEF Sound, Owned, Paired, Missing, config
<1>3. ASSUME actions # <<>>
      PROVE  Now \in Action /\ Tail(actions) \in Seq(Action)
  <2>1. actions \in Seq(Action)
    BY DEF Sound, TypeOK, Action
  <2> QED
    BY <1>3, <2>1 DEF Now
<1>4. actions' \in Seq(Action)
  BY <1>3 DEF Child, ChildDup2, ChildClose, ChildCloseRange, ChildExec,
              ChildFails, Doing, Sound, TypeOK, Action
<1>5. /\ child' \in [Fds -> File] /\ ccloexec' \subseteq Fds
      /\ cpc' \in {"none", "setup", "running", "dead"} /\ leaky' \in BOOLEAN
  <2> USE DEF Sound, TypeOK
  <2>1. CASE ChildDup2
    <3>1. child[Now.fd] \in File
      BY <1>3, <2>1 DEF ChildDup2, Doing, Action
    <3> QED
      BY <2>1, <3>1 DEF ChildDup2
  <2>2. CASE ChildClose
    BY <2>2 DEF ChildClose, File
  <2>3. CASE ChildCloseRange
    BY <2>3 DEF ChildCloseRange, File
  <2>4. CASE ChildExec
    BY <2>4 DEF ChildExec, File
  <2>5. CASE ChildFails
    BY <2>5 DEF ChildFails
  <2> QED
    BY <2>1, <2>2, <2>3, <2>4, <2>5 DEF Child
<1> QED
  BY <1>1, <1>2, <1>4, <1>5 DEF Sound, TypeOK, Action, config

\* Whoever fails lets go of every pipe.
LEMMA FailStep ==
  ASSUME Sound, Fail, UNCHANGED <<config, actions, scan, kid, leaky>>
  PROVE  Sound'
<1>1. Owned' /\ pc' = "err" /\ \A e \in Ends : ends'[e] = NoFd
  BY FailKeepsOwned DEF Sound
<1>2. Paired'
  BY <1>1 DEF Paired
<1> QED
  BY <1>1, <1>2 DEF Sound, TypeOK, Owned, config, kid

\* A step that leaves the table and Pipes alone.
LEMMA QuietStep ==
  ASSUME Sound, UNCHANGED <<config, table, cloexec, ends>>,
         pc' = pc \/ (pc \in {"list", "scan", "spawn", "vfork"} /\
                      pc' \in {"list", "scan", "spawn", "vfork", "drop"})
  PROVE  Owned' /\ Paired'
BY DEF Sound, Owned, Paired, Missing, config

LEMMA SoundStep == Sound /\ [Next]_vars => Sound'
<1> SUFFICES ASSUME Sound, [Next]_vars PROVE Sound'
  OBVIOUS
<1>0. want \subseteq Streams
  BY DEF Sound, TypeOK
<1>1. CASE MakePipe
  <2>1. Owned' /\ Paired'
    BY <1>0, <1>1, MakePipeKeeps DEF Sound
  <2> QED
    BY <1>1, <2>1 DEF MakePipe, Sound, TypeOK, Owned, config, kid
<1>2. CASE \/ MakePipeFails \/ PrepareFails \/ ForkFails \/ SpawnFails
           \/ NewDrainFails
  BY <1>2, FailStep
     DEF MakePipeFails, PrepareFails, ForkFails, SpawnFails, NewDrainFails
<1>3. CASE AddFileActions
  <2>1. Owned' /\ Paired'
    BY <1>3 DEF AddFileActions, Sound, Owned, Paired, Missing, config
  <2>2. actions' \in Seq(Action)
    BY <1>0, <1>3, BlocksType DEF AddFileActions, Sound
  <2> QED
    BY <1>3, <2>1, <2>2 DEF AddFileActions, Sound, TypeOK, Action, config, kid
<1>4. CASE Fork
  <2>1. Owned' /\ Paired'
    BY <1>4 DEF Fork, Sound, Owned, Paired, Missing, config
  <2>2. actions' \in Seq(Action)
    <3>1. CloseRange \in Action
      BY FdAssumption DEF CloseRange, Action, Fds
    <3>2. <<CloseRange>> \in Seq(Action)
      BY <3>1
    <3> QED
      BY <1>0, <1>4, <3>2, BlocksType DEF Fork, Sound
  <2> QED
    BY <1>4, <2>1, <2>2
       DEF Fork, NewChild, Sound, TypeOK, Action, config
<1>5. CASE OpenDir
  <2>1. Lowest \in Fds /\ table[Lowest] = Free
    BY <1>5, LowestIsFree DEF OpenDir, FreeFds
  <2>2. table' = [n \in Fds |-> IF n \in {Lowest} THEN Dir ELSE table[n]]
    BY <1>5, <2>1 DEF OpenDir, Sound, Owned
  <2>3. Owned'
    BY <1>5, <2>1, <2>2, EndsAreNoOther, OtherFileKeepsOwned
       DEF OpenDir, Sound, Owned
  <2>4. Paired'
    BY <1>5 DEF OpenDir, Sound, Paired, Missing, config
  <2> QED
    BY <1>5, <2>3, <2>4, FdAssumption
       DEF OpenDir, Sound, TypeOK, Owned, config, kid
<1>6. CASE CloseDir
  <2>1. Owned'
    <3>1. /\ DirFd \in SUBSET Fds /\ \A n \in DirFd : table[n] \notin Ends
          /\ cloexec' \subseteq Fds
      BY <1>6, EndsAreNoOther DEF CloseDir, DirFd, Sound, Owned
    <3> QED
      BY <1>6, <3>1, OtherFileKeepsOwned DEF CloseDir, Sound
  <2>2. Paired'
    BY <1>6 DEF CloseDir, Sound, Paired, Missing, config
  <2> QED
    BY <1>6, <2>1, <2>2 DEF CloseDir, Sound, TypeOK, Owned, config, kid
<1>7. CASE OpenDirFails \/ SpawnReturns
  BY <1>7, QuietStep
     DEF OpenDirFails, SpawnReturns, Sound, TypeOK, config, kid
<1>8. CASE ScanEntry
  <2>1. actions' \in Seq(Action)
    <3>1. CloseFd(scan) \in Action
      BY <1>8 DEF ScanEntry, CloseFd, Action
    <3>2. actions \in Seq(Action)
      BY DEF Sound, TypeOK, Action
    <3>3. actions' = actions \/ actions' = Append(actions, CloseFd(scan))
      BY <1>8 DEF ScanEntry
    <3> QED
      BY <3>1, <3>2, <3>3
  <2>2. scan' \in 0..(MaxFd + 1) /\ leaky' \in BOOLEAN
    <3>1. scan \in 0..MaxFd /\ scan' = scan + 1
      BY <1>8 DEF ScanEntry, Fds
    <3>2. scan' \in 0..(MaxFd + 1)
      BY <3>1, FdAssumption
    <3>3. leaky' = leaky \/ leaky' = TRUE
      BY <1>8 DEF ScanEntry
    <3> QED
      BY <3>2, <3>3 DEF Sound, TypeOK
  <2>3. Owned' /\ Paired'
    BY <1>8, QuietStep DEF ScanEntry
  <2> QED
    BY <1>8, <2>1, <2>2, <2>3
       DEF ScanEntry, Sound, TypeOK, Action, config, kid
<1>9. CASE PosixSpawn
  <2>1. Owned' /\ Paired'
    BY <1>9, QuietStep DEF PosixSpawn
  <2> QED
    BY <1>9, <2>1 DEF PosixSpawn, NewChild, Sound, TypeOK, config
<1>10. CASE DropChildEnds
  <2> DEFINE E == {ChildEnd(s) : s \in Streams}
  <2>1. E \subseteq Ends
    BY EndsOfStreams
  <2>2. /\ Owned'
        /\ \A e \in Ends : ends'[e] = IF e \in E THEN NoFd ELSE ends[e]
    BY <1>10, <2>1, CloseKeepsOwned DEF DropChildEnds, Sound
  <2>3. ASSUME NEW s \in Streams
        PROVE  /\ ends'[ChildEnd(s)] = NoFd
               /\ ends'[ParentEnd(s)] # NoFd <=> s \in want
    <3>1. ParentEnd(s) \notin E
      BY EndsOfStreams
    <3>2. ends[ParentEnd(s)] # NoFd <=> s \in want
      BY <1>10, EndsOfStreams DEF DropChildEnds, Sound, Paired, Missing
    <3> QED
      BY <2>2, <3>1, <3>2, EndsOfStreams
  <2>4. Paired'
    BY <1>10, <2>3 DEF DropChildEnds, Paired, config
  <2> QED
    BY <1>10, <2>2, <2>4 DEF DropChildEnds, Sound, TypeOK, Owned, config, kid
<1>11. CASE NewDrain
  BY <1>11 DEF NewDrain, Sound, TypeOK, Owned, Paired, config, kid
<1>12. CASE Child
  BY <1>12, ChildStep
<1>13. CASE OtherOpens
  <2>1. Lowest \in Fds /\ table[Lowest] = Free
    BY <1>13, LowestIsFree DEF OtherOpens, FreeFds
  <2>2. table' = [n \in Fds |-> IF n \in {Lowest} THEN Other ELSE table[n]]
    BY <1>13, <2>1 DEF OtherOpens, Sound, Owned
  <2>3. Owned'
    <3> DEFINE N == {Lowest}
    <3>1. N \in SUBSET Fds /\ \A m \in N : table[m] \notin Ends
      BY <2>1, EndsAreNoOther
    <3>2. cloexec' \subseteq Fds /\ ends' = ends
      BY <1>13, <2>1 DEF OtherOpens, others, Sound, Owned
    <3>3. table' = [m \in Fds |-> IF m \in N THEN Other ELSE table[m]]
      BY <2>2
    <3> HIDE DEF N
    <3> QED
      BY <3>1, <3>2, <3>3, OtherFileKeepsOwned DEF Sound
  <2> QED
    BY <1>13, <2>3 DEF OtherOpens, others, Sound, TypeOK, Owned, Paired,
                       Missing, config, kid
<1>14. CASE OtherCloses
  <2>1. PICK n \in Fds : /\ table[n] = Other
                         /\ table' = [table EXCEPT ![n] = Free]
                         /\ cloexec' = cloexec \ {n}
    BY <1>14 DEF OtherCloses
  <2>2. table' = [m \in Fds |-> IF m \in {n} THEN Free ELSE table[m]]
    BY <2>1 DEF Sound, Owned
  <2>3. Owned'
    <3> DEFINE N == {n}
    <3>1. N \in SUBSET Fds /\ \A m \in N : table[m] \notin Ends
      BY <2>1, EndsAreNoOther
    <3>2. cloexec' \subseteq Fds /\ ends' = ends
      BY <1>14, <2>1 DEF OtherCloses, others, Sound, Owned
    <3>3. table' = [m \in Fds |-> IF m \in N THEN Free ELSE table[m]]
      BY <2>2
    <3> HIDE DEF N
    <3> QED
      BY <3>1, <3>2, <3>3, OtherFileKeepsOwned DEF Sound
  <2> QED
    BY <1>14, <2>3 DEF OtherCloses, others, Sound, TypeOK, Owned, Paired,
                       Missing, config, kid
<1>15. CASE UNCHANGED vars
  BY <1>15 DEF vars, Sound, TypeOK, Owned, Paired, Missing, config, kid
<1> QED
  BY <1>1, <1>2, <1>3, <1>4, <1>5, <1>6, <1>7, <1>8, <1>9, <1>10, <1>11,
     <1>12, <1>13, <1>14, <1>15 DEF Next, Parent

-----------------------------------------------------------------------------

\* Whatever fails and whatever other threads do, each number that Pipes holds
\* names the pipe end it was made for, so that nothing is closed twice.
THEOREM TypeCorrect == Spec => []TypeOK
<1>1. Sound => TypeOK
  BY DEF Sound
<1> QED
  BY <1>1, SoundInit, SoundStep, PTL DEF Spec

\* A call that returns leaves the parent with its own ends of the pipes that were
\* asked for, and one that fails with none: no descriptor leaks on an error path.
THEOREM ParentEndsOnly == Spec => []ParentKeepsItsEnds
<1>1. Sound => ParentKeepsItsEnds
  <2> SUFFICES ASSUME Sound PROVE ParentKeepsItsEnds
    OBVIOUS
  <2> DEFINE held == {e \in Ends : \E n \in Fds : table[n] = e}
  <2>1. \A e \in Ends : e \in held <=> ends[e] # NoFd
    BY NoFdIsNone DEF Sound, Owned
  <2>2. ASSUME pc = "ok" PROVE held = {ParentEnd(s) : s \in want}
    <3>1. want \subseteq Streams
      BY DEF Sound, TypeOK
    <3>2. \A e \in Ends : \E s \in Streams : e = ChildEnd(s) \/ e = ParentEnd(s)
      BY DEF Ends, ChildEnd, ParentEnd, Streams
    <3>3. \A s \in Streams : ChildEnd(s) \notin held
                             /\ (ParentEnd(s) \in held <=> s \in want)
      BY <2>1, <2>2, EndsOfStreams DEF Sound, Paired
    <3> HIDE DEF held
    <3>4. held \subseteq Ends
      BY DEF held
    <3> QED
      BY <3>1, <3>2, <3>3, <3>4
  <2>3. ASSUME pc = "err" PROVE held = {}
    BY <2>1, <2>3 DEF Sound, Paired
  <2> QED
    BY <2>2, <2>3 DEF ParentKeepsItsEnds
<1> QED
  BY <1>1, SoundInit, SoundStep, PTL DEF Spec

-----------------------------------------------------------------------------
(* What the child inherits beside 0, 1 and 2.                               *)

Above2 == {n \in Fds : n > 2}

\* An action of a that closes n.
ClosedBy(a, n) ==
  \E i \in 1..Len(a) : a[i].op = "range" \/ (a[i].op = "close" /\ a[i].fd = n)

\* Only files of other threads can lack FD_CLOEXEC, and those that are not listed
\* any more are about to be closed in the child.
Listed ==
  /\ pc \in {"pipes", "list", "scan", "spawn"} => cpc = "none"
  /\ \A n \in Above2 : table[n] \notin {Free, Other} => n \in cloexec
  /\ ~leaky /\ pc \in {"scan", "spawn"} =>
       \A n \in Above2 : table[n] = Other /\ (pc = "scan" => n < scan) =>
         n \in cloexec \/ ClosedBy(actions, n)
  /\ ~leaky /\ cpc = "setup" =>
       \A n \in Above2 : child[n] # Free =>
         n \in ccloexec \/ ClosedBy(actions, n)
  /\ OnlyStdio

LEMMA DistinctFiles == Free # Other /\ Free # Dir /\ Dir # Other
BY DEF Free, Other, Dir

\* What the next action does not close is left to the others.
LEMMA ClosedLater ==
  ASSUME NEW a \in Seq(Action), NEW n, a # <<>>, ClosedBy(a, n),
         Head(a).op # "range", ~(Head(a).op = "close" /\ Head(a).fd = n)
  PROVE  ClosedBy(Tail(a), n)
<1>1. PICK i \in 1..Len(a) :
        a[i].op = "range" \/ (a[i].op = "close" /\ a[i].fd = n)
  BY DEF ClosedBy
<1>2. i # 1 /\ i - 1 \in 1..Len(Tail(a)) /\ Tail(a)[i - 1] = a[i]
  BY <1>1
<1> QED
  BY <1>1, <1>2 DEF ClosedBy

LEMMA ClosedStays ==
  ASSUME NEW a \in Seq(Action), NEW b \in Action, NEW n, ClosedBy(a, n)
  PROVE  ClosedBy(Append(a, b), n)
<1>1. PICK i \in 1..Len(a) :
        a[i].op = "range" \/ (a[i].op = "close" /\ a[i].fd = n)
  BY DEF ClosedBy
<1>2. i \in 1..Len(Append(a, b)) /\ Append(a, b)[i] = a[i]
  BY <1>1
<1> QED
  BY <1>1, <1>2 DEF ClosedBy

LEMMA ClosedLast ==
  ASSUME NEW a \in Seq(Action), NEW b \in Action, NEW n,
         b.op = "range" \/ (b.op = "close" /\ b.fd = n)
  PROVE  ClosedBy(Append(a, b), n)
<1>1. /\ Len(a) + 1 \in 1..Len(Append(a, b))
      /\ Append(a, b)[Len(a) + 1] = b
  OBVIOUS
<1> QED
  BY <1>1 DEF ClosedBy

LEMMA ListedInit == Init => Listed
<1> SUFFICES ASSUME Init PROVE Listed
  OBVIOUS
<1>1. \A n \in Above2 : table[n] = Free
  <2>1. std \subseteq 0..2
    BY FdAssumption DEF Init
  <2>2. ASSUME NEW n \in Above2 PROVE n \in Fds /\ n \notin 0..2
    BY FdAssumption DEF Above2, Fds
  <2> QED
    BY <2>1, <2>2 DEF Init
<1> QED
  BY <1>1 DEF Init, Listed, OnlyStdio

\* The steps of the child.
LEMMA ListedChild ==
  ASSUME Sound, Listed, Child
  PROVE  Listed'
<1>1. /\ UNCHANGED <<config, pc, table, cloexec, ends, scan>>
      /\ leaky => leaky'
      /\ cpc = "setup"
      /\ cpc' = "setup" => actions # <<>> /\ actions' = Tail(actions)
  BY DEF Child, ChildDup2, ChildClose, ChildCloseRange, ChildExec, ChildFails,
         Doing
<1>2. pc \notin {"pipes", "list", "scan", "spawn"}
  BY <1>1 DEF Listed
<1>3. actions \in Seq(Action) /\ (actions # <<>> => Now \in Action)
  <2>1. actions \in Seq(Action)
    BY DEF Sound, TypeOK, Action
  <2> QED
    BY <2>1 DEF Now
<1>4. ASSUME ~leaky', cpc' = "setup", NEW n \in Above2, child'[n] # Free
      PROVE  n \in ccloexec' \/ ClosedBy(actions', n)
  <2>1. n \in Fds /\ n \notin 0..2 /\ n # NoFd
    BY NoFdIsNone, FdAssumption DEF Above2, Fds
  <2>2. CASE ChildDup2
    <3>1. Now.to # n /\ Now.op = "dup2"
      BY <1>1, <1>3, <1>4, <2>1, <2>2 DEF Action, ChildDup2, Doing
    <3>2. child[n] # Free /\ (n \in ccloexec => n \in ccloexec')
      BY <1>4, <2>1, <2>2, <3>1 DEF ChildDup2, Sound, TypeOK
    <3>3. n \in ccloexec \/ ClosedBy(actions, n)
      BY <1>1, <1>4, <3>2 DEF Listed
    <3> QED
      BY <1>1, <1>3, <1>4, <3>1, <3>2, <3>3, ClosedLater DEF Now
  <2>3. CASE ChildClose
    <3>1. Now.fd # n /\ Now.op = "close"
      BY <1>4, <2>1, <2>3 DEF ChildClose, Doing, Sound, TypeOK
    <3>2. child[n] # Free /\ (n \in ccloexec => n \in ccloexec')
      BY <1>4, <2>1, <2>3, <3>1 DEF ChildClose, Sound, TypeOK
    <3>3. n \in ccloexec \/ ClosedBy(actions, n)
      BY <1>1, <1>4, <3>2 DEF Listed
    <3> QED
      BY <1>1, <1>3, <1>4, <3>1, <3>2, <3>3, ClosedLater DEF Now
  <2>4. CASE ChildCloseRange
    <3>1. n >= 3
      BY FdAssumption DEF Above2, Fds
    <3> QED
      BY <1>4, <2>1, <2>4, <3>1 DEF ChildCloseRange
  <2>5. CASE ChildExec \/ ChildFails
    BY <1>4, <2>5 DEF ChildExec, ChildFails
  <2> QED
    BY <2>2, <2>3, <2>4, <2>5 DEF Child
<1>5. OnlyStdio'
  <2>1. ASSUME cpc' = "running", ~leaky' PROVE ChildExec /\ actions = <<>>
    BY <1>1, <2>1 DEF Child, ChildDup2, ChildClose, ChildCloseRange, ChildExec,
                      ChildFails, Doing
  <2>2. ASSUME cpc' = "running", ~leaky', NEW n \in Fds, n > 2
        PROVE  child'[n] = Free
    <3>1. ~ClosedBy(actions, n)
      BY <2>1, <2>2 DEF ClosedBy
    <3>2. child[n] = Free \/ n \in ccloexec
      BY <1>1, <2>2, <3>1 DEF Listed, Above2
    <3> QED
      BY <2>1, <2>2, <3>2 DEF ChildExec
  <2> QED
    BY <2>2 DEF OnlyStdio
<1> QED
  BY <1>1, <1>2, <1>4, <1>5 DEF Listed

\* The calling thread closes some of its pipe ends and goes on behind the spawn.
LEMMA ListedClose ==
  ASSUME Sound, Listed, NEW E, Close(E), pc' \in {"new", "err"},
         UNCHANGED <<config, actions, scan, kid, leaky>>
  PROVE  Listed'
<1>1. ASSUME NEW n \in Above2, table'[n] \notin {Free, Other}
      PROVE  n \in cloexec'
  BY <1>1 DEF Close, Listed, Above2
<1> QED
  BY <1>1 DEF Listed, OnlyStdio, kid

LEMMA ListedStep == Sound /\ Listed /\ [Next]_vars => Listed'
<1> SUFFICES ASSUME Sound, Listed, [Next]_vars PROVE Listed'
  OBVIOUS
<1>0. /\ table \in [Fds -> File] /\ cloexec \subseteq Fds
      /\ Above2 \subseteq Fds /\ actions \in Seq(Action)
  BY DEF Sound, Owned, Above2, TypeOK, Action
<1>1. CASE MakePipe
  <2>1. cpc' = "none" /\ pc' = "pipes"
    BY <1>1 DEF MakePipe, Listed, kid
  <2>2. ASSUME NEW n \in Above2, table'[n] \notin {Free, Other}
        PROVE  n \in cloexec'
    BY <1>0, <1>1, <2>2 DEF MakePipe, Listed
  <2> QED
    BY <2>1, <2>2 DEF Listed, OnlyStdio
<1>2. CASE \/ MakePipeFails \/ PrepareFails \/ ForkFails \/ SpawnFails
           \/ NewDrainFails \/ DropChildEnds
  <2>1. /\ \E E : Close(E)
        /\ pc' \in {"new", "err"}
        /\ UNCHANGED <<config, actions, scan, kid, leaky>>
    BY <1>2 DEF MakePipeFails, PrepareFails, ForkFails, SpawnFails,
                NewDrainFails, DropChildEnds, Fail
  <2> QED
    BY <2>1, ListedClose
<1>3. CASE AddFileActions
  BY <1>3 DEF AddFileActions, Listed, OnlyStdio, kid
<1>4. CASE Fork
  <2>1. PICK x \in Seq(Action) : actions' = x \o <<CloseRange>>
    <3>1. /\ InOrder([s \in want |-> Connect(s)]) \in Seq(Action)
          /\ InOrder([s \in want |-> CloseBoth(s)]) \in Seq(Action)
      BY <1>4, BlocksType DEF Fork, Sound, TypeOK
    <3> DEFINE x == InOrder([s \in want |-> Connect(s)])
                      \o InOrder([s \in want |-> CloseBoth(s)])
    <3>2. x \in Seq(Action)
      BY <3>1
    <3>3. actions' = x \o <<CloseRange>>
      BY <1>4 DEF Fork
    <3> HIDE DEF x
    <3> QED
      BY <3>2, <3>3
  <2>2. CloseRange \in Action /\ CloseRange.op = "range"
    BY FdAssumption DEF CloseRange, Action, Fds
  <2>3. actions' = Append(x, CloseRange)
    BY <2>1, <2>2
  <2>4. \A n \in Above2 : ClosedBy(actions', n)
    BY <2>2, <2>3, ClosedLast
  <2> QED
    BY <1>4, <2>4 DEF Fork, NewChild, Listed, OnlyStdio
<1>5. CASE OpenDir
  <2>1. Lowest \in Fds
    BY <1>5, LowestIsFree DEF OpenDir, FreeFds
  <2>2. cpc' = "none" /\ pc' = "scan" /\ scan' = 0
    BY <1>5 DEF OpenDir, Listed, kid
  <2>3. ASSUME NEW n \in Above2, table'[n] \notin {Free, Other}
        PROVE  n \in cloexec'
    BY <1>0, <1>5, <2>1, <2>3 DEF OpenDir, Listed
  <2>4. \A n \in Above2 : ~(n < 0)
    BY DEF Above2, Fds
  <2> QED
    BY <2>2, <2>3, <2>4 DEF Listed, OnlyStdio
<1>6. CASE CloseDir
  <2>1. ASSUME NEW n \in Above2
        PROVE  /\ n < scan
               /\ table'[n] \notin {Free, Other} => n \in cloexec'
               /\ table'[n] = Other => table[n] = Other
               /\ table[n] = Other /\ n \in cloexec => n \in cloexec'
    <3>1. n < scan
      BY <1>6, FdAssumption DEF CloseDir, Above2, Fds, Sound, TypeOK
    <3> QED
      BY <1>0, <1>6, <3>1, DistinctFiles DEF CloseDir, DirFd, Listed
  <2> QED
    BY <1>6, <2>1 DEF CloseDir, Listed, OnlyStdio, kid
<1>7. CASE OpenDirFails
  BY <1>7 DEF OpenDirFails, Listed, OnlyStdio, kid
<1>8. CASE ScanEntry
  <2>1. /\ pc = "scan" /\ scan' = scan + 1 /\ scan \in Fds
        /\ UNCHANGED <<config, pc, table, cloexec, ends, kid>>
    BY <1>8 DEF ScanEntry
  <2>2. ASSUME ~leaky', NEW n \in Above2, table[n] = Other, n < scan + 1
        PROVE  n \in cloexec \/ ClosedBy(actions', n)
    <3>1. ~leaky
      BY <1>8, <2>2 DEF ScanEntry, Sound, TypeOK
    <3>2. CloseFd(scan) \in Action
      BY <2>1 DEF CloseFd, Action
    <3>3. CASE n < scan
      <4>1. n \in cloexec \/ ClosedBy(actions, n)
        BY <2>1, <2>2, <3>1, <3>3 DEF Listed
      <4> QED
        BY <1>0, <1>8, <3>2, <4>1, ClosedStays DEF ScanEntry
    <3>4. CASE n = scan
      <4>1. n \notin Handled
        BY <2>2, EndsAreNoOther DEF Handled, Sound, Owned
      <4>2. MustClose(scan)
        BY <2>2, <3>4, <4>1, DistinctFiles DEF MustClose, Above2
      <4>3. actions' = Append(actions, CloseFd(scan))
        BY <1>8, <2>2, <4>2 DEF ScanEntry
      <4>4. CloseFd(scan).op = "close" /\ CloseFd(scan).fd = n
        BY <3>4 DEF CloseFd
      <4> QED
        BY <1>0, <3>2, <4>3, <4>4, ClosedLast
    <3>5. n \in Int /\ scan \in Int
      BY <1>0, <2>1, FdAssumption DEF Fds
    <3> QED
      BY <2>2, <3>3, <3>4, <3>5
  <2> QED
    BY <2>1, <2>2 DEF Listed, OnlyStdio, kid
<1>9. CASE PosixSpawn
  BY <1>9 DEF PosixSpawn, NewChild, Listed, OnlyStdio
<1>10. CASE SpawnReturns \/ NewDrain
  BY <1>10 DEF SpawnReturns, NewDrain, Listed, OnlyStdio, kid
<1>11. CASE Child
  BY <1>11, ListedChild
<1>12. CASE OtherOpens
  <2>1. Lowest \in Fds /\ table[Lowest] = Free
    BY <1>12, LowestIsFree DEF OtherOpens, FreeFds
  <2>2. PICK c \in SUBSET {Lowest} :
          /\ cloexec' = cloexec \cup c
          /\ leaky' = (leaky \/ (c = {} /\ pc \in {"scan", "spawn"}))
    BY <1>12 DEF OtherOpens
  <2>3. /\ table' = [table EXCEPT ![Lowest] = Other]
        /\ UNCHANGED others
    BY <1>12 DEF OtherOpens
  <2>4. ASSUME NEW n \in Above2, table'[n] \notin {Free, Other}
        PROVE  n \in cloexec'
    BY <1>0, <2>1, <2>2, <2>3, <2>4 DEF Listed
  <2>5. ASSUME ~leaky', pc \in {"scan", "spawn"}, NEW n \in Above2,
               table'[n] = Other
        PROVE  table[n] = Other \/ n \in cloexec'
    BY <1>0, <2>1, <2>2, <2>3, <2>5
  <2>6. leaky => leaky'
    BY <2>2
  <2> QED
    BY <2>2, <2>3, <2>4, <2>5, <2>6 DEF Listed, OnlyStdio, others, kid
<1>13. CASE OtherCloses
  <2>1. PICK n \in Fds : /\ table[n] = Other
                         /\ table' = [table EXCEPT ![n] = Free]
                         /\ cloexec' = cloexec \ {n}
    BY <1>13 DEF OtherCloses
  <2>2. UNCHANGED <<others, leaky>>
    BY <1>13 DEF OtherCloses
  <2>3. ASSUME NEW m \in Above2
        PROVE  /\ table'[m] \notin {Free, Other} => m \in cloexec'
               /\ table'[m] = Other => table[m] = Other
               /\ table'[m] = Other /\ m \in cloexec => m \in cloexec'
    BY <1>0, <2>1, DistinctFiles DEF Listed
  <2> QED
    BY <2>2, <2>3 DEF Listed, OnlyStdio, others, kid
<1>14. CASE UNCHANGED vars
  BY <1>14 DEF vars, Listed, OnlyStdio, kid
<1> QED
  BY <1>1, <1>2, <1>3, <1>4, <1>5, <1>6, <1>7, <1>8, <1>9, <1>10, <1>11,
     <1>12, <1>13, <1>14 DEF Next, Parent

\* The new program inherits nothing above 2, on either backend and however many
\* descriptors other threads open and close meanwhile, if the listing and the
\* calls that close succeed and nobody opens one without O_CLOEXEC after it.
THEOREM NothingElseInherited == Spec => []OnlyStdio
<1>1. Listed => OnlyStdio
  BY DEF Listed
<1> QED
  BY <1>1, SoundInit, SoundStep, ListedInit, ListedStep, PTL DEF Spec

-----------------------------------------------------------------------------
(* The standard descriptors of the child, if the parent has 0, 1 and 2.     *)

\* A dup2 comes after no close of its source and no close_range.
Before(x, y) ==
  y.op = "dup2" => x.op = "dup2" \/ (x.op = "close" /\ x.fd # y.fd)

Ordered(a) == \A i, j \in 1..Len(a) : i < j => Before(a[i], a[j])

\* a connects the target m.
Connects(a, m) == \E i \in 1..Len(a) : a[i].op = "dup2" /\ a[i].to = m

\* With the table t: a close leaves 0, 1 and 2 alone, and what a dup2 puts there
\* is the end of a stream of W.
Fitted(W, t) ==
  {x \in Action :
     /\ x.op = "close" => x.fd > 2
     /\ x.op = "dup2" => /\ x.fd > 2
                         /\ \E s \in W : /\ x.to = Target[s]
                                         /\ t[x.fd] = ChildEnd(s)}

Plan(W, t, a) == a \in Seq(Fitted(W, t)) /\ Ordered(a)

LEMMA OneThenTwo ==
  ASSUME NEW A, NEW x \in A, NEW y \in A, NEW z \in A
  PROVE  <<x>> \o <<y, z>> = <<x, y, z>>
<1> DEFINE c == <<x>> \o <<y, z>>
           d == <<x, y, z>>
<1>1. c \in Seq(A) /\ d \in Seq(A) /\ Len(c) = 3 /\ Len(d) = 3
  OBVIOUS
<1>2. c[1] = d[1] /\ c[2] = d[2] /\ c[3] = d[3]
  OBVIOUS
<1>3. \A i \in 1..3 : c[i] = d[i]
  BY <1>2
<1> HIDE DEF c, d
<1>4. c = d
  BY <1>1, <1>3
<1> QED
  BY <1>4 DEF c, d

LEMMA WiderSeq ==
  ASSUME NEW A, NEW B, A \subseteq B, NEW a \in Seq(A)
  PROVE  a \in Seq(B)
OBVIOUS

LEMMA OrderedConcat ==
  ASSUME NEW a \in Seq(Action), NEW b \in Seq(Action), Ordered(a), Ordered(b),
         \A i \in 1..Len(a), j \in 1..Len(b) : Before(a[i], b[j])
  PROVE  Ordered(a \o b)
<1> DEFINE c == a \o b
<1>1. /\ Len(c) = Len(a) + Len(b) /\ Len(a) \in Nat /\ Len(b) \in Nat
      /\ \A i \in 1..Len(a) : c[i] = a[i]
      /\ \A i \in 1..Len(c) : i > Len(a) => c[i] = b[i - Len(a)]
  OBVIOUS
<1> HIDE DEF c
<1>2. ASSUME NEW i \in 1..Len(c), NEW j \in 1..Len(c), i < j
      PROVE  Before(c[i], c[j])
  <2>1. CASE j <= Len(a)
    BY <1>1, <1>2, <2>1 DEF Ordered
  <2>2. CASE i <= Len(a) /\ j > Len(a)
    <3>1. j - Len(a) \in 1..Len(b) /\ i \in 1..Len(a)
      BY <1>1, <2>2
    <3> QED
      BY <1>1, <2>2, <3>1
  <2>3. CASE i > Len(a)
    <3>1. /\ i - Len(a) \in 1..Len(b) /\ j - Len(a) \in 1..Len(b)
          /\ i - Len(a) < j - Len(a) /\ j > Len(a)
      BY <1>1, <1>2, <2>3
    <3> QED
      BY <1>1, <2>3, <3>1 DEF Ordered
  <2> QED
    BY <1>1, <2>1, <2>2, <2>3
<1> QED
  BY <1>2 DEF Ordered, c

LEMMA OrderedTail ==
  ASSUME NEW a \in Seq(Action), a # <<>>, Ordered(a)
  PROVE  /\ Ordered(Tail(a))
         /\ \A j \in 1..Len(Tail(a)) : Before(Head(a), Tail(a)[j])
<1>1. \A i \in 1..Len(Tail(a)) : i + 1 \in 1..Len(a) /\ Tail(a)[i] = a[i + 1]
  OBVIOUS
<1>2. 1 \in 1..Len(a) /\ Head(a) = a[1]
  OBVIOUS
<1>3. ASSUME NEW i \in 1..Len(Tail(a)), NEW j \in 1..Len(Tail(a)), i < j
      PROVE  Before(Tail(a)[i], Tail(a)[j])
  BY <1>1, <1>3 DEF Ordered
<1> QED
  BY <1>1, <1>2, <1>3 DEF Ordered

LEMMA ConnectsConcat ==
  ASSUME NEW a \in Seq(Action), NEW b \in Seq(Action), NEW m,
         Connects(a, m) \/ Connects(b, m)
  PROVE  Connects(a \o b, m)
<1>1. CASE Connects(a, m)
  <2>1. PICK i \in 1..Len(a) : a[i].op = "dup2" /\ a[i].to = m
    BY <1>1 DEF Connects
  <2>2. i \in 1..Len(a \o b) /\ (a \o b)[i] = a[i]
    OBVIOUS
  <2> QED
    BY <2>1, <2>2 DEF Connects
<1>2. CASE Connects(b, m)
  <2>1. PICK i \in 1..Len(b) : b[i].op = "dup2" /\ b[i].to = m
    BY <1>2 DEF Connects
  <2>2. Len(a) + i \in 1..Len(a \o b) /\ (a \o b)[Len(a) + i] = b[i]
    OBVIOUS
  <2> QED
    BY <2>1, <2>2 DEF Connects
<1> QED
  BY <1>1, <1>2

\* A target is still to be connected if the next action is not the one.
LEMMA ConnectsLater ==
  ASSUME NEW a \in Seq(Action), a # <<>>, NEW m, Connects(a, m),
         ~(Head(a).op = "dup2" /\ Head(a).to = m)
  PROVE  Connects(Tail(a), m)
<1>1. PICK i \in 1..Len(a) : a[i].op = "dup2" /\ a[i].to = m
  BY DEF Connects
<1>2. i # 1 /\ i - 1 \in 1..Len(Tail(a)) /\ Tail(a)[i - 1] = a[i]
  BY <1>1
<1> QED
  BY <1>1, <1>2 DEF Connects

-----------------------------------------------------------------------------
(* The plan of either backend.                                              *)

\* The actions about the pipes of the streams in S.
About(S) ==
  {x \in Action :
     /\ x.op # "range"
     /\ \E s \in S : x.fd \in {ends[ChildEnd(s)], ends[ParentEnd(s)]}}

\* Pipes of different streams have different numbers.
LEMMA StreamsApart ==
  ASSUME Owned, NEW s \in Streams, NEW t \in Streams, s # t,
         NEW d \in {ChildEnd(s), ParentEnd(s)},
         NEW e \in {ChildEnd(t), ParentEnd(t)},
         ends[d] # NoFd
  PROVE  ends[d] # ends[e]
<1>1. d # e /\ d \in Ends /\ e \in Ends
  BY EndsOfStreams DEF ChildEnd, ParentEnd
<1> QED
  BY <1>1 DEF Owned

LEMMA AboutConcat ==
  ASSUME Owned, NEW S \in SUBSET Streams, NEW T \in SUBSET Streams,
         S \cap T = {},
         \A s \in S : ends[ChildEnd(s)] # NoFd /\ ends[ParentEnd(s)] # NoFd,
         NEW a \in Seq(About(S)), Ordered(a),
         NEW b \in Seq(About(T)), Ordered(b)
  PROVE  a \o b \in Seq(About(S \cup T)) /\ Ordered(a \o b)
<1>1. \A x \in About(S), y \in About(T) : Before(x, y)
  <2> SUFFICES ASSUME NEW x \in About(S), NEW y \in About(T)
               PROVE  Before(x, y)
    OBVIOUS
  <2>1. PICK s \in S : x.fd \in {ends[ChildEnd(s)], ends[ParentEnd(s)]}
    BY DEF About
  <2>2. PICK t \in T : y.fd \in {ends[ChildEnd(t)], ends[ParentEnd(t)]}
    BY DEF About
  <2>3. x.fd # y.fd
    BY <2>1, <2>2, StreamsApart
  <2>4. x.op \in {"dup2", "close"}
    BY DEF About, Action
  <2> QED
    BY <2>3, <2>4 DEF Before
<1>2. /\ a \in Seq(Action) /\ b \in Seq(Action)
      /\ About(S) \subseteq About(S \cup T) /\ About(T) \subseteq About(S \cup T)
  BY DEF About
<1>3. \A i \in 1..Len(a), j \in 1..Len(b) : Before(a[i], b[j])
  BY <1>1
<1>4. a \in Seq(About(S \cup T)) /\ b \in Seq(About(S \cup T))
  BY <1>2, WiderSeq
<1> QED
  BY <1>2, <1>3, <1>4, OrderedConcat

\* The pipes of Pipes::new, when 0, 1 and 2 are open: every number is above 2.
AllMade ==
  /\ Sound /\ pc = "pipes" /\ Missing = {}
  /\ \A n \in 0..2 : table[n] \notin Ends

LEMMA MadeNumbers ==
  ASSUME AllMade, NEW s \in want
  PROVE  /\ s \in Streams
         /\ ends[ChildEnd(s)] \in Above2 /\ ends[ParentEnd(s)] \in Above2
         /\ table[ends[ChildEnd(s)]] = ChildEnd(s)
         /\ Target[s] \in 0..2
<1>1. s \in Streams
  BY DEF AllMade, Sound, TypeOK
<1>2. ends[ChildEnd(s)] # NoFd /\ ends[ParentEnd(s)] # NoFd
  BY <1>1 DEF AllMade, Sound, Paired, Missing
<1>3. /\ ends[ChildEnd(s)] \in Fds /\ table[ends[ChildEnd(s)]] = ChildEnd(s)
      /\ ends[ParentEnd(s)] \in Fds /\ table[ends[ParentEnd(s)]] = ParentEnd(s)
  BY <1>1, <1>2, EndsOfStreams DEF AllMade, Sound, Owned
<1>4. ends[ChildEnd(s)] \notin 0..2 /\ ends[ParentEnd(s)] \notin 0..2
  BY <1>1, <1>3, EndsOfStreams DEF AllMade
<1>5. \A n \in Fds : n \notin 0..2 => n \in Above2
  BY FdAssumption DEF Fds, Above2
<1> QED
  BY <1>1, <1>3, <1>4, <1>5 DEF Target, Streams

LEMMA MadeActions ==
  ASSUME AllMade, NEW s \in want
  PROVE  /\ Dup2(ends[ChildEnd(s)], Target[s]) \in Fitted(want, table)
         /\ CloseFd(ends[ChildEnd(s)]) \in Fitted(want, table)
         /\ CloseFd(ends[ParentEnd(s)]) \in Fitted(want, table)
<1>1. \A n \in Above2 : n \in Fds /\ n > 2
  BY DEF Above2
<1>2. Dup2(ends[ChildEnd(s)], Target[s]) \in Fitted(want, table)
  BY <1>1, MadeNumbers DEF Dup2, Fitted, Action
<1> QED
  BY <1>1, <1>2, MadeNumbers DEF CloseFd, Fitted, Action

LEMMA InOrderConnects ==
  ASSUME want \subseteq Streams, NEW block,
         \A s \in want : block[s] \in Seq(Action), NEW s \in want, NEW m,
         Connects(block[s], m)
  PROVE  Connects(InOrder(block), m)
<1> DEFINE one(t) == IF t \in want THEN block[t] ELSE <<>>
<1>1. \A t \in Streams : one(t) \in Seq(Action)
  OBVIOUS
<1>2. /\ s \in {"stdin", "stdout", "stderr"} /\ Connects(one(s), m)
      /\ {"stdin", "stdout", "stderr"} = Streams
  BY DEF Streams
<1>3. InOrder(block) = (one("stdin") \o one("stdout")) \o one("stderr")
  BY DEF InOrder
<1> HIDE DEF one
<1>4. one("stdin") \o one("stdout") \in Seq(Action)
  BY <1>1, <1>2
<1>5. s \in {"stdin", "stdout"} => Connects(one("stdin") \o one("stdout"), m)
  BY <1>1, <1>2, ConnectsConcat
<1> QED
  BY <1>1, <1>2, <1>3, <1>4, <1>5, ConnectsConcat

LEMMA InOrderOrdered ==
  ASSUME want \subseteq Streams, Owned, NEW block,
         \A s \in want : /\ ends[ChildEnd(s)] # NoFd /\ ends[ParentEnd(s)] # NoFd
                         /\ block[s] \in Seq(About({s})) /\ Ordered(block[s])
  PROVE  Ordered(InOrder(block))
<1> DEFINE one(t) == IF t \in want THEN block[t] ELSE <<>>
<1>1. ASSUME NEW t \in Streams
      PROVE  one(t) \in Seq(About({t} \cap want)) /\ Ordered(one(t))
  <2>1. CASE t \in want
    <3>1. {t} \cap want = {t}
      BY <2>1
    <3> QED
      BY <2>1, <3>1
  <2>2. CASE t \notin want
    <3>1. one(t) = <<>>
      BY <2>2
    <3>2. Ordered(<<>>)
      BY DEF Ordered
    <3> QED
      BY <3>1, <3>2
  <2> QED
    BY <2>1, <2>2
<1>2. InOrder(block) = (one("stdin") \o one("stdout")) \o one("stderr")
  BY DEF InOrder
<1> HIDE DEF one
<1> DEFINE I == {"stdin"} \cap want
           O == {"stdout"} \cap want
           E == {"stderr"} \cap want
<1>3. /\ one("stdin") \in Seq(About(I)) /\ Ordered(one("stdin"))
      /\ one("stdout") \in Seq(About(O)) /\ Ordered(one("stdout"))
      /\ one("stderr") \in Seq(About(E)) /\ Ordered(one("stderr"))
  BY <1>1 DEF Streams
<1>4. /\ I \in SUBSET Streams /\ O \in SUBSET Streams /\ E \in SUBSET Streams
      /\ I \cap O = {} /\ (I \cup O) \cap E = {} /\ I \cup O \in SUBSET Streams
      /\ \A s \in I \cup O :
           ends[ChildEnd(s)] # NoFd /\ ends[ParentEnd(s)] # NoFd
  OBVIOUS
<1> HIDE DEF I, O, E
<1>5. /\ one("stdin") \o one("stdout") \in Seq(About(I \cup O))
      /\ Ordered(one("stdin") \o one("stdout"))
  BY <1>3, <1>4, AboutConcat
<1> QED
  BY <1>2, <1>3, <1>4, <1>5, AboutConcat

\* posix_spawn: every pipe is connected and then closed, one after the other.
LEMMA PosixPlan ==
  ASSUME AllMade
  PROVE  LET a == InOrder([s \in want |-> ConnectAndClose(s)]) IN
         Plan(want, table, a) /\ \A s \in want : Connects(a, Target[s])
<1> DEFINE block == [s \in want |-> ConnectAndClose(s)]
<1>0. want \subseteq Streams /\ Owned
  BY DEF AllMade, Sound, TypeOK
<1>1. ASSUME NEW s \in want
      PROVE  /\ ends[ChildEnd(s)] # NoFd /\ ends[ParentEnd(s)] # NoFd
             /\ block[s] \in Seq(Fitted(want, table)) /\ block[s] \in Seq(About({s}))
             /\ Ordered(block[s]) /\ Connects(block[s], Target[s])
  <2> DEFINE x == Dup2(ends[ChildEnd(s)], Target[s])
             y == CloseFd(ends[ChildEnd(s)])
             z == CloseFd(ends[ParentEnd(s)])
  <2>1. block[s] = <<x, y, z>>
    <3>1. Connect(s) = <<x>> /\ CloseBoth(s) = <<y, z>>
      BY DEF Connect, CloseBoth
    <3>2. block[s] = Connect(s) \o CloseBoth(s)
      BY DEF ConnectAndClose
    <3>3. x \in Fitted(want, table) /\ y \in Fitted(want, table) /\ z \in Fitted(want, table)
      BY MadeActions
    <3> HIDE DEF x, y, z, block
    <3> QED
      BY <3>1, <3>2, <3>3, OneThenTwo
  <2>2. /\ x.op = "dup2" /\ x.to = Target[s] /\ x.fd = ends[ChildEnd(s)]
        /\ y.op = "close" /\ y.fd = ends[ChildEnd(s)]
        /\ z.op = "close" /\ z.fd = ends[ParentEnd(s)]
    BY DEF Dup2, CloseFd
  <2>3. x \in Fitted(want, table) /\ y \in Fitted(want, table) /\ z \in Fitted(want, table)
    BY MadeActions
  <2> HIDE DEF x, y, z, block
  <2>4. x \in About({s}) /\ y \in About({s}) /\ z \in About({s})
    BY <2>2, <2>3 DEF About, Fitted
  <2>5. Ordered(<<x, y, z>>) /\ Connects(<<x, y, z>>, Target[s])
    BY <2>2 DEF Ordered, Before, Connects
  <2>6. ends[ChildEnd(s)] # NoFd /\ ends[ParentEnd(s)] # NoFd
    BY MadeNumbers, NoFdIsNone DEF Above2
  <2> QED
    BY <2>1, <2>3, <2>4, <2>5, <2>6
<1> HIDE DEF block
<1>2. InOrder(block) \in Seq(Fitted(want, table))
  BY <1>1, InOrderType
<1>3. Ordered(InOrder(block))
  BY <1>0, <1>1, InOrderOrdered
<1>4. \A s \in want : block[s] \in Seq(Action)
  BY <1>1, WiderSeq DEF Fitted
<1>5. \A s \in want : Connects(InOrder(block), Target[s])
  BY <1>0, <1>1, <1>4, InOrderConnects
<1> QED
  BY <1>2, <1>3, <1>5 DEF Plan, block

\* fork: every pipe is connected, then all are closed, then everything else.
LEMMA ForkPlan ==
  ASSUME AllMade
  PROVE  LET a == InOrder([s \in want |-> Connect(s)])
                    \o InOrder([s \in want |-> CloseBoth(s)]) \o <<CloseRange>>
         IN Plan(want, table, a) /\ \A s \in want : Connects(a, Target[s])
<1> DEFINE D == {x \in Fitted(want, table) : x.op = "dup2"}
           C == {x \in Fitted(want, table) : x.op # "dup2"}
           a == InOrder([s \in want |-> Connect(s)])
           b == InOrder([s \in want |-> CloseBoth(s)])
           c == <<CloseRange>>
<1>0. want \subseteq Streams
  BY DEF AllMade, Sound, TypeOK
<1>1. ASSUME NEW s \in want
      PROVE  /\ Connect(s) \in Seq(D) /\ CloseBoth(s) \in Seq(C)
             /\ Connects(Connect(s), Target[s])
  <2> DEFINE x == Dup2(ends[ChildEnd(s)], Target[s])
             y == CloseFd(ends[ChildEnd(s)])
             z == CloseFd(ends[ParentEnd(s)])
  <2>1. x.op = "dup2" /\ x.to = Target[s] /\ y.op = "close" /\ z.op = "close"
    BY DEF Dup2, CloseFd
  <2>2. x \in D /\ y \in C /\ z \in C
    BY <2>1, MadeActions
  <2>3. Connect(s) = <<x>> /\ CloseBoth(s) = <<y, z>>
    BY DEF Connect, CloseBoth
  <2> HIDE DEF x, y, z, D, C
  <2> QED
    BY <2>1, <2>2, <2>3 DEF Connects
<1>2. CloseRange \in C
  BY FdAssumption DEF CloseRange, Fitted, Action, Fds
<1> HIDE DEF D, C
<1>3. a \in Seq(D) /\ b \in Seq(C) /\ c \in Seq(C)
  BY <1>1, <1>2, InOrderType
<1>4. /\ D \subseteq Action /\ C \subseteq Action
      /\ D \subseteq Fitted(want, table) /\ C \subseteq Fitted(want, table)
      /\ \A x \in D : x.op = "dup2"
      /\ \A x \in C : x.op # "dup2"
  BY DEF D, C, Fitted
<1>5. \A s \in want : Connects(a, Target[s])
  <2> DEFINE block == [s \in want |-> Connect(s)]
  <2>1. \A s \in want : block[s] \in Seq(Action)
    BY <1>1, <1>4, WiderSeq
  <2>2. \A s \in want : Connects(block[s], Target[s])
    BY <1>1
  <2> HIDE DEF block
  <2>3. \A s \in want : Connects(InOrder(block), Target[s])
    BY <1>0, <2>1, <2>2, InOrderConnects
  <2> QED
    BY <2>3 DEF block
<1> HIDE DEF a, b, c
<1>6. /\ a \in Seq(Action) /\ b \in Seq(Action) /\ c \in Seq(Action)
      /\ a \in Seq(Fitted(want, table)) /\ b \in Seq(Fitted(want, table))
      /\ c \in Seq(Fitted(want, table))
  BY <1>3, <1>4, WiderSeq
<1>7. Ordered(a) /\ Ordered(b) /\ Ordered(c)
  BY <1>3, <1>4 DEF Ordered, Before
<1>8. Ordered(a \o b) /\ a \o b \in Seq(Action)
  BY <1>3, <1>4, <1>6, <1>7, OrderedConcat DEF Before
<1>9. Ordered((a \o b) \o c)
  <2> DEFINE ab == a \o b
  <2>1. \A j \in 1..Len(c) : c[j].op # "dup2"
    BY <1>3, <1>4
  <2>2. ab \in Seq(Action) /\ Ordered(ab)
    BY <1>8
  <2> HIDE DEF ab
  <2>3. \A i \in 1..Len(ab), j \in 1..Len(c) : Before(ab[i], c[j])
    BY <2>1 DEF Before
  <2>4. Ordered(ab \o c)
    BY <1>6, <1>7, <2>2, <2>3, OrderedConcat
  <2> QED
    BY <2>4 DEF ab
<1>10. (a \o b) \o c \in Seq(Fitted(want, table))
  BY <1>6
<1>11. \A s \in want : Connects((a \o b) \o c, Target[s])
  BY <1>5, <1>6, <1>8, ConnectsConcat
<1> QED
  BY <1>9, <1>10, <1>11 DEF Plan, a, b, c

-----------------------------------------------------------------------------
(* The plan is carried out.                                                 *)

\* A plan for t is one for u if u has what is duplicated where t has it.
LEMMA PlanKept ==
  ASSUME NEW W, NEW t, NEW u, NEW a, Plan(W, t, a),
         \A i \in 1..Len(a) : a[i].op = "dup2" => u[a[i].fd] = t[a[i].fd]
  PROVE  Plan(W, u, a)
<1>1. a \in Seq(Fitted(W, t)) /\ Ordered(a)
  BY DEF Plan
<1>2. \A i \in 1..Len(a) : a[i] \in Fitted(W, t)
  BY <1>1
<1>3. \A i \in 1..Len(a) : a[i] \in Fitted(W, u)
  BY <1>2 DEF Fitted
<1>4. a \in Seq(Fitted(W, u))
  BY <1>1, <1>3
<1> QED
  BY <1>1, <1>4 DEF Plan

\* The pipe ends above 2 are all a plan looks at.
LEMMA PlanLooksAtEnds ==
  ASSUME NEW W \in SUBSET Streams, NEW t, NEW u, NEW a, Plan(W, t, a),
         \A n \in Above2 : t[n] \in Ends => u[n] = t[n]
  PROVE  Plan(W, u, a)
<1>1. ASSUME NEW i \in 1..Len(a), a[i].op = "dup2"
      PROVE  u[a[i].fd] = t[a[i].fd]
  <2>1. a[i] \in Fitted(W, t)
    BY DEF Plan
  <2>2. a[i].fd \in Above2 /\ t[a[i].fd] \in Ends
    BY <1>1, <2>1, EndsOfStreams DEF Fitted, Action, Above2
  <2> QED
    BY <2>2
<1> QED
  BY <1>1, PlanKept

\* The parent keeps 0, 1 and 2.
Kept == \A m \in 0..2 : table[m] = Std(m) /\ m \notin cloexec

\* Where the child stands: what it has not connected yet it still will.
Halfway ==
  /\ Plan(want, child, actions)
  /\ \A s \in want : \/ Connects(actions, Target[s])
                     \/ child[Target[s]] = ChildEnd(s) /\ Target[s] \notin ccloexec
  /\ \A s \in Streams \ want :
       child[Target[s]] = Std(Target[s]) /\ Target[s] \notin ccloexec
  /\ \A n \in Above2 : child[n] \in Ends => n \in ccloexec

Wired ==
  std = 0..2 =>
    /\ Kept
    /\ pc \in {"list", "scan", "spawn"} =>
         Plan(want, table, actions) /\ \A s \in want : Connects(actions, Target[s])
    /\ cpc = "setup" => Halfway
    /\ StdioConnected

LEMMA WiredInit == Init => Wired
<1> SUFFICES ASSUME Init, std = 0..2 PROVE Kept /\ StdioConnected
  BY DEF Init, Wired
<1>1. 0..2 \subseteq Fds
  BY FdAssumption DEF Fds
<1> QED
  BY <1>1 DEF Init, Kept, StdioConnected

LEMMA StdIsNoOther ==
  ASSUME NEW m \in 0..2
  PROVE  Std(m) \notin {Free, Dir, Other} /\ Std(m) \notin Ends
BY DEF Std, Free, Dir, Other, Ends, Streams

LEMMA TargetsApart ==
  /\ \A s \in Streams : Target[s] \in 0..2
  /\ \A s, t \in Streams : Target[s] = Target[t] => s = t
<1>1. Target["stdin"] = 0 /\ Target["stdout"] = 1 /\ Target["stderr"] = 2
  BY DEF Target
<1> QED
  BY <1>1 DEF Streams

LEMMA LowFds == 0..2 \subseteq Fds /\ \A n \in Above2 : n \in Fds /\ n \notin 0..2
BY FdAssumption DEF Fds, Above2

\* No step of anyone takes or marks one of 0, 1 and 2.
LEMMA KeptStep ==
  ASSUME Sound, Kept, [Next]_vars
  PROVE  Kept'
<1>0. \A m \in 0..2 : /\ m \in Fds /\ table[m] \notin {Free, Dir, Other}
                      /\ table[m] \notin Ends
  BY LowFds, StdIsNoOther DEF Kept
<1>1. \A m \in 0..2 : m \notin FreeFds
  BY <1>0 DEF FreeFds
<1>2. table \in [Fds -> File]
  BY DEF Sound, Owned
<1>3. CASE MakePipe
  <2> DEFINE r == Lowest
             w == Min(FreeFds \ {r})
  <2>1. r \in FreeFds
    BY <1>3, TwoFree
  <2>2. w \in FreeFds
    BY <1>3, TwoFree
  <2>3. /\ table' = [table EXCEPT ![r] = <<NextStream, "r">>,
                                 ![w] = <<NextStream, "w">>]
        /\ cloexec' = cloexec \cup {r, w}
    BY <1>3 DEF MakePipe
  <2> HIDE DEF r, w
  <2> QED
    BY <1>0, <1>1, <1>2, <2>1, <2>2, <2>3 DEF Kept
<1>4. ASSUME NEW E \in SUBSET Ends, Close(E) PROVE Kept'
  <2>1. ASSUME NEW m \in 0..2 PROVE m \notin {ends[e] : e \in E}
    BY <1>0, NoFdIsNone DEF Sound, Owned
  <2> QED
    BY <1>0, <1>4, <2>1 DEF Close, Kept
<1>5. CASE \/ MakePipeFails \/ PrepareFails \/ ForkFails \/ SpawnFails
           \/ NewDrainFails
  BY <1>4, <1>5
     DEF MakePipeFails, PrepareFails, ForkFails, SpawnFails, NewDrainFails, Fail
<1>6. CASE DropChildEnds
  BY <1>4, <1>6, EndsOfStreams DEF DropChildEnds
<1>7. CASE OpenDir \/ OtherOpens
  <2>1. Lowest \in FreeFds
    BY <1>7, LowestIsFree DEF OpenDir, OtherOpens
  <2>2. /\ \E x : table' = [table EXCEPT ![Lowest] = x]
        /\ cloexec' \subseteq cloexec \cup {Lowest}
    BY <1>7 DEF OpenDir, OtherOpens
  <2> QED
    BY <1>0, <1>1, <1>2, <2>1, <2>2 DEF Kept
<1>8. CASE CloseDir
  BY <1>0, <1>8 DEF CloseDir, DirFd, Kept
<1>9. CASE OtherCloses
  BY <1>0, <1>2, <1>9 DEF OtherCloses, Kept
<1>10. CASE UNCHANGED <<table, cloexec>>
  BY <1>10 DEF Kept
<1>11. \/ MakePipe \/ MakePipeFails \/ PrepareFails \/ ForkFails \/ SpawnFails
       \/ NewDrainFails \/ DropChildEnds \/ OpenDir \/ OtherOpens \/ CloseDir
       \/ OtherCloses \/ UNCHANGED <<table, cloexec>>
  BY DEF Next, Parent, Child, AddFileActions, OpenDirFails, ScanEntry,
         PosixSpawn, Fork, SpawnReturns, NewDrain, ChildDup2, ChildClose,
         ChildCloseRange, ChildExec, ChildFails, Doing, vars
<1> QED
  BY <1>3, <1>5, <1>6, <1>7, <1>8, <1>9, <1>10, <1>11

\* The child carries out its next action, or all are done.
LEMMA HalfwayStep ==
  ASSUME Sound, cpc = "setup", Halfway, Child
  PROVE  /\ cpc' = "setup" => Halfway'
         /\ StdioConnected'
<1>0. /\ want \subseteq Streams /\ child \in [Fds -> File] /\ ccloexec \subseteq Fds
      /\ actions \in Seq(Action)
      /\ \A s \in Streams : Target[s] \in 0..2
      /\ \A s, t \in Streams : Target[s] = Target[t] => s = t
  BY TargetsApart DEF Sound, TypeOK, Action
<1>1. UNCHANGED config
  BY DEF Child, ChildDup2, ChildClose, ChildCloseRange, ChildExec, ChildFails,
         Doing
<1>2. ASSUME NEW op, Doing(op)
      PROVE  /\ Now \in Fitted(want, child) /\ Now \in Action /\ Now.op = op
             /\ actions' = Tail(actions) /\ actions # <<>>
             /\ Plan(want, child, actions')
             /\ \A j \in 1..Len(actions') : Before(Now, actions'[j])
             /\ \A m : Connects(actions, m) =>
                  (Now.op = "dup2" /\ Now.to = m) \/ Connects(actions', m)
  <2>1. actions # <<>> /\ Now.op = op /\ actions' = Tail(actions)
    BY <1>2 DEF Doing
  <2>2. actions \in Seq(Fitted(want, child)) /\ Ordered(actions)
    BY DEF Halfway, Plan
  <2>3. Now \in Fitted(want, child) /\ actions' \in Seq(Fitted(want, child))
    BY <2>1, <2>2 DEF Now
  <2>4. Ordered(actions') /\ \A j \in 1..Len(actions') : Before(Now, actions'[j])
    BY <1>0, <2>1, <2>2, OrderedTail DEF Now
  <2>5. \A m : Connects(actions, m) =>
          (Now.op = "dup2" /\ Now.to = m) \/ Connects(actions', m)
    BY <1>0, <2>1, ConnectsLater DEF Now
  <2> QED
    BY <2>1, <2>3, <2>4, <2>5 DEF Plan, Fitted
<1>3. CASE ChildDup2
  <2>1. Doing("dup2") /\ cpc' = cpc
    BY <1>3 DEF ChildDup2
  <2>2. PICK s \in want : Now.to = Target[s] /\ child[Now.fd] = ChildEnd(s)
    BY <1>2, <2>1 DEF Fitted
  <2>3. Now.fd \in Above2 /\ Now.to \in 0..2 /\ Now.fd # Now.to
    BY <1>0, <1>2, <2>1, <2>2, LowFds DEF Fitted, Action, Above2
  <2>4. /\ child' = [child EXCEPT ![Target[s]] = ChildEnd(s)]
        /\ ccloexec' = ccloexec \ {Target[s]}
    BY <1>3, <2>2, <2>3 DEF ChildDup2
  <2>5. \A n \in Above2 : child'[n] = child[n] /\ n # Target[s]
    BY <1>0, <2>2, <2>4, LowFds
  <2>6. Plan(want, child', actions')
    BY <1>0, <1>2, <2>1, <2>5, PlanLooksAtEnds
  <2>7. child'[Target[s]] = ChildEnd(s) /\ Target[s] \notin ccloexec'
    BY <1>0, <2>4, LowFds
  <2>8. ASSUME NEW t \in Streams, t # s
        PROVE  /\ child'[Target[t]] = child[Target[t]]
               /\ Target[t] \in ccloexec' <=> Target[t] \in ccloexec
               /\ Connects(actions, Target[t]) => Connects(actions', Target[t])
    <3>1. Target[t] # Target[s] /\ Target[t] \in Fds
      BY <1>0, <2>8, LowFds
    <3> QED
      BY <1>0, <1>2, <2>1, <2>2, <2>4, <3>1
  <2>9. Halfway'
    BY <1>0, <1>1, <2>4, <2>5, <2>6, <2>7, <2>8 DEF Halfway, config
  <2> QED
    BY <2>1, <2>9 DEF StdioConnected
<1>4. ASSUME NEW N \in SUBSET Above2, UNCHANGED cpc,
             child' = [n \in Fds |-> IF n \in N THEN Free ELSE child[n]],
             ccloexec' = ccloexec \ N \/ ccloexec' = ccloexec,
             Plan(want, child', actions'),
             \A m : Connects(actions, m) => Connects(actions', m)
      PROVE  Halfway' /\ StdioConnected'
  <2>1. \A s \in Streams : /\ child'[Target[s]] = child[Target[s]]
                           /\ Target[s] \in ccloexec' <=> Target[s] \in ccloexec
    BY <1>0, <1>4, LowFds
  <2>2. \A n \in Above2 : child'[n] \in Ends => n \in ccloexec'
    BY <1>4, LowFds, EndsAreNoOther DEF Halfway
  <2>3. Halfway'
    BY <1>0, <1>1, <1>4, <2>1, <2>2 DEF Halfway, config
  <2> QED
    BY <1>4, <2>3 DEF StdioConnected
<1>5. CASE ChildClose
  <2>1. Doing("close") /\ cpc' = cpc
    BY <1>5 DEF ChildClose
  <2> DEFINE N == {Now.fd}
  <2>2. N \subseteq Above2
    BY <1>2, <2>1 DEF Fitted, Action, Above2
  <2>3. child' = [n \in Fds |-> IF n \in N THEN Free ELSE child[n]]
    BY <1>0, <1>5 DEF ChildClose
  <2>4. ASSUME NEW i \in 1..Len(actions'), actions'[i].op = "dup2"
        PROVE  child'[actions'[i].fd] = child[actions'[i].fd]
    <3>1. actions'[i].fd # Now.fd
      BY <1>2, <2>1, <2>4 DEF Before
    <3>2. actions' \in Seq(Fitted(want, child))
      BY <1>2, <2>1 DEF Plan
    <3>3. actions'[i] \in Fitted(want, child)
      BY <3>2
    <3>4. actions'[i].fd \in Fds
      BY <3>3 DEF Fitted, Action
    <3> QED
      BY <2>3, <3>1, <3>4
  <2>5. Plan(want, child', actions')
    BY <1>2, <2>1, <2>4, PlanKept
  <2>6. ccloexec' = ccloexec \ N
    BY <1>5 DEF ChildClose
  <2>7. \A m : Connects(actions, m) => Connects(actions', m)
    BY <1>2, <2>1
  <2> HIDE DEF N
  <2> QED
    BY <1>4, <2>1, <2>2, <2>3, <2>5, <2>6, <2>7
<1>6. CASE ChildCloseRange
  <2>1. Doing("range") /\ cpc' = cpc /\ ccloexec' = ccloexec
    BY <1>6 DEF ChildCloseRange
  <2>2. PICK N \in SUBSET Above2 :
          child' = [n \in Fds |-> IF n \in N THEN Free ELSE child[n]]
    <3>1. CASE child' = [n \in Fds |-> IF n >= 3 THEN Free ELSE child[n]]
      <4>1. \A n \in Fds : n >= 3 <=> n \in Above2
        BY FdAssumption DEF Fds, Above2
      <4>2. child' = [n \in Fds |-> IF n \in Above2 THEN Free ELSE child[n]]
        BY <3>1, <4>1
      <4> QED
        BY <4>2
    <3>2. CASE child' = child
      <4> DEFINE none == {}
      <4>1. none \in SUBSET Above2
        OBVIOUS
      <4>2. child' = [n \in Fds |-> IF n \in none THEN Free ELSE child[n]]
        BY <1>0, <3>2
      <4> HIDE DEF none
      <4> QED
        BY <4>1, <4>2
    <3> QED
      BY <1>6, <3>1, <3>2 DEF ChildCloseRange
  <2>3. \A i \in 1..Len(actions') : actions'[i].op # "dup2"
    BY <1>2, <2>1 DEF Before
  <2>4. Plan(want, child', actions')
    BY <1>2, <2>1, <2>3, PlanKept
  <2>5. \A m : Connects(actions, m) => Connects(actions', m)
    BY <1>2, <2>1
  <2> QED
    BY <1>4, <2>1, <2>2, <2>4, <2>5
<1>7. CASE ChildExec
  <2>1. \A m : ~Connects(actions, m)
    BY <1>7 DEF ChildExec, Connects
  <2>2. ASSUME NEW s \in Streams
        PROVE  child'[Target[s]] = IF s \in want THEN ChildEnd(s)
                                                 ELSE Std(Target[s])
    BY <1>0, <1>7, <2>1, LowFds DEF ChildExec, Halfway
  <2>3. ASSUME NEW n \in Fds, n > 2 PROVE child'[n] \notin Ends
    BY <1>7, <2>3, EndsAreNoOther DEF ChildExec, Halfway, Above2
  <2> QED
    BY <1>1, <1>7, <2>2, <2>3 DEF ChildExec, StdioConnected, config
<1>8. CASE ChildFails
  BY <1>8 DEF ChildFails, StdioConnected
<1> QED
  BY <1>3, <1>5, <1>6, <1>7, <1>8 DEF Child

\* What Pipes::new made, if 0, 1 and 2 were open.
LEMMA NowAllMade ==
  ASSUME Sound, Kept, pc = "pipes", Missing = {}
  PROVE  AllMade
BY StdIsNoOther DEF AllMade, Kept

\* The child starts with a copy of the table.
LEMMA StartsHalfway ==
  ASSUME Sound, Listed, Kept, NewChild, UNCHANGED config,
         Plan(want, table, actions'), \A s \in want : Connects(actions', Target[s])
  PROVE  Halfway'
<1>1. \A s \in Streams \ want :
        child'[Target[s]] = Std(Target[s]) /\ Target[s] \notin ccloexec'
  BY TargetsApart DEF NewChild, Kept
<1>2. \A n \in Above2 : child'[n] \in Ends => n \in ccloexec'
  BY EndsAreNoOther DEF NewChild, Listed
<1> QED
  BY <1>1, <1>2 DEF NewChild, Halfway, config

\* Until the spawn the plan stays one for the table, whatever other threads do.
LEMMA PlannedStep ==
  ASSUME Sound, Listed, Kept, [Next]_vars, pc' \in {"list", "scan", "spawn"},
         pc \in {"list", "scan", "spawn"} =>
           /\ Plan(want, table, actions)
           /\ \A s \in want : Connects(actions, Target[s])
  PROVE  /\ Plan(want, table, actions)'
         /\ \A s \in want' : Connects(actions', Target[s])
<1>0. want \in SUBSET Streams /\ table \in [Fds -> File] /\ actions \in Seq(Action)
  BY DEF Sound, TypeOK, Action
<1>1. CASE AddFileActions
  <2>1. AllMade
    BY <1>1, NowAllMade DEF AddFileActions
  <2> QED
    BY <1>1, <2>1, PosixPlan DEF AddFileActions, config
<1>2. ASSUME pc \in {"list", "scan", "spawn"}, UNCHANGED <<config, actions>>,
             \A n \in Above2 : table[n] \in Ends => table'[n] = table[n]
      PROVE  /\ Plan(want, table, actions)'
             /\ \A s \in want' : Connects(actions', Target[s])
  <2>1. Plan(want, table', actions)
    BY <1>0, <1>2, PlanLooksAtEnds
  <2> QED
    BY <1>2, <2>1 DEF config
<1>3. CASE OpenDir \/ (OtherOpens /\ pc \in {"list", "scan", "spawn"})
  <2>1. Lowest \in FreeFds /\ pc \in {"list", "scan", "spawn"}
    BY <1>3, LowestIsFree DEF OpenDir, OtherOpens
  <2>2. /\ \E x : table' = [table EXCEPT ![Lowest] = x]
        /\ UNCHANGED <<config, actions>>
    BY <1>3 DEF OpenDir, OtherOpens, others
  <2>3. \A n \in Above2 : table[n] \in Ends => table'[n] = table[n]
    BY <1>0, <2>1, <2>2, EndsAreNoOther, LowFds DEF FreeFds
  <2> QED
    BY <1>2, <2>1, <2>2, <2>3
<1>4. CASE CloseDir
  <2>1. \A n \in Above2 : table[n] \in Ends => table'[n] = table[n]
    BY <1>0, <1>4, EndsAreNoOther, LowFds DEF CloseDir, DirFd
  <2> QED
    BY <1>2, <1>4, <2>1 DEF CloseDir
<1>5. CASE OtherCloses /\ pc \in {"list", "scan", "spawn"}
  <2>1. \A n \in Above2 : table[n] \in Ends => table'[n] = table[n]
    BY <1>0, <1>5, EndsAreNoOther, LowFds DEF OtherCloses
  <2> QED
    BY <1>2, <1>5, <2>1 DEF OtherCloses, others
<1>6. CASE ScanEntry
  <2>1. /\ pc = "scan" /\ scan \in Fds /\ UNCHANGED <<config, table>>
        /\ \/ actions' = actions
           \/ scan > 2 /\ actions' = Append(actions, CloseFd(scan))
    BY <1>6 DEF ScanEntry, MustClose
  <2>2. CASE actions' = actions
    BY <1>2, <2>1, <2>2
  <2>3. CASE scan > 2 /\ actions' = Append(actions, CloseFd(scan))
    <3> DEFINE b == CloseFd(scan)
               c == <<b>>
    <3>1. b \in Fitted(want, table) /\ b \in Action /\ b.op # "dup2"
      BY <2>1, <2>3 DEF CloseFd, Fitted, Action
    <3> HIDE DEF b
    <3>2. /\ c \in Seq(Action) /\ c \in Seq(Fitted(want, table)) /\ Ordered(c)
          /\ \A j \in 1..Len(c) : c[j].op # "dup2"
      BY <3>1 DEF Ordered, Before
    <3>3. actions' = actions \o c
      BY <1>0, <2>3, <3>1 DEF b
    <3> HIDE DEF c
    <3>4. actions \in Seq(Fitted(want, table)) /\ Ordered(actions)
      BY <2>1 DEF Plan
    <3>5. \A i \in 1..Len(actions), j \in 1..Len(c) : Before(actions[i], c[j])
      BY <3>2 DEF Before
    <3>6. Ordered(actions')
      BY <1>0, <3>2, <3>3, <3>4, <3>5, OrderedConcat
    <3>7. actions' \in Seq(Fitted(want, table))
      BY <3>2, <3>3, <3>4
    <3>8. \A s \in want : Connects(actions', Target[s])
      BY <1>0, <2>1, <3>2, <3>3, ConnectsConcat
    <3> QED
      BY <2>1, <3>6, <3>7, <3>8 DEF Plan, config
  <2> QED
    BY <2>1, <2>2, <2>3
<1>7. CASE OpenDirFails \/ (UNCHANGED vars)
  BY <1>2, <1>7 DEF OpenDirFails, vars
<1>8. ~Child
  <2>1. Child => pc' = pc /\ cpc = "setup"
    BY DEF Child, ChildDup2, ChildClose, ChildCloseRange, ChildExec, ChildFails,
           Doing
  <2> QED
    BY <2>1 DEF Listed
<1>9. \/ AddFileActions \/ OpenDir \/ OpenDirFails \/ ScanEntry \/ CloseDir
      \/ (OtherOpens \/ OtherCloses) /\ pc \in {"list", "scan", "spawn"}
      \/ UNCHANGED vars
  BY <1>8 DEF Next, Parent, MakePipe, MakePipeFails, PrepareFails, PosixSpawn, Fork,
              ForkFails, SpawnReturns, SpawnFails, DropChildEnds, NewDrain,
              NewDrainFails, Fail, OtherOpens, OtherCloses, others
<1> QED
  BY <1>1, <1>3, <1>4, <1>5, <1>6, <1>7, <1>9

LEMMA WiredStep == Sound /\ Listed /\ Wired /\ [Next]_vars => Wired'
<1> SUFFICES ASSUME Sound, Listed, Wired, [Next]_vars, std' = 0..2
             PROVE  /\ Kept'
                    /\ pc' \in {"list", "scan", "spawn"} =>
                         /\ Plan(want, table, actions)'
                         /\ \A s \in want' : Connects(actions', Target[s])
                    /\ cpc' = "setup" => Halfway'
                    /\ StdioConnected'
  BY DEF Wired
<1>0. UNCHANGED config
  BY DEF Next, Parent, MakePipe, MakePipeFails, AddFileActions, OpenDir,
         OpenDirFails, ScanEntry, CloseDir, PrepareFails, PosixSpawn, Fork,
         ForkFails, SpawnReturns, SpawnFails, DropChildEnds, NewDrain,
         NewDrainFails, Child, ChildDup2, ChildClose, ChildCloseRange,
         ChildExec, ChildFails, Doing, OtherOpens, OtherCloses, others, vars
<1>1. /\ std = 0..2 /\ Kept /\ StdioConnected /\ (cpc = "setup" => Halfway)
      /\ pc \in {"list", "scan", "spawn"} =>
           Plan(want, table, actions) /\ \A s \in want : Connects(actions, Target[s])
  BY <1>0 DEF config, Wired
<1>2. Kept'
  BY <1>1, KeptStep
<1>3. ASSUME pc' \in {"list", "scan", "spawn"}
      PROVE  /\ Plan(want, table, actions)'
             /\ \A s \in want' : Connects(actions', Target[s])
  BY <1>1, <1>3, PlannedStep
<1>4. (cpc' = "setup" => Halfway') /\ StdioConnected'
  <2>1. CASE PosixSpawn
    <3>1. NewChild /\ UNCHANGED <<config, actions>>
      BY <2>1 DEF PosixSpawn
    <3>2. Halfway'
      BY <1>1, <2>1, <3>1, StartsHalfway DEF PosixSpawn
    <3> QED
      BY <3>1, <3>2 DEF NewChild, StdioConnected
  <2>2. CASE Fork
    <3>1. AllMade
      BY <1>1, <2>2, NowAllMade DEF Fork
    <3>2. /\ NewChild /\ Plan(want, table, actions')
          /\ \A s \in want : Connects(actions', Target[s])
      BY <2>2, <3>1, ForkPlan DEF Fork
    <3>3. Halfway'
      BY <1>0, <1>1, <3>2, StartsHalfway
    <3> QED
      BY <3>2, <3>3 DEF NewChild, StdioConnected
  <2>3. CASE Child
    <3>1. cpc = "setup"
      BY <2>3 DEF Child, ChildDup2, ChildClose, ChildCloseRange, ChildExec,
                  ChildFails, Doing
    <3> QED
      BY <1>1, <2>3, <3>1, HalfwayStep
  <2>4. ASSUME UNCHANGED kid, cpc = "setup" => actions' = actions
        PROVE  (cpc' = "setup" => Halfway') /\ StdioConnected'
    BY <1>0, <1>1, <2>4 DEF kid, config, Halfway, StdioConnected
  <2>5. CASE ~(PosixSpawn \/ Fork \/ Child)
    <3>1. UNCHANGED kid /\ (cpc = "setup" => actions' = actions)
      BY <2>5 DEF Next, Parent, MakePipe, MakePipeFails, AddFileActions, OpenDir,
         OpenDirFails, ScanEntry, CloseDir, PrepareFails,
         ForkFails, SpawnReturns, SpawnFails, DropChildEnds, NewDrain,
         NewDrainFails, OtherOpens, OtherCloses, others, vars, Listed
    <3> QED
      BY <2>4, <3>1
  <2> QED
    BY <2>1, <2>2, <2>3, <2>5
<1> QED
  BY <1>2, <1>3, <1>4

\* If the parent has 0, 1 and 2, the new program has each pipe that was asked for
\* at its number and nowhere else, and inherits the others: on either backend,
\* with any streams, and whatever other threads open and close meanwhile.
THEOREM StdioIsConnected == Spec => []StdioConnected
<1>1. Wired => StdioConnected
  BY DEF Wired, StdioConnected
<1> QED
  BY <1>1, SoundInit, SoundStep, ListedInit, ListedStep, WiredInit, WiredStep,
     PTL DEF Spec
=============================================================================
