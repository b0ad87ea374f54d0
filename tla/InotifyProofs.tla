--------------------------- MODULE InotifyProofs ---------------------------
(* Theorems about Inotify, for any paths, names, sizes of the header, the   *)
(* buffer and the queue, and any number of events.                          *)
EXTENDS StreamProofs

-----------------------------------------------------------------------------
(* What NoSilentLoss says, of any sequences.                                *)

Accounted(all, lg, gone) ==
  /\ \A i \in DOMAIN all : all[i] = lg[all[i].id]
  /\ \A i, j \in DOMAIN all : i < j => all[i].id < all[j].id
  /\ {all[i].id : i \in DOMAIN all} = DOMAIN lg \ gone

All == seen \o all_events \o AllTold(queue)

LEMMA AccountedTold ==
  ASSUME NEW all, NEW lg, NEW gone
  PROVE  Accounted(all, AllTold(lg), gone) <=>
           /\ \A i \in DOMAIN all : all[i] = Told(lg[all[i].id])
           /\ \A i, j \in DOMAIN all : i < j => all[i].id < all[j].id
           /\ {all[i].id : i \in DOMAIN all} = DOMAIN lg \ gone
<1>1. DOMAIN AllTold(lg) = DOMAIN lg /\ \A x \in DOMAIN lg : AllTold(lg)[x] = Told(lg[x])
  BY DEF AllTold
<1>2. {all[i].id : i \in DOMAIN all} = DOMAIN lg \ gone =>
        \A i \in DOMAIN all : all[i].id \in DOMAIN lg
  OBVIOUS
<1> QED
  BY <1>1, <1>2 DEF Accounted

LEMMA NoSilentLossIs == NoSilentLoss <=> Accounted(All, AllTold(log), dropped)
<1>1. PICK all, lg, gone : all = All /\ lg = log /\ gone = dropped
  OBVIOUS
<1> QED
  BY <1>1, AccountedTold, Zenon DEF NoSilentLoss, All

LEMMA NoSilentLossIsNext == NoSilentLoss' <=> Accounted(All', AllTold(log)', dropped')
<1>1. PICK all, lg, gone : all = All' /\ lg = log' /\ gone = dropped'
  OBVIOUS
<1>2. AllTold(log)' = AllTold(lg)
  BY <1>1 DEF AllTold
<1> QED
  BY <1>1, <1>2, AccountedTold, Zenon DEF NoSilentLoss, All

\* Associativity of \o, four at a time.
Regrouped(a, b, c, d) ==
  /\ (a \o b \o c) \o d = a \o b \o (c \o d)
  /\ a \o (b \o c) \o d = a \o b \o (c \o d)

LEMMA Regroup ==
  ASSUME NEW a \in Seq(ToldEvents), NEW b \in Seq(ToldEvents), NEW c \in Seq(ToldEvents),
         NEW d \in Seq(ToldEvents)
  PROVE  Regrouped(a, b, c, d)
<1>1. PICK s \in Seq(ToldEvents) : s = a \o b
  BY ConcatProperties
<1>2. (s \o c) \o d = s \o (c \o d)
  BY ConcatAssociative
<1>3. a \o (b \o c) = s \o c
  BY <1>1, ConcatAssociative
<1> QED
  BY <1>1, <1>2, <1>3, Zenon DEF Regrouped

\* A new event has a new number.
LEMMA AccountedAppend ==
  ASSUME NEW all \in Seq(ToldEvents), NEW lg \in Seq(ToldEvents), NEW gone, gone \subseteq DOMAIN lg,
         NEW e \in ToldEvents, e.id = Len(lg) + 1, Accounted(all, lg, gone)
  PROVE  Accounted(Append(all, e), Append(lg, e), gone)
<1> DEFINE a == Append(all, e)
           g == Append(lg, e)
           n == Len(all)
           m == Len(lg)
<1>1. n \in Nat /\ m \in Nat /\ DOMAIN all = 1..n /\ DOMAIN lg = 1..m
  OBVIOUS
<1>2. /\ DOMAIN a = 1..(n + 1) /\ a[n + 1] = e /\ \A i \in 1..n : a[i] = all[i]
      /\ DOMAIN g = 1..(m + 1) /\ g[m + 1] = e /\ \A i \in 1..m : g[i] = lg[i]
  BY AppendProperties, LenProperties
<1>3. \A i \in 1..n : all[i].id \in 1..m /\ all[i].id \notin gone
  BY <1>1 DEF Accounted
<1> HIDE DEF a, g
<1>4. ASSUME NEW i \in DOMAIN a PROVE a[i] = g[a[i].id]
  <2>1. CASE i = n + 1
    BY <1>2, <2>1
  <2>2. CASE i \in 1..n
    <3>1. a[i] = all[i] /\ all[i] = lg[all[i].id] /\ all[i].id \in 1..m
      BY <1>1, <1>2, <1>3, <2>2 DEF Accounted
    <3> QED
      BY <1>2, <3>1
  <2> QED
    BY <1>1, <1>2, <2>1, <2>2
<1>5. ASSUME NEW i \in DOMAIN a, NEW j \in DOMAIN a, i < j PROVE a[i].id < a[j].id
  <2>1. i \in 1..n /\ (j \in 1..n \/ j = n + 1)
    BY <1>1, <1>2, <1>5
  <2>2. CASE j = n + 1
    BY <1>1, <1>2, <1>3, <2>1, <2>2
  <2>3. CASE j \in 1..n
    BY <1>1, <1>2, <1>5, <2>1, <2>3 DEF Accounted
  <2> QED
    BY <2>1, <2>2, <2>3
<1>6. {a[i].id : i \in DOMAIN a} = DOMAIN g \ gone
  <2>1. {all[i].id : i \in 1..n} = 1..m \ gone
    BY <1>1 DEF Accounted
  <2>2. m + 1 \notin gone
    BY <1>1
  <2>3. ASSUME NEW x \in DOMAIN g \ gone PROVE \E i \in DOMAIN a : a[i].id = x
    <3>1. CASE x = m + 1
      BY <1>1, <1>2, <3>1
    <3>2. CASE x \in 1..m
      <4>1. PICK i \in 1..n : all[i].id = x
        BY <2>1, <3>2
      <4> QED
        BY <1>1, <1>2, <4>1
    <3> QED
      BY <1>1, <1>2, <3>1, <3>2
  <2>4. ASSUME NEW i \in DOMAIN a PROVE a[i].id \in DOMAIN g \ gone
    <3>1. CASE i = n + 1
      BY <1>1, <1>2, <2>2, <3>1
    <3>2. CASE i \in 1..n
      BY <1>1, <1>2, <1>3, <3>2
    <3> QED
      BY <1>1, <1>2, <3>1, <3>2
  <2> QED
    BY <2>3, <2>4
<1> QED
  BY <1>4, <1>5, <1>6 DEF Accounted, a, g

\* Taking a stretch out leaves the rest in order and names what is missing.
LEMMA AccountedWithout ==
  ASSUME NEW a \in Seq(ToldEvents), NEW b \in Seq(ToldEvents), NEW c \in Seq(ToldEvents),
         NEW lg, NEW gone, Accounted(a \o b \o c, lg, gone)
  PROVE  Accounted(a \o c, lg, gone \cup {b[i].id : i \in DOMAIN b})
<1> DEFINE x == a \o b \o c
           y == a \o c
           la == Len(a)
           lb == Len(b)
           lc == Len(c)
           sh(i) == IF i <= la THEN i ELSE i + lb
<1>1. la \in Nat /\ lb \in Nat /\ lc \in Nat /\ DOMAIN b = 1..lb
  OBVIOUS
<1>2. /\ a \o b \in Seq(ToldEvents) /\ Len(a \o b) = la + lb
      /\ \A i \in 1..(la + lb) : (a \o b)[i] = IF i <= la THEN a[i] ELSE b[i - la]
  BY ConcatProperties
<1>3. /\ x \in Seq(ToldEvents) /\ Len(x) = la + lb + lc
      /\ \A i \in 1..(la + lb + lc) :
           x[i] = IF i <= la + lb THEN (a \o b)[i] ELSE c[i - (la + lb)]
  BY <1>2, ConcatProperties
<1>4. /\ y \in Seq(ToldEvents) /\ Len(y) = la + lc
      /\ \A i \in 1..(la + lc) : y[i] = IF i <= la THEN a[i] ELSE c[i - la]
  BY ConcatProperties
<1>5. DOMAIN x = 1..(la + lb + lc) /\ DOMAIN y = 1..(la + lc)
  BY <1>3, <1>4, LenProperties
<1>6. /\ \A i \in DOMAIN x : x[i] = lg[x[i].id]
      /\ \A i, j \in DOMAIN x : i < j => x[i].id < x[j].id
      /\ {x[i].id : i \in DOMAIN x} = DOMAIN lg \ gone
      /\ \A i \in DOMAIN x : x[i].id \in Nat
  <2>1. Accounted(x, lg, gone)
    OBVIOUS
  <2>2. \A i \in DOMAIN x : x[i] \in ToldEvents
    BY <1>3, <1>5
  <2> HIDE DEF x
  <2>3. \A i \in DOMAIN x : x[i].id \in Nat
    BY <2>2 DEF ToldEvents
  <2> QED
    BY <2>1, <2>3 DEF Accounted
<1> HIDE DEF x, y, la, lb, lc
<1>7. ASSUME NEW i \in DOMAIN y PROVE sh(i) \in DOMAIN x /\ x[sh(i)] = y[i]
  <2>1. CASE i <= la
    <3>1. i \in 1..(la + lb) /\ i \in 1..(la + lb + lc) /\ i <= la + lb
      BY <1>1, <1>5, <2>1
    <3> QED
      BY <1>2, <1>3, <1>4, <1>5, <2>1, <3>1
  <2>2. CASE i > la
    <3>1. /\ i + lb \in 1..(la + lb + lc) /\ ~(i + lb <= la + lb) /\ ~(i <= la)
          /\ (i + lb) - (la + lb) = i - la
      BY <1>1, <1>5, <2>2
    <3> QED
      BY <1>3, <1>4, <1>5, <3>1
  <2> QED
    BY <1>1, <1>5, <2>1, <2>2
<1>8. ASSUME NEW k \in 1..lb PROVE la + k \in DOMAIN x /\ x[la + k] = b[k]
  <2>1. /\ la + k \in 1..(la + lb) /\ la + k \in 1..(la + lb + lc) /\ la + k <= la + lb
        /\ ~(la + k <= la) /\ (la + k) - la = k
    BY <1>1
  <2> QED
    BY <1>2, <1>3, <1>5, <2>1
<1>9. ASSUME NEW j \in DOMAIN x
      PROVE  (\E i \in DOMAIN y : sh(i) = j) \/ (\E k \in 1..lb : la + k = j)
  <2>1. CASE j <= la
    <3>1. j \in DOMAIN y /\ sh(j) = j
      BY <1>1, <1>5, <2>1
    <3> QED
      BY <3>1
  <2>2. CASE j > la /\ j <= la + lb
    <3>1. j - la \in 1..lb /\ la + (j - la) = j
      BY <1>1, <1>5, <2>2
    <3> QED
      BY <3>1
  <2>3. CASE j > la + lb
    <3>1. j - lb \in DOMAIN y /\ sh(j - lb) = j
      BY <1>1, <1>5, <2>3
    <3> QED
      BY <3>1
  <2> QED
    BY <1>1, <1>5, <2>1, <2>2, <2>3
<1>10. ASSUME NEW i \in DOMAIN y, NEW j \in DOMAIN y, i < j PROVE sh(i) < sh(j)
  BY <1>1, <1>5, <1>10
<1>11. ASSUME NEW i \in DOMAIN y, NEW k \in 1..lb PROVE sh(i) < la + k \/ la + k < sh(i)
  BY <1>1, <1>5
<1> HIDE DEF sh
<1>12. \A i \in DOMAIN y : y[i] = lg[y[i].id]
  BY <1>6, <1>7
<1>13. \A i, j \in DOMAIN y : i < j => y[i].id < y[j].id
  BY <1>6, <1>7, <1>10
<1>14. {y[i].id : i \in DOMAIN y} = DOMAIN lg \ (gone \cup {b[i].id : i \in DOMAIN b})
  <2>1. ASSUME NEW i \in DOMAIN y, NEW k \in 1..lb PROVE y[i].id # b[k].id
    <3>1. x[sh(i)].id < x[la + k].id \/ x[la + k].id < x[sh(i)].id
      BY <1>6, <1>7, <1>8, <1>11
    <3>2. x[sh(i)].id \in Nat /\ x[la + k].id \in Nat
      BY <1>6, <1>7, <1>8
    <3> QED
      BY <1>7, <1>8, <3>1, <3>2
  <2>2. ASSUME NEW i \in DOMAIN y
        PROVE  y[i].id \in DOMAIN lg \ (gone \cup {b[k].id : k \in DOMAIN b})
    <3>1. y[i].id \in DOMAIN lg \ gone
      BY <1>6, <1>7
    <3> QED
      BY <1>1, <2>1, <3>1
  <2>3. ASSUME NEW d \in DOMAIN lg \ (gone \cup {b[k].id : k \in DOMAIN b})
        PROVE  \E i \in DOMAIN y : y[i].id = d
    <3>1. PICK j \in DOMAIN x : x[j].id = d
      BY <1>6
    <3>2. ~\E k \in 1..lb : la + k = j
      BY <1>1, <1>8, <3>1
    <3>3. PICK i \in DOMAIN y : sh(i) = j
      BY <1>9, <3>2
    <3> QED
      BY <1>7, <3>1, <3>3
  <2> QED
    BY <2>2, <2>3
<1> QED
  BY <1>12, <1>13, <1>14 DEF Accounted, y
-----------------------------------------------------------------------------
(* The inductive invariant.                                                 *)

\* What epoll, the watches and the queue allow at each point of the loop.
Shape ==
  /\ next_token # 0
  /\ reg = 0 => watched = {} /\ queue = <<>>
  /\ pc # "dispatch" => events = {}
  /\ Len(queue) > MaxQueue => \E i \in DOMAIN queue : queue[i].mask = "overflow"

Inv == TypeOK /\ Shape /\ NoSilentLoss /\ EdgeKept

LEMMA InitInv == Init => Inv
<1> SUFFICES ASSUME Init PROVE Inv
  OBVIOUS
<1>1. TypeOK
  <2>1. <<>> \in Seq(Events) /\ <<>> \in Seq(ToldEvents) /\ Len(<<>>) = 0
    OBVIOUS
  <2>2. ready \in BOOLEAN /\ failed \in BOOLEAN
    BY Zenon DEF Init
  <2> QED
    BY <2>1, <2>2, SizesAssumption DEF Init, TypeOK
<1>2. Shape /\ EdgeKept
  BY SizesAssumption DEF Init, Shape, EdgeKept
<1>3. NoSilentLoss
  <2>1. All = <<>> /\ AllTold(log) = <<>> /\ dropped = {}
    BY DEF Init, All, AllTold
  <2>2. Accounted(<<>>, <<>>, {})
    BY DEF Accounted
  <2> QED
    BY <2>1, <2>2, NoSilentLossIs
<1> QED
  BY <1>1, <1>2, <1>3 DEF Inv

\* The kernel's queue takes one event more, or is full.
LEMMA QueueInv ==
  ASSUME Inv, reg # 0, NEW mask \in {"modify", "ignored"}, NEW name \in Names \cup {<<>>},
         Queue(mask, name), watched' \subseteq watched,
         UNCHANGED <<setup, events, all_events, seen, pc, failure>>
  PROVE  Inv'
<1> DEFINE over == Len(queue) >= MaxQueue
           e == [id |-> Len(log) + 1, mask |-> IF over THEN "overflow" ELSE mask,
                 name |-> IF over THEN <<>> ELSE name]
           told == \E i \in DOMAIN queue : queue[i].mask = "overflow"
<1>0. /\ reg' = reg /\ inotify_token' = inotify_token /\ next_token' = next_token
      /\ events' = events /\ all_events' = all_events /\ seen' = seen /\ pc' = pc
      /\ failed' = failed /\ dropped' = dropped
  BY DEF setup, failure
<1>1. /\ queue \in Seq(Events) /\ log \in Seq(Events)
      /\ seen \in Seq(ToldEvents) /\ all_events \in Seq(ToldEvents)
      /\ dropped \subseteq DOMAIN log
      /\ Len(queue) \in Nat /\ Len(log) \in Nat /\ Len(queue) <= MaxQueue + 1
      /\ MaxQueue \in Nat \ {0}
  BY SizesAssumption DEF Inv, TypeOK
<1>2. CASE over /\ told
  <2>1. queue' = queue /\ log' = log /\ ready' = ready
    BY <1>2, Zenon DEF Queue
  <2>2. TypeOK'
    BY <1>0, <2>1 DEF Inv, TypeOK
  <2>3. Shape' /\ EdgeKept'
    BY <1>0, <2>1 DEF Inv, Shape, EdgeKept
  <2>4. NoSilentLoss'
    <3>1. All' = All /\ AllTold(log)' = AllTold(log)
      BY <1>0, <2>1 DEF All, AllTold
    <3> QED
      BY <1>0, <2>1, <3>1, NoSilentLossIs, NoSilentLossIsNext DEF Inv
  <2> QED
    BY <2>2, <2>3, <2>4 DEF Inv
<1>3. CASE ~(over /\ told)
  <2>1. queue' = Append(queue, e) /\ log' = Append(log, e) /\ ready' = (reg # 0)
    BY <1>3, Zenon DEF Queue
  <2>2. e \in Events
    BY <1>1 DEF Events, Masks
  <2>3. e.id = Len(log) + 1 /\ (over => e.mask = "overflow")
    OBVIOUS
  <2>4. Len(queue) <= MaxQueue
    BY <1>1, <1>3 DEF Inv, Shape
  <2> HIDE DEF e
  <2>5. /\ queue' \in Seq(Events) /\ Len(queue') = Len(queue) + 1
        /\ queue'[Len(queue) + 1] = e /\ DOMAIN queue' = 1..(Len(queue) + 1)
        /\ log' \in Seq(Events) /\ DOMAIN log \subseteq DOMAIN log'
    <3>1. /\ queue' \in Seq(Events) /\ Len(queue') = Len(queue) + 1
          /\ queue'[Len(queue) + 1] = e
      BY <1>1, <2>1, <2>2, AppendProperties
    <3>2. log' \in Seq(Events) /\ Len(log') = Len(log) + 1
      BY <1>1, <2>1, <2>2, AppendProperties
    <3>3. DOMAIN queue' = 1..Len(queue') /\ DOMAIN log' = 1..Len(log') /\ DOMAIN log = 1..Len(log)
      BY <1>1, <3>1, <3>2, LenProperties
    <3> QED
      BY <1>1, <3>1, <3>2, <3>3
  <2>6. ready' = TRUE
    BY <2>1
  <2>7. TypeOK'
    <3>1. Len(queue') <= MaxQueue + 1
      BY <1>1, <2>4, <2>5
    <3>2. ready' \in BOOLEAN /\ failed' \in BOOLEAN
      BY <1>0, <2>6 DEF Inv, TypeOK
    <3>3. dropped' \subseteq DOMAIN log'
      BY <1>0, <1>1, <2>5
    <3> QED
      BY <1>0, <2>5, <3>1, <3>2, <3>3 DEF Inv, TypeOK
  <2>8. Shape'
    <3>1. Len(queue') > MaxQueue => queue'[Len(queue) + 1].mask = "overflow"
      BY <1>1, <2>3, <2>4, <2>5
    <3>2. Len(queue) + 1 \in DOMAIN queue'
      BY <1>1, <2>5
    <3> QED
      BY <1>0, <3>1, <3>2 DEF Inv, Shape
  <2>9. EdgeKept'
    BY <2>6 DEF EdgeKept
  <2>10. NoSilentLoss'
    <3>1. PICK t \in ToldEvents : t = Told(e) /\ t.id = Len(log) + 1
      BY <2>2, <2>3, ToldFields
    <3>2. /\ AllTold(queue) \in Seq(ToldEvents) /\ AllTold(log) \in Seq(ToldEvents)
          /\ Len(AllTold(log)) = Len(log) /\ DOMAIN AllTold(log) = DOMAIN log
      BY <1>1, AllToldProperties DEF AllTold
    <3>3. AllTold(queue)' = Append(AllTold(queue), t) /\ AllTold(log)' = Append(AllTold(log), t)
      <4>1. AllTold(queue') = Append(AllTold(queue), t)
        BY <1>1, <2>1, <2>2, <3>1, AllToldAppend
      <4>2. AllTold(log') = Append(AllTold(log), t)
        BY <1>1, <2>1, <2>2, <3>1, AllToldAppend
      <4>3. AllTold(queue)' = AllTold(queue') /\ AllTold(log)' = AllTold(log')
        BY DEF AllTold
      <4> QED
        BY <4>1, <4>2, <4>3
    <3>4. All' = Append(All, t) /\ All \in Seq(ToldEvents)
      <4>1. seen \o all_events \in Seq(ToldEvents)
        BY <1>1, ConcatProperties
      <4>2. All \in Seq(ToldEvents)
        BY <3>2, <4>1, ConcatProperties DEF All
      <4>3. <<t>> \in Seq(ToldEvents)
        OBVIOUS
      <4>4. Append(AllTold(queue), t) = AllTold(queue) \o <<t>>
        BY <3>2, AppendIsConcat
      <4>5. Append(All, t) = All \o <<t>>
        BY <4>2, AppendIsConcat
      <4>6. ((seen \o all_events) \o AllTold(queue)) \o <<t>> =
            (seen \o all_events) \o (AllTold(queue) \o <<t>>)
        <5>1. Regrouped(seen, all_events, AllTold(queue), <<t>>)
          BY <1>1, <3>2, <4>3, Regroup
        <5> QED
          BY <5>1, Zenon DEF Regrouped
      <4>7. All' = (seen \o all_events) \o Append(AllTold(queue), t)
        BY <1>0, <3>3, Zenon DEF All
      <4> QED
        BY <4>2, <4>4, <4>5, <4>6, <4>7, Zenon DEF All
    <3>5. Accounted(All, AllTold(log), dropped)
      BY NoSilentLossIs DEF Inv
    <3>6. Accounted(Append(All, t), Append(AllTold(log), t), dropped)
      BY <1>1, <3>1, <3>2, <3>4, <3>5, AccountedAppend
    <3> QED
      BY <1>0, <3>3, <3>4, <3>6, NoSilentLossIsNext
  <2> QED
    BY <2>7, <2>8, <2>9, <2>10 DEF Inv
<1> QED
  BY <1>2, <1>3

\* A step that moves no event and leaves no wakeup to be lost.
LEMMA StillAccounted ==
  ASSUME Inv, UNCHANGED <<queue, log, all_events, seen, dropped>>
  PROVE  NoSilentLoss'
<1>1. All' = All /\ AllTold(log)' = AllTold(log)
  BY DEF All, AllTold
<1> QED
  BY <1>1, NoSilentLossIs, NoSilentLossIsNext DEF Inv

LEMMA SetupInv == Inv /\ Setup => Inv'
<1> SUFFICES ASSUME Inv, Setup PROVE Inv'
  OBVIOUS
<1>1. CASE SetupInotify
  <2>1. NoSilentLoss'
    BY <1>1, StillAccounted DEF SetupInotify, kernel, failure
  <2>2. TypeOK'
    BY <1>1 DEF SetupInotify, Inv, TypeOK, Shape, kernel, failure
  <2>3. Shape' /\ EdgeKept'
    BY <1>1 DEF SetupInotify, Inv, TypeOK, Shape, EdgeKept, kernel, failure
  <2> QED
    BY <2>1, <2>2, <2>3 DEF Inv
<1>2. CASE SetupFails
  <2>1. NoSilentLoss'
    BY <1>2, StillAccounted DEF SetupFails, kernel, failure
  <2>2. TypeOK' /\ Shape' /\ EdgeKept'
    BY <1>2 DEF SetupFails, Inv, TypeOK, Shape, EdgeKept, kernel, failure
  <2> QED
    BY <2>1, <2>2 DEF Inv
<1>3. CASE AddWatchFails
  <2>1. NoSilentLoss'
    BY <1>3, StillAccounted DEF AddWatchFails, kernel, failure
  <2>2. TypeOK' /\ Shape' /\ EdgeKept'
    BY <1>3 DEF AddWatchFails, Inv, TypeOK, Shape, EdgeKept, kernel, setup, failure
  <2> QED
    BY <2>1, <2>2 DEF Inv
<1>4. ASSUME NEW p \in Paths, AddWatch(p) PROVE Inv'
  <2>1. NoSilentLoss'
    BY <1>4, StillAccounted DEF AddWatch, failure
  <2>2. TypeOK' /\ Shape' /\ EdgeKept'
    BY <1>4 DEF AddWatch, Inv, TypeOK, Shape, EdgeKept, setup, failure
  <2> QED
    BY <2>1, <2>2 DEF Inv
<1> QED
  BY <1>1, <1>2, <1>3, <1>4 DEF Setup

LEMMA KernelInv ==
  ASSUME Inv, NEW p \in Paths, Removed(p) \/ \E n \in Names : Modified(p, n)
  PROVE  Inv'
<1>1. CASE Removed(p)
  <2>1. reg # 0 /\ watched' \subseteq watched
    BY <1>1 DEF Removed, Inv, Shape
  <2> QED
    BY <1>1, <2>1, QueueInv DEF Removed
<1>2. ASSUME NEW n \in Names, Modified(p, n) PROVE Inv'
  <2>1. reg # 0 /\ watched' \subseteq watched
    BY <1>2 DEF Modified, Inv, Shape
  <2> QED
    BY <1>2, <2>1, QueueInv DEF Modified
<1> QED
  BY <1>1, <1>2

\* What a read takes is the start of the queue, and that is what the caller is told.
LEMMA ReadTakes ==
  ASSUME Inv
  PROVE  /\ Filled \in Seq(Events) /\ Len(Filled) \in 0..Len(queue)
         /\ Decode(Encode(Filled)) = AllTold(Filled)
         /\ Unread \in Seq(Events) /\ Len(Unread) = Len(queue) - Len(Filled)
         /\ Filled \o Unread = queue
<1>1. queue \in Seq(Events) /\ Len(queue) \in Nat /\ BufLen \in Nat
  BY SizesAssumption DEF Inv, TypeOK
<1>2. /\ Filled \in Seq(Events) /\ Len(Filled) \in 0..Len(queue)
      /\ Filled = SubSeq(queue, 1, Len(Filled))
      /\ Decode(Encode(Filled)) = AllTold(Filled)
  BY <1>1, FittingDecodes, Zenon DEF Filled
<1> DEFINE k == Len(Filled)
           n == Len(queue)
<1>3. k \in 0..n /\ n \in Nat
  BY <1>1, <1>2
<1>4. Unread = SubSeq(queue, k + 1, n)
  BY DEF Unread
<1> HIDE DEF k, n
<1>5. SubSeq(queue, k + 1, n) \in Seq(Events) /\ Len(SubSeq(queue, k + 1, n)) = n - k
  <2>1. \A i \in (k + 1)..n : queue[i] \in Events
    BY <1>1, <1>3 DEF n
  <2>2. k + 1 \in Int /\ n \in Int
    BY <1>3
  <2> QED
    BY <1>3, <2>1, <2>2, SubSeqProperties
<1>6. SubSeq(queue, 1, k) \o SubSeq(queue, k + 1, n) = queue
  <2>1. 1 \in 1..(n + 1) /\ k \in (1 - 1)..n /\ n \in k..n
    BY <1>3
  <2>2. SubSeq(queue, 1, k) \o SubSeq(queue, k + 1, n) = SubSeq(queue, 1, n)
    BY <1>1, <2>1, ConcatAdjacentSubSeq DEF n
  <2> QED
    BY <1>1, <2>2, SubSeqFull DEF n
<1> QED
  BY <1>2, <1>4, <1>5, <1>6 DEF k, n

\* A read moves the start of the queue to what the call has taken.
LEMMA ReadInv == Inv /\ Read => Inv'
<1> SUFFICES ASSUME Inv, Read PROVE Inv'
  OBVIOUS
<1>1. /\ all_events' = all_events \o AllTold(Filled) /\ queue' = Unread /\ pc = "read"
      /\ watched' = watched /\ log' = log /\ ready' = ready /\ reg' = reg
      /\ inotify_token' = inotify_token /\ next_token' = next_token /\ events' = events
      /\ seen' = seen /\ pc' = pc /\ failed' = failed /\ dropped' = dropped
  BY ReadTakes DEF Read, setup, failure
<1>2. /\ queue \in Seq(Events) /\ all_events \in Seq(ToldEvents)
      /\ seen \in Seq(ToldEvents)
      /\ AllTold(Filled) \in Seq(ToldEvents) /\ AllTold(Unread) \in Seq(ToldEvents)
      /\ AllTold(queue) = AllTold(Filled) \o AllTold(Unread)
      /\ Filled \in Seq(Events) /\ Unread \in Seq(Events)
      /\ Len(Filled) \in Nat /\ Len(queue) \in Nat
      /\ Len(Unread) = Len(queue) - Len(Filled) /\ Filled \o Unread = queue
      /\ Len(Filled) <= Len(queue)
  <2>1. PICK f \in Seq(Events), u \in Seq(Events) : f = Filled /\ u = Unread
    BY ReadTakes
  <2>2. AllTold(f \o u) = AllTold(f) \o AllTold(u)
    BY AllToldConcat
  <2>3. AllTold(f) \in Seq(ToldEvents) /\ AllTold(u) \in Seq(ToldEvents)
    BY AllToldProperties
  <2>4. f \o u = queue
    BY <2>1, ReadTakes
  <2>5. AllTold(queue) = AllTold(Filled) \o AllTold(Unread)
    BY <2>1, <2>2, <2>4, Zenon
  <2>6. AllTold(Filled) \in Seq(ToldEvents) /\ AllTold(Unread) \in Seq(ToldEvents)
    BY <2>1, <2>3, Zenon
  <2> QED
    BY <2>5, <2>6, ReadTakes DEF Inv, TypeOK
<1>3. TypeOK'
  <2>1. all_events \o AllTold(Filled) \in Seq(ToldEvents)
    BY <1>2, ConcatProperties
  <2>2. Len(queue') <= MaxQueue + 1
    BY <1>1, <1>2, SizesAssumption DEF Inv, TypeOK
  <2> QED
    BY <1>1, <1>2, <2>1, <2>2 DEF Inv, TypeOK
<1>4. Shape'
  <2>1. reg = 0 => queue' = <<>>
    <3>1. ASSUME reg = 0 PROVE Len(queue') = 0
      BY <1>1, <1>2, <3>1 DEF Inv, Shape
    <3> QED
      BY <1>1, <1>2, <3>1, EmptySeq
  <2>2. ASSUME Len(queue') > MaxQueue PROVE queue' = queue
    <3>1. Len(Filled) = 0
      BY <1>1, <1>2, <2>2, SizesAssumption DEF Inv, TypeOK
    <3>2. Filled = <<>>
      BY <1>2, <3>1, EmptySeq
    <3> QED
      BY <1>1, <1>2, <3>2, ConcatEmptySeq
  <2> QED
    BY <1>1, <2>1, <2>2 DEF Inv, Shape
<1>5. EdgeKept'
  BY <1>1 DEF EdgeKept
<1>6. NoSilentLoss'
  <2>1. seen \o (all_events \o AllTold(Filled)) \o AllTold(Unread) =
        seen \o all_events \o (AllTold(Filled) \o AllTold(Unread))
    <3>1. Regrouped(seen, all_events, AllTold(Filled), AllTold(Unread))
      BY <1>2, Regroup
    <3> QED
      BY <3>1, Zenon DEF Regrouped
  <2>2. AllTold(queue)' = AllTold(Unread) /\ AllTold(log)' = AllTold(log)
    BY <1>1 DEF AllTold
  <2>3. All' = All
    BY <1>1, <1>2, <2>1, <2>2, Zenon DEF All
  <2> QED
    BY <1>1, <2>2, <2>3, NoSilentLossIs, NoSilentLossIsNext DEF Inv
<1> QED
  BY <1>3, <1>4, <1>5, <1>6 DEF Inv

LEMMA LoopInv == Inv /\ Loop => Inv'
<1> SUFFICES ASSUME Inv, Loop PROVE Inv'
  OBVIOUS
<1>1. CASE Elapsed
  <2>1. NoSilentLoss'
    BY <1>1, StillAccounted DEF Elapsed, kernel, failure
  <2>2. TypeOK' /\ Shape' /\ EdgeKept'
    BY <1>1 DEF Elapsed, Inv, TypeOK, Shape, EdgeKept, kernel, setup, failure
  <2> QED
    BY <2>1, <2>2 DEF Inv
<1>2. CASE Wait
  <2>1. NoSilentLoss'
    BY <1>2, StillAccounted DEF Wait, kernel, failure
  <2>2. TypeOK' /\ Shape'
    BY <1>2 DEF Wait, Inv, TypeOK, Shape, kernel, setup, failure
  <2>3. EdgeKept'
    BY <1>2 DEF Wait, Inv, TypeOK, Shape, EdgeKept, kernel, setup, failure
  <2> QED
    BY <2>1, <2>2, <2>3 DEF Inv
<1>3. CASE Dispatch
  <2>1. NoSilentLoss'
    BY <1>3, StillAccounted DEF Dispatch, kernel, failure
  <2>2. TypeOK' /\ Shape' /\ EdgeKept'
    BY <1>3 DEF Dispatch, Inv, TypeOK, Shape, EdgeKept, kernel, setup, failure
  <2> QED
    BY <2>1, <2>2 DEF Inv
<1>4. CASE Read
  BY <1>4, ReadInv
<1>5. CASE ReadWouldBlock
  <2>1. /\ seen \in Seq(ToldEvents) /\ all_events \in Seq(ToldEvents)
        /\ seen \o all_events \in Seq(ToldEvents)
    BY ConcatProperties DEF Inv, TypeOK
  <2>2. NoSilentLoss'
    <3>1. (seen \o all_events) \o <<>> = seen \o all_events
      BY <2>1, ConcatEmptySeq
    <3>2. All' = All /\ AllTold(log)' = AllTold(log)
      BY <1>5, <3>1 DEF ReadWouldBlock, kernel, All, AllTold
    <3> QED
      BY <1>5, <3>2, NoSilentLossIs, NoSilentLossIsNext
      DEF Inv, ReadWouldBlock, kernel, failure
  <2>3. TypeOK' /\ Shape' /\ EdgeKept'
    BY <1>5, <2>1 DEF ReadWouldBlock, Inv, TypeOK, Shape, EdgeKept, kernel, setup, failure
  <2> QED
    BY <2>2, <2>3 DEF Inv
<1> QED
  BY <1>1, <1>2, <1>3, <1>4, <1>5 DEF Loop

\* A call that fails drops what it had taken, and dropped says which events those are.
LEMMA ReadFailsInv == Inv /\ ReadFails => Inv'
<1> SUFFICES ASSUME Inv, ReadFails PROVE Inv'
  OBVIOUS
<1> DEFINE ids == {all_events[i].id : i \in DOMAIN all_events}
<1>1. /\ seen \in Seq(ToldEvents) /\ all_events \in Seq(ToldEvents)
      /\ AllTold(queue) \in Seq(ToldEvents)
      /\ seen' = seen /\ queue' = queue /\ log' = log /\ all_events' = <<>>
      /\ dropped' = dropped \cup ids
  BY AllToldProperties DEF Inv, TypeOK, ReadFails, kernel
<1>2. Accounted(seen \o all_events \o AllTold(queue), AllTold(log), dropped)
  BY NoSilentLossIs DEF Inv, All
<1>3. Accounted(seen \o AllTold(queue), AllTold(log), dropped')
  BY <1>1, <1>2, AccountedWithout
<1>4. NoSilentLoss'
  <2>1. seen \o <<>> = seen
    BY <1>1, ConcatEmptySeq
  <2>2. All' = seen \o AllTold(queue) /\ AllTold(log)' = AllTold(log)
    BY <1>1, <2>1 DEF All, AllTold
  <2> QED
    BY <1>1, <1>3, <2>2, NoSilentLossIsNext
<1>5. ids \subseteq DOMAIN log
  <2>1. \A i \in DOMAIN all_events :
          \E j \in DOMAIN (seen \o all_events \o AllTold(queue)) :
            (seen \o all_events \o AllTold(queue))[j] = all_events[i]
    <3> SUFFICES ASSUME NEW i \in DOMAIN all_events
                 PROVE  \E j \in DOMAIN (seen \o all_events \o AllTold(queue)) :
                          (seen \o all_events \o AllTold(queue))[j] = all_events[i]
      OBVIOUS
    <3>1. PICK s \in Seq(ToldEvents) : s = seen \o all_events
      BY <1>1, ConcatProperties
    <3>2. /\ Len(s) = Len(seen) + Len(all_events)
          /\ s[Len(seen) + i] = all_events[i]
      BY <1>1, <3>1
    <3>3. /\ Len(seen) + i \in 1..Len(s) /\ Len(seen) + i \in DOMAIN (s \o AllTold(queue))
          /\ (s \o AllTold(queue))[Len(seen) + i] = s[Len(seen) + i]
      BY <1>1, <3>2
    <3> QED
      BY <3>1, <3>2, <3>3
  <2> QED
    BY <1>2, <2>1 DEF Accounted, AllTold
<1>6. TypeOK'
  BY <1>1, <1>5 DEF ReadFails, Inv, TypeOK, kernel, setup
<1>7. Shape' /\ EdgeKept'
  BY DEF ReadFails, Inv, TypeOK, Shape, EdgeKept, kernel, setup
<1> QED
  BY <1>4, <1>6, <1>7 DEF Inv

LEMMA NextInv == Inv /\ [Next]_vars => Inv'
<1> SUFFICES ASSUME Inv, [Next]_vars PROVE Inv'
  OBVIOUS
<1>1. CASE Setup
  BY <1>1, SetupInv
<1>2. CASE Loop
  BY <1>2, LoopInv
<1>3. CASE ReadFails
  BY <1>3, ReadFailsInv
<1>4. CASE \E p \in Paths : Removed(p) \/ \E n \in Names : Modified(p, n)
  BY <1>4, KernelInv
<1>5. CASE UNCHANGED vars
  <2>1. NoSilentLoss'
    BY <1>5, StillAccounted DEF vars, kernel, failure
  <2>2. TypeOK' /\ Shape' /\ EdgeKept'
    BY <1>5 DEF Inv, TypeOK, Shape, EdgeKept, vars, kernel, setup, failure
  <2> QED
    BY <2>1, <2>2 DEF Inv
<1> QED
  BY <1>1, <1>2, <1>3, <1>4, <1>5 DEF Next

LEMMA InvHolds == Spec => []Inv
  BY InitInv, NextInv, PTL DEF Spec

-----------------------------------------------------------------------------

\* The type invariant, for any watches, names and sizes: in particular the field
\* inotify_token never differs from the token epoll was given, whatever call fails.
THEOREM TypeCorrect == Spec => []TypeOK
<1>1. Inv => TypeOK
  BY DEF Inv
<1> QED
  BY <1>1, InvHolds, PTL

\* "Truncated events at the end of the buffer are ignored" and nothing else:
\* decode_events gives back every whole event of what is queued, with the String
\* made of its own name, wherever the packed stream is cut.
THEOREM WholeEventsDecode == Spec => []TruncationIgnored
<1>1. TypeOK => TruncationIgnored
  <2>1. TypeOK => queue \in Seq(Events)
    BY DEF TypeOK
  <2> QED
    BY <2>1, PrefixesDecode, Zenon DEF TruncationIgnored
<1> QED
  BY <1>1, TypeCorrect, PTL

\* read_events returns every event the kernel queues, the overflow included, once and
\* in order; the only ones missing are those taken by a call that ended in an error.
THEOREM NothingLostSilently == Spec => []NoSilentLoss
<1>1. Inv => NoSilentLoss
  BY DEF Inv
<1> QED
  BY <1>1, InvHolds, PTL

\* "It is safe to use with edge-triggered reactors": no event is left in the queue
\* without a wakeup for it, unless a read failed.
THEOREM EdgesKept == Spec => []EdgeKept
<1>1. Inv => EdgeKept
  BY DEF Inv
<1> QED
  BY <1>1, InvHolds, PTL

=============================================================================
