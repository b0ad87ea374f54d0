---------------------------- MODULE DrainProofs ----------------------------
(* Theorems about Drain, for every limit, chunk size, pipe and buffer.      *)
EXTENDS Drain, TLAPS

-----------------------------------------------------------------------------
(* Sequences of units.                                                      *)

LEMMA LeastOfNats ==
  ASSUME NEW a \in Int, NEW b \in Int
  PROVE  /\ least(a, b) \in Int /\ least(a, b) <= a /\ least(a, b) <= b
         /\ least(a, b) = a \/ least(a, b) = b
BY DEF least

\* Appending n units to a sequence makes it n longer; if it was a prefix of the
\* stream and the units are the next ones it is one again.
LEMMA AppendUnits ==
  ASSUME NEW s \in Seq(Nat), NEW k \in Nat, NEW n \in Nat
  PROVE  /\ s \o Units(k, n) \in Seq(Nat)
         /\ Len(s \o Units(k, n)) = Len(s) + n
         /\ IsPrefix(s) /\ k = Len(s) => IsPrefix(s \o Units(k, n))
<1> DEFINE t == s \o Units(k, n)
<1>1. Units(k, n) \in Seq(Nat) /\ Len(Units(k, n)) = n
  BY DEF Units
<1>2. t \in Seq(Nat) /\ Len(t) = Len(s) + n
  BY <1>1
<1>3. ASSUME IsPrefix(s), k = Len(s), NEW i \in 1..Len(t)
      PROVE  t[i] = i
  <2>1. CASE i <= Len(s)
    BY <1>1, <1>2, <1>3, <2>1 DEF IsPrefix
  <2>2. CASE i > Len(s)
    <3>1. t[i] = Units(k, n)[i - Len(s)] /\ i - Len(s) \in 1..n
      BY <1>1, <1>2, <1>3, <2>2
    <3> QED
      BY <1>3, <3>1 DEF Units
  <2> QED
    BY <1>2, <2>1, <2>2
<1> QED
  BY <1>2, <1>3 DEF IsPrefix

-----------------------------------------------------------------------------
(* Type correctness.                                                        *)

USE DEF Outputs

\* A call that answers leaves the slots and the calls well formed.
LEMMA AnswerKeepsTypes ==
  ASSUME TypeOK, call \in slots, NEW r \in {"true", "false", "err"}, Answer(r)
  PROVE  slots' \subseteq given /\ call' \in slots' \cup {NoCall}
BY DEF TypeOK, Answer

\* The stream of a running call is open.
LEMMA CallIsOpen ==
  ASSUME TypeOK, Reading \/ Writing
  PROVE  call \in slots
BY DEF TypeOK, Reading, Writing, NoCall

\* The type invariant holds for every configuration, so no offset leaves its
\* buffer and a call runs only on a stream that is open.
THEOREM TypeCorrect == Spec => []TypeOK
<1>1. Init => TypeOK
  <2> SUFFICES ASSUME Init PROVE TypeOK
    OBVIOUS
  <2>1. buf \in BOOLEAN
    BY DEF Init
  <2>2. /\ buffer \in [Outputs -> Seq(Nat)] /\ seen \in Seq(Nat)
        /\ pushed \in Seq(Nat)
    BY DEF Init
  <2>3. /\ wrote \in [Outputs -> 0..MaxOut] /\ taken \in [Outputs -> 0..MaxOut]
        /\ off \in 0..StdinLen /\ unread \in 0..PipeCap
    BY LimitAssumption, ChunkAssumption DEF Init
  <2> QED
    BY <2>1, <2>2, <2>3, MayFailAssumption DEF Init, TypeOK
<1>2. TypeOK /\ [Next]_vars => TypeOK'
  <2> SUFFICES ASSUME TypeOK, [Next]_vars PROVE TypeOK'
    OBVIOUS
  <2> USE LimitAssumption, ChunkAssumption DEF TypeOK
  <2>1. ASSUME NEW s \in Streams, Call(s) PROVE TypeOK'
    BY <2>1 DEF Call, config, output, input
  <2>2. CASE ReadStore
    <3>1. PICK n \in 1..least(ReadChunk, Room(call)) :
            /\ taken[call] + n <= wrote[call]
            /\ buffer' = [buffer EXCEPT ![call] = @ \o Units(taken[call], n)]
            /\ taken' = [taken EXCEPT ![call] = @ + n]
            /\ seen' = seen \o Units(taken[call], n) \/ seen' = seen
      BY <2>2 DEF ReadStore
    <3>2. call \in Outputs /\ n \in Nat
      <4>1. call \in Outputs /\ Room(call) \in Int
        BY <2>2 DEF ReadStore, Reading, Room
      <4> QED
        BY <4>1, LeastOfNats
    <3>3. /\ taken[call] \in Nat /\ taken[call] + n \in 0..MaxOut
          /\ buffer[call] \in Seq(Nat)
      BY <3>1, <3>2
    <3>4. /\ buffer[call] \o Units(taken[call], n) \in Seq(Nat)
          /\ seen \o Units(taken[call], n) \in Seq(Nat)
      BY <3>2, <3>3, AppendUnits
    <3>5. buffer' \in [Outputs -> Seq(Nat)] /\ seen' \in Seq(Nat)
      BY <3>1, <3>2, <3>4
    <3>6. taken' \in [Outputs -> 0..MaxOut]
      BY <3>1, <3>2, <3>3
    <3> QED
      BY <2>2, <3>5, <3>6, CallIsOpen, AnswerKeepsTypes
         DEF ReadStore, Continue, config, input
  <2>3. CASE ReadDrop
    BY <2>3 DEF ReadDrop, Reading, Continue, config, output, input
  <2>4. CASE ReadEof \/ ReadWouldBlock \/ ReadError
    BY <2>4, CallIsOpen, AnswerKeepsTypes
       DEF ReadEof, ReadWouldBlock, ReadError, config, output, input
  <2>5. CASE WriteSome
    <3>1. PICK n \in 1..least(WriteChunk, StdinLen - off) :
            /\ unread + n <= PipeCap /\ pushed' = pushed \o Units(off, n)
            /\ unread' = unread + n /\ off' = off + n
      BY <2>5 DEF WriteSome
    <3>2. n \in Nat /\ off + n <= StdinLen
      <4>1. n \in 1..least(WriteChunk, StdinLen - off)
        OBVIOUS
      <4>2. /\ least(WriteChunk, StdinLen - off) \in Int
            /\ least(WriteChunk, StdinLen - off) <= StdinLen - off
        BY LeastOfNats
      <4> QED
        BY <4>1, <4>2
    <3>3. pushed' \in Seq(Nat)
      BY <3>1, <3>2, AppendUnits
    <3> QED
      BY <2>5, <3>1, <3>2, <3>3 DEF WriteSome, Continue, config, output
  <2>6. CASE WriteWouldBlock
    BY <2>6, CallIsOpen, AnswerKeepsTypes
       DEF WriteWouldBlock, config, output, input
  <2>7. CASE WriteDone \/ WriteError
    BY <2>7, CallIsOpen, AnswerKeepsTypes
       DEF WriteDone, WriteError, config, output
  <2>8. ASSUME NEW s \in Outputs, ChildWrites(s) PROVE TypeOK'
    BY <2>8 DEF ChildWrites, parent, config, output
  <2>9. CASE ChildReads
    BY <2>9 DEF ChildReads, parent, config, output
  <2>10. ASSUME NEW s \in Streams, ChildCloses(s) PROVE TypeOK'
    BY <2>10 DEF ChildCloses, parent, config, output
  <2>11. CASE UNCHANGED vars
    BY <2>11 DEF vars, config, output, input
  <2> QED
    BY <2>1, <2>2, <2>3, <2>4, <2>5, <2>6, <2>7, <2>8, <2>9, <2>10, <2>11
       DEF Next, Read, Write, Child
<1> QED
  BY <1>1, <1>2, PTL DEF Spec

-----------------------------------------------------------------------------
(* The captured output and the written input.                               *)

\* What is in memory is a prefix of what went through the pipes; the parts
\* support each other: the positions a read appends follow from the number of
\* units taken.
Faithful ==
  /\ CapturedPrefix /\ DoneMeansTaken /\ EarlyExitSeesAll /\ StdinInOrder
  /\ hit => "stdout" \notin slots
  /\ "stdin" \in slots => buf \/ failing

LEMMA FaithfulInit == Init => Faithful
<1> SUFFICES ASSUME Init PROVE Faithful
  OBVIOUS
<1>1. "stdin" \in slots => buf
  BY DEF Init
<1>2. CapturedPrefix /\ EarlyExitSeesAll /\ StdinInOrder
  BY LimitAssumption
     DEF Init, CapturedPrefix, EarlyExitSeesAll, StdinInOrder, IsPrefix, least
<1>3. DoneMeansTaken
  BY DEF Init, DoneMeansTaken
<1> QED
  BY <1>1, <1>2, <1>3 DEF Init, Faithful

LEMMA FaithfulReadStore ==
  ASSUME TypeOK, Faithful, ReadStore PROVE Faithful'
<1> USE LimitAssumption, ChunkAssumption
<1>1. call \in Outputs /\ call \in slots
  BY CallIsOpen DEF ReadStore, Reading
<1>2. /\ buffer[call] \in Seq(Nat) /\ Len(buffer[call]) \in Nat
      /\ taken[call] \in Nat /\ wrote[call] \in Nat
  BY <1>1 DEF TypeOK
<1>3. Len(buffer[call]) < Limit /\ taken[call] = Len(buffer[call])
  <2>1. Len(buffer[call]) = least(taken[call], Limit)
    BY <1>1 DEF Faithful, CapturedPrefix
  <2> QED
    BY <1>2, <2>1 DEF ReadStore, Room, least
<1>4. PICK n \in 1..least(ReadChunk, Room(call)) :
        /\ taken[call] + n <= wrote[call]
        /\ buffer' = [buffer EXCEPT ![call] = @ \o Units(taken[call], n)]
        /\ taken' = [taken EXCEPT ![call] = @ + n]
        /\ IF call = "stdout" /\ early
             THEN /\ seen' = seen \o Units(taken[call], n)
                  /\ \/ hit' = TRUE /\ Answer("true")
                     \/ Continue /\ UNCHANGED hit
             ELSE Continue /\ UNCHANGED <<seen, hit>>
  BY DEF ReadStore
<1>5. n \in Nat /\ Len(buffer[call]) + n <= Limit
  <2>1. Room(call) \in Int
    BY <1>2 DEF Room
  <2>2. /\ least(ReadChunk, Room(call)) \in Int
        /\ least(ReadChunk, Room(call)) <= Room(call)
    BY <2>1, LeastOfNats
  <2>3. n \in Nat /\ n <= Room(call)
    BY <2>1, <2>2
  <2> QED
    BY <1>2, <2>3 DEF Room
<1>6. CapturedPrefix'
  <2>1. IsPrefix(buffer[call])
    BY <1>1 DEF Faithful, CapturedPrefix
  <2>2. /\ IsPrefix(buffer[call] \o Units(taken[call], n))
        /\ Len(buffer[call] \o Units(taken[call], n)) = taken[call] + n
    <3>1. IsPrefix(buffer[call]) /\ taken[call] = Len(buffer[call])
            => IsPrefix(buffer[call] \o Units(taken[call], n))
      BY <1>2, <1>5, AppendUnits
    <3>2. Len(buffer[call] \o Units(taken[call], n)) = Len(buffer[call]) + n
      BY <1>2, <1>5, AppendUnits
    <3> QED
      BY <1>3, <2>1, <3>1, <3>2
  <2>3. buffer'[call] = buffer[call] \o Units(taken[call], n)
    BY <1>1, <1>4 DEF TypeOK
  <2>4. taken'[call] = taken[call] + n
    BY <1>1, <1>4 DEF TypeOK
  <2>5. least(taken[call] + n, Limit) = taken[call] + n
    BY <1>2, <1>3, <1>5 DEF least
  <2>6. ASSUME NEW s \in Outputs, s # call
        PROVE  buffer'[s] = buffer[s] /\ taken'[s] = taken[s]
    BY <1>4, <2>6 DEF TypeOK
  <2>7. ASSUME NEW s \in Outputs
        PROVE  IsPrefix(buffer'[s]) /\ Len(buffer'[s]) = least(taken'[s], Limit)
    <3>1. CASE s = call
      BY <2>2, <2>3, <2>4, <2>5, <3>1
    <3>2. CASE s # call
      BY <2>6, <3>2 DEF Faithful, CapturedPrefix
    <3> QED
      BY <3>1, <3>2
  <2> QED
    BY <2>7 DEF CapturedPrefix, IsPrefix
<1>7. EarlyExitSeesAll'
  BY <1>1, <1>4 DEF ReadStore, config, Faithful, EarlyExitSeesAll, TypeOK
<1>8. /\ \A s \in Outputs \ {call} : taken'[s] = taken[s]
      /\ UNCHANGED <<wrote, far, given, pushed, off>>
  BY <1>1, <1>4 DEF ReadStore, config, input, Faithful, TypeOK
<1>9. \/ slots' = slots /\ hit' = hit
      \/ slots' = slots \ {"stdout"} /\ hit' = TRUE /\ call = "stdout"
  BY <1>4 DEF Answer, Continue
<1>10. DoneMeansTaken' /\ (hit' => "stdout" \notin slots')
  BY <1>1, <1>8, <1>9 DEF ReadStore, config, Faithful, DoneMeansTaken
<1>11. StdinInOrder' /\ ("stdin" \in slots' => buf' \/ failing')
  BY <1>8, <1>9 DEF ReadStore, config, input, Faithful, StdinInOrder, IsPrefix
<1> QED
  BY <1>6, <1>7, <1>10, <1>11 DEF Faithful

LEMMA FaithfulWriteSome ==
  ASSUME TypeOK, Faithful, WriteSome PROVE Faithful'
<1> USE LimitAssumption, ChunkAssumption
<1>1. PICK n \in 1..least(WriteChunk, StdinLen - off) :
        pushed' = pushed \o Units(off, n) /\ off' = off + n
  BY DEF WriteSome
<1>2. n \in Nat /\ off \in Nat /\ pushed \in Seq(Nat)
  <2>1. off \in Nat /\ pushed \in Seq(Nat)
    BY DEF TypeOK
  <2>2. least(WriteChunk, StdinLen - off) \in Int
    BY <2>1, LeastOfNats
  <2> QED
    BY <2>1, <2>2
<1>3. IsPrefix(pushed') /\ Len(pushed') = off'
  <2>1. IsPrefix(pushed) /\ Len(pushed) = off
    BY DEF Faithful, StdinInOrder
  <2>2. IsPrefix(pushed) /\ off = Len(pushed)
          => IsPrefix(pushed \o Units(off, n))
    BY <1>2, AppendUnits
  <2>3. Len(pushed \o Units(off, n)) = Len(pushed) + n
    BY <1>2, AppendUnits
  <2> QED
    BY <1>1, <1>2, <2>1, <2>2, <2>3
<1>4. StdinInOrder'
  BY <1>3 DEF StdinInOrder, IsPrefix
<1>5. CapturedPrefix' /\ EarlyExitSeesAll'
  BY DEF WriteSome, Continue, config, output, Faithful, CapturedPrefix,
         IsPrefix, EarlyExitSeesAll
<1>6. "stdin" \in slots
  BY CallIsOpen DEF WriteSome, Writing
<1>7. DoneMeansTaken'
  BY <1>6 DEF WriteSome, Continue, config, output, Faithful, DoneMeansTaken
<1> QED
  BY <1>4, <1>5, <1>7 DEF WriteSome, Continue, config, output, Faithful

LEMMA FaithfulStep == TypeOK /\ Faithful /\ [Next]_vars => Faithful'
<1> SUFFICES ASSUME TypeOK, Faithful, [Next]_vars PROVE Faithful'
  OBVIOUS
<1>1. ASSUME UNCHANGED <<config, buffer, seen, hit, off, pushed, taken>>,
             slots' \subseteq slots,
             \A s \in Outputs \ slots' : wrote[s] = wrote'[s],
             \A s \in (slots \cap Outputs) \ slots' :
               s \notin far' /\ taken[s] = wrote[s],
             far' \subseteq far,
             "stdin" \in slots \ slots' =>
               off = StdinLen \/ "stdin" \notin far' \/ failing,
             "stdin" \in slots' => buf' = buf \/ failing
      PROVE  Faithful'
  <2>1. CapturedPrefix' /\ StdinInOrder' /\ EarlyExitSeesAll'
    BY <1>1 DEF Faithful, CapturedPrefix, StdinInOrder, EarlyExitSeesAll,
                IsPrefix, config
  <2>2. /\ hit => "stdout" \notin slots
        /\ "stdin" \in slots => buf \/ failing
        /\ DoneMeansTaken
    BY DEF Faithful
  <2>3. \A s \in (given \cap Outputs)' \ slots' :
          \/ s \notin far' /\ taken'[s] = wrote'[s]
          \/ s = "stdout" /\ hit'
    BY <1>1, <2>2 DEF DoneMeansTaken, config
  <2>4. "stdin" \in given' \ slots' =>
          off' = StdinLen \/ "stdin" \notin far' \/ failing'
    BY <1>1, <2>2 DEF DoneMeansTaken, config
  <2>5. (hit => "stdout" \notin slots)'
    BY <1>1, <2>2
  <2>6. ("stdin" \in slots => buf \/ failing)'
    BY <1>1, <2>2 DEF config
  <2>7. DoneMeansTaken'
    BY <2>3, <2>4 DEF DoneMeansTaken
  <2> QED
    BY <2>1, <2>5, <2>6, <2>7 DEF Faithful
<1>2. CASE ReadDrop
  <2> USE LimitAssumption, ChunkAssumption
  <2>1. call \in Outputs /\ call \in slots
    BY <1>2, CallIsOpen DEF ReadDrop, Reading
  <2>2. /\ Len(buffer[call]) = Limit
        /\ taken[call] \in Nat
    BY <1>2, <2>1 DEF ReadDrop, Room, TypeOK
  <2>3. PICK n \in 1..DropChunk : /\ taken[call] + n <= wrote[call]
                                  /\ taken' = [taken EXCEPT ![call] = @ + n]
    BY <1>2 DEF ReadDrop
  <2>4. CapturedPrefix'
    <3>1. least(taken[call], Limit) = Limit
      BY <2>1, <2>2 DEF Faithful, CapturedPrefix
    <3>2. least(taken[call] + n, Limit) = Limit
      BY <2>2, <3>1 DEF least
    <3>3. \A s \in Outputs : least(taken'[s], Limit) = least(taken[s], Limit)
      BY <2>1, <2>3, <3>1, <3>2 DEF TypeOK
    <3> QED
      BY <1>2, <3>3 DEF ReadDrop, output, Faithful, CapturedPrefix, IsPrefix
  <2> QED
    BY <1>2, <2>1, <2>3, <2>4
       DEF ReadDrop, Continue, config, output, input, Faithful, DoneMeansTaken,
           EarlyExitSeesAll, StdinInOrder, IsPrefix, TypeOK
<1>3. ASSUME NEW s \in Streams, Call(s) PROVE Faithful'
  BY <1>1, <1>3 DEF Call, config, output, input, TypeOK
<1>4. CASE ReadEof \/ ReadWouldBlock \/ ReadError
  BY <1>1, <1>4 DEF ReadEof, ReadWouldBlock, ReadError, Reading, Answer,
                    config, output, input, TypeOK
<1>5. CASE WriteWouldBlock \/ WriteDone \/ WriteError
  <2>1. CASE WriteDone
    <3>1. "stdin" \in slots
      BY <2>1, CallIsOpen DEF WriteDone, Writing
    <3>2. off = StdinLen \/ "stdin" \notin far \/ failing
      BY <2>1, <3>1, LimitAssumption
         DEF WriteDone, Pending, Faithful, TypeOK
    <3> QED
      BY <1>1, <2>1, <3>2
         DEF WriteDone, Writing, Answer, config, output, TypeOK
  <2>2. CASE WriteWouldBlock \/ WriteError
    BY <1>1, <2>2 DEF WriteWouldBlock, WriteError, Writing, Answer, config,
                      output, input, TypeOK
  <2> QED
    BY <1>5, <2>1, <2>2
<1>6. ASSUME NEW s \in Outputs, ChildWrites(s) PROVE Faithful'
  BY <1>1, <1>6 DEF ChildWrites, parent, config, output, TypeOK
<1>7. ASSUME ChildReads \/ \E s \in Streams : ChildCloses(s) PROVE Faithful'
  BY <1>1, <1>7 DEF ChildReads, ChildCloses, parent, config, output, TypeOK
<1>8. CASE UNCHANGED vars
  BY <1>1, <1>8 DEF vars, config, output, input, TypeOK
<1> QED
  BY <1>2, <1>3, <1>4, <1>5, <1>6, <1>7, <1>8, FaithfulReadStore,
     FaithfulWriteSome
     DEF Next, Read, Write, Child

\* Output.stdout and Output.stderr are prefixes of what the child wrote, cut
\* only by the limit, whatever the chunk sizes and interleavings.
THEOREM CaptureIsPrefix == Spec => []CapturedPrefix
<1>1. Faithful => CapturedPrefix
  BY DEF Faithful
<1> QED
  BY <1>1, FaithfulInit, FaithfulStep, TypeCorrect, PTL DEF Spec

\* A stream is given up only when nothing is left to move through it: output when
\* all that was written was taken and no writer is left, stdin when it was written
\* in full, unless early_exit, a reader that went away or an error ended it.
THEOREM NothingGivenUpEarly == Spec => []DoneMeansTaken
<1>1. Faithful => DoneMeansTaken
  BY DEF Faithful
<1> QED
  BY <1>1, FaithfulInit, FaithfulStep, TypeCorrect, PTL DEF Spec

\* early_exit is shown every captured unit of stdout, once and in order.
THEOREM EarlyExitMissesNothing == Spec => []EarlyExitSeesAll
<1>1. Faithful => EarlyExitSeesAll
  BY DEF Faithful
<1> QED
  BY <1>1, FaithfulInit, FaithfulStep, TypeCorrect, PTL DEF Spec

\* What has been written to the stdin pipe is the beginning of the buffer.
THEOREM StdinIsPrefix == Spec => []StdinInOrder
<1>1. Faithful => StdinInOrder
  BY DEF Faithful
<1> QED
  BY <1>1, FaithfulInit, FaithfulStep, TypeCorrect, PTL DEF Spec

-----------------------------------------------------------------------------
(* Refinement.                                                              *)

\* DrainState keeps the promise of Capture: each step of a handler or of the
\* child is a step of Capture or leaves its variables alone.
THEOREM DrainCaptures == Spec => Captures
<1> USE LimitAssumption, ChunkAssumption
<1>1. Init => Promise!Init
  BY DEF Init, Promise!Init
<1>2. TypeOK /\ Faithful /\ [Next]_vars => [Promise!Next]_Promise!vars
  <2> SUFFICES ASSUME TypeOK, Faithful, [Next]_vars
               PROVE  Promise!Next \/ UNCHANGED Promise!vars
    OBVIOUS
  <2>1. CASE ReadStore
    <3>1. call \in Outputs /\ call \in slots
      BY <2>1, CallIsOpen DEF ReadStore, Reading
    <3>2. PICK n \in 1..least(ReadChunk, Room(call)) :
            /\ taken[call] + n <= wrote[call]
            /\ buffer' = [buffer EXCEPT ![call] = @ \o Units(taken[call], n)]
            /\ taken' = [taken EXCEPT ![call] = @ + n]
            /\ Answer("true") \/ Continue
      BY <2>1 DEF ReadStore
    <3>3. n \in 1..(wrote[call] - taken[call]) /\ Len(buffer[call]) + n <= Limit
      <4>1. /\ Len(buffer[call]) \in Nat
            /\ taken[call] \in Nat /\ wrote[call] \in Nat
        BY <3>1 DEF TypeOK
      <4>2. Room(call) \in Int
        BY <4>1 DEF Room
      <4>3. /\ least(ReadChunk, Room(call)) \in Int
            /\ least(ReadChunk, Room(call)) <= Room(call)
        BY <4>2, LeastOfNats
      <4>4. n \in Nat \ {0} /\ n <= Room(call)
        BY <4>2, <4>3
      <4> QED
        BY <3>2, <4>1, <4>4 DEF Room
    <3>4. Promise!Keep(call, n)
      BY <3>2, <3>3 DEF Promise!Keep, Units
    <3>5. /\ wrote' = wrote
          /\ \/ (slots \cap Outputs)' = (slots \cap Outputs) \ {call}
             \/ (slots \cap Outputs)' = slots \cap Outputs
      BY <2>1, <3>2 DEF ReadStore, Answer, Continue
    <3>6. \E cut \in BOOLEAN : Promise!Take(call, n, cut)
      BY <3>1, <3>2, <3>4, <3>5 DEF Promise!Take
    <3> QED
      BY <3>1, <3>3, <3>6 DEF Promise!Next
  <2>2. CASE ReadDrop
    <3>1. call \in Outputs /\ call \in slots
      BY <2>2, CallIsOpen DEF ReadDrop, Reading
    <3>2. PICK n \in 1..DropChunk : /\ taken[call] + n <= wrote[call]
                                    /\ taken' = [taken EXCEPT ![call] = @ + n]
      BY <2>2 DEF ReadDrop
    <3>3. n \in 1..(wrote[call] - taken[call]) /\ Len(buffer[call]) = Limit
      BY <2>2, <3>1, <3>2 DEF ReadDrop, Room, TypeOK
    <3>4. Promise!Take(call, n, FALSE)
      BY <2>2, <3>1, <3>2, <3>3
         DEF ReadDrop, Continue, output, Promise!Take, Promise!Drop
    <3> QED
      BY <3>1, <3>3, <3>4 DEF Promise!Next
  <2>3. CASE ReadEof
    <3>1. call \in Outputs /\ call \in slots
      BY <2>3, CallIsOpen DEF ReadEof, Reading
    <3>2. Promise!Close(call)
      BY <2>3, <3>1 DEF ReadEof, Answer, output, Promise!Close
    <3> QED
      BY <3>1, <3>2 DEF Promise!Next
  <2>4. ASSUME NEW s \in Outputs, ChildWrites(s) PROVE Promise!Next
    <3>1. Promise!Write(s)
      BY <2>4 DEF ChildWrites, parent, output, Promise!Write
    <3> QED
      BY <3>1 DEF Promise!Next
  <2>5. CASE ReadWouldBlock \/ ReadError
    BY <2>5 DEF ReadWouldBlock, ReadError, Answer, output, Promise!vars
  <2>6. CASE Write
    BY <2>6 DEF Write, WriteSome, WriteWouldBlock, WriteDone, WriteError,
                Writing, Answer, Continue, output, Promise!vars
  <2>7. CASE UNCHANGED vars \/ ChildReads
    BY <2>7 DEF vars, ChildReads, parent, output, Promise!vars
  <2>8. ASSUME NEW s \in Streams, Call(s) \/ ChildCloses(s)
        PROVE  UNCHANGED Promise!vars
    BY <2>8 DEF Call, ChildCloses, parent, output, Promise!vars
  <2> QED
    BY <2>1, <2>2, <2>3, <2>4, <2>5, <2>6, <2>7, <2>8 DEF Next, Read, Child
<1> QED
  BY <1>1, <1>2, TypeCorrect, FaithfulInit, FaithfulStep, PTL
     DEF Spec, Captures, Promise!Spec

-----------------------------------------------------------------------------
(* The handlers of WaitLoop.                                                *)

\* WaitLoop has the same handlers without data: a pipe is a number of units, the
\* last write and the answer are one step.  The rest of its state stands still.
Moving == call # NoCall /\ ~(call = "stdin" /\ off = StdinLen)
LoopPc == IF Moving THEN "dispatch" ELSE "top"
LoopCur == IF Moving THEN call ELSE "no stream"
LoopBatch == IF Moving THEN {call} ELSE {}
LoopSlots == IF call = "stdin" /\ off = StdinLen THEN slots \ {"stdin"} ELSE slots
LoopPend == [s \in Streams |-> IF s = "stdin" THEN unread ELSE wrote[s] - taken[s]]
LoopEnds == [s \in Streams |-> IF s \in far THEN {"child"} ELSE {}]

Loop == INSTANCE WaitLoop WITH
  Child <- "child", Kin <- {}, Options <- {}, MayFork <- {}, SelectedBackend <- "PosixSpawn",
  Deadline <- 0, Grace <- 0, Faults <- {}, opts <- [early |-> early],
  pc <- LoopPc, cur <- LoopCur, batch <- LoopBatch, slots <- LoopSlots, edge <- {},
  to_write <- StdinLen - off, pend <- LoopPend, ends <- LoopEnds,
  status_raw <- "running", kill_state <- "None", timed_out <- FALSE,
  poll_timeout <- "forever", proc <- "live", group <- "parent", sig <- "none",
  fate <- "running", elapsed <- 0, sent <- <<>>

\* Without errors every step of read_from_fd and write_to_fd is one that WaitLoop
\* gives its handlers: what the loop relies on is what DrainState does.
HandlersAgree ==
  [][ ~failing /\ (Read \/ Write) => Loop!Handler \/ UNCHANGED Loop!vars ]_vars

\* What the mapping says of a call before and after its last step.
LEMMA CallMaps ==
  ASSUME Moving
  PROVE  LoopPc = "dispatch" /\ LoopCur = call /\ LoopBatch = {call} /\ LoopSlots = slots
BY DEF Moving, LoopPc, LoopCur, LoopBatch, LoopSlots

LEMMA AnswerMaps ==
  ASSUME call' = NoCall
  PROVE  LoopPc' = "top" /\ LoopCur' = "no stream" /\ LoopBatch' = {} /\ LoopSlots' = slots'
BY DEF Moving, NoCall, LoopPc, LoopCur, LoopBatch, LoopSlots

LEMMA CallStays ==
  ASSUME Moving, call' = call, slots' = slots, call # "stdin" \/ off' # StdinLen
  PROVE  UNCHANGED <<LoopPc, LoopCur, LoopBatch, LoopSlots>>
BY DEF Moving, LoopPc, LoopCur, LoopBatch, LoopSlots

LEMMA ReadsMap ==
  ASSUME TypeOK, Reading, ReadStore \/ ReadDrop
  PROVE  Loop!ReadData
<1>1. call \in Outputs /\ call \in slots /\ call # "stdin" /\ call # NoCall /\ call \in Streams
  BY CallIsOpen DEF Reading, NoCall, Streams
<1>2. PICK n \in Nat :
        n > 0 /\ taken[call] + n <= wrote[call] /\ taken' = [taken EXCEPT ![call] = @ + n]
  <2>1. CASE ReadStore
    <3>1. PICK n \in 1..least(ReadChunk, Room(call)) :
            taken[call] + n <= wrote[call] /\ taken' = [taken EXCEPT ![call] = @ + n]
      BY <2>1 DEF ReadStore
    <3>2. least(ReadChunk, Room(call)) \in Int
      BY <1>1, ChunkAssumption, LimitAssumption DEF TypeOK, Room, least
    <3>3. n \in Nat /\ n > 0
      BY <3>2
    <3> QED
      BY <3>1, <3>3
  <2>2. CASE ReadDrop
    <3>1. PICK n \in 1..DropChunk :
            taken[call] + n <= wrote[call] /\ taken' = [taken EXCEPT ![call] = @ + n]
      BY <2>2 DEF ReadDrop
    <3>2. n \in Nat /\ n > 0
      BY ChunkAssumption
    <3> QED
      BY <3>1, <3>2
  <2> QED
    BY <2>1, <2>2
<1>3. /\ UNCHANGED <<wrote, unread, off, far, early>>
      /\ \/ call' = call /\ slots' = slots /\ hit' = hit
         \/ /\ call = "stdout" /\ early /\ hit' = TRUE
            /\ call' = NoCall /\ slots' = slots \ {call}
  BY DEF ReadStore, ReadDrop, Answer, Continue, config, input, output
<1>4. /\ wrote[call] \in Nat /\ taken[call] \in Nat /\ taken'[call] = taken[call] + n
      /\ \A s \in Outputs : s # call => taken'[s] = taken[s]
  BY <1>1, <1>2 DEF TypeOK
<1>5. n \in 1..LoopPend[call] /\ LoopPend[call] > 0
  BY <1>1, <1>2, <1>4 DEF LoopPend
<1>6. LoopPend' = [LoopPend EXCEPT ![call] = @ - n]
  <2>1. ASSUME NEW s \in Streams
        PROVE  LoopPend'[s] = IF s = call THEN LoopPend[s] - n ELSE LoopPend[s]
    BY <1>1, <1>3, <1>4 DEF LoopPend, Streams
  <2> QED
    BY <1>1, <2>1 DEF LoopPend
<1>7. Moving /\ LoopEnds' = LoopEnds
  BY <1>1, <1>3 DEF Moving, LoopEnds
<1>8. CASE call' = call /\ slots' = slots /\ hit' = hit
  <2>1. UNCHANGED <<LoopPc, LoopCur, LoopBatch, LoopSlots>>
    BY <1>1, <1>7, <1>8, CallStays
  <2> QED
    BY <1>1, <1>3, <1>5, <1>6, <1>7, <1>8, <2>1, CallMaps
       DEF Loop!ReadData, Loop!Outputs, Loop!events, Loop!thread, Loop!procs
<1>9. CASE /\ call = "stdout" /\ early /\ hit' = TRUE
           /\ call' = NoCall /\ slots' = slots \ {call}
  BY <1>1, <1>3, <1>5, <1>6, <1>7, <1>9, CallMaps, AnswerMaps
     DEF Loop!ReadData, Loop!Outputs, Loop!DropSlot, Loop!EventHandled,
         Loop!NoStream, Loop!thread, Loop!procs
<1> QED
  BY <1>3, <1>8, <1>9

LEMMA ReadEndsMap ==
  ASSUME TypeOK, ReadEof \/ ReadWouldBlock
  PROVE  Loop!ReadEof \/ Loop!ReadWouldBlock
<1>1. call \in Outputs /\ call # "stdin" /\ call # NoCall /\ call \in Streams
  BY DEF ReadEof, ReadWouldBlock, Reading, NoCall, Streams
<1>2. /\ call' = NoCall /\ UNCHANGED <<early, hit, off, wrote, taken, unread, far>>
      /\ taken[call] = wrote[call] /\ wrote[call] \in Nat
  BY <1>1 DEF ReadEof, ReadWouldBlock, Answer, TypeOK, config, input, output
<1>3. LoopPend[call] = 0 /\ UNCHANGED <<LoopPend, LoopEnds>>
  BY <1>1, <1>2 DEF LoopPend, LoopEnds
<1>4. /\ LoopPc = "dispatch" /\ LoopCur = call /\ LoopBatch = {call} /\ LoopSlots = slots
      /\ LoopPc' = "top" /\ LoopCur' = "no stream" /\ LoopBatch' = {} /\ LoopSlots' = slots'
  BY <1>1, <1>2, CallMaps, AnswerMaps DEF Moving
<1>5. CASE ReadEof
  <2>1. LoopEnds[call] = {} /\ slots' = slots \ {call}
    BY <1>1, <1>5 DEF ReadEof, Answer, LoopEnds
  <2>2. Loop!ReadEof
    BY <1>1, <1>2, <1>3, <1>4, <2>1 DEF Loop!ReadEof, Loop!Outputs, Loop!DropSlot,
       Loop!EventHandled, Loop!NoStream, Loop!thread, Loop!pipes, Loop!procs
  <2> QED
    BY <2>2
<1>6. CASE ReadWouldBlock
  <2>1. LoopEnds[call] # {} /\ slots' = slots
    BY <1>1, <1>6 DEF ReadWouldBlock, Answer, LoopEnds
  <2>2. Loop!ReadWouldBlock
    BY <1>1, <1>2, <1>3, <1>4, <2>1 DEF Loop!ReadWouldBlock, Loop!Outputs,
       Loop!EventHandled, Loop!NoStream, Loop!thread, Loop!pipes, Loop!procs
  <2> QED
    BY <2>2
<1> QED
  BY <1>5, <1>6

LEMMA WritesMap ==
  ASSUME TypeOK, Faithful, ~failing, Write
  PROVE  Loop!Handler \/ UNCHANGED Loop!vars
<1>1. /\ call = "stdin" /\ call # NoCall /\ call \in Streams /\ "stdin" \in slots /\ buf
      /\ off \in Nat /\ StdinLen \in Nat /\ off <= StdinLen
      /\ unread \in Nat /\ PipeCap \in Nat /\ unread <= PipeCap
  <2>1. Writing
    BY ZenonT(30) DEF Write, WriteSome, WriteWouldBlock, WriteDone, WriteError
  <2>2. call = "stdin" /\ call # NoCall /\ call \in Streams /\ "stdin" \in slots
    BY <2>1, CallIsOpen DEF Writing, NoCall, Streams
  <2>3. buf
    BY <2>2, Zenon DEF Faithful
  <2>4. /\ off \in Nat /\ StdinLen \in Nat /\ off <= StdinLen
        /\ unread \in Nat /\ PipeCap \in Nat /\ unread <= PipeCap
    BY LimitAssumption, ChunkAssumption DEF TypeOK
  <2> QED
    BY <2>2, <2>3, <2>4, Zenon
<1>2. UNCHANGED <<early, hit, wrote, taken, far, LoopEnds>>
  BY DEF Write, WriteSome, WriteWouldBlock, WriteDone, WriteError, config, output, LoopEnds
<1>3. unread' = unread => LoopPend' = LoopPend
  BY <1>2 DEF LoopPend
<1>4. CASE off = StdinLen
  <2>1. ~Pending
    BY <1>1, <1>4 DEF Pending
  <2>2. WriteDone
    BY <2>1, Zenon DEF Write, WriteSome, WriteWouldBlock, WriteError
  <2>3. call' = NoCall /\ slots' = slots \ {"stdin"} /\ UNCHANGED <<off, unread>>
    BY <1>1, <2>2 DEF WriteDone, Answer
  <2>4. UNCHANGED <<LoopPc, LoopCur, LoopBatch, LoopSlots>>
    BY <1>1, <1>4, <2>3, AnswerMaps DEF Moving, LoopPc, LoopCur, LoopBatch, LoopSlots
  <2> QED
    BY <1>2, <1>3, <2>3, <2>4
       DEF Loop!vars, Loop!thread, Loop!events, Loop!pipes, Loop!procs
<1>5. CASE off # StdinLen
  <2>1. /\ StdinLen - off > 0 /\ LoopPend["stdin"] = unread
        /\ LoopEnds["stdin"] # {} <=> "stdin" \in far
    BY <1>1, <1>5 DEF LoopPend, LoopEnds
  <2>2. LoopPc = "dispatch" /\ LoopCur = "stdin" /\ LoopBatch = {"stdin"} /\ LoopSlots = slots
    BY <1>1, <1>5, CallMaps DEF Moving
  <2>3. CASE WriteSome
    <3>1. PICK n \in 1..least(WriteChunk, StdinLen - off) :
            unread + n <= PipeCap /\ unread' = unread + n /\ off' = off + n
      BY <2>3 DEF WriteSome
    <3>2. n \in Nat /\ n \in 1..(StdinLen - off)
      <4>1. /\ least(WriteChunk, StdinLen - off) \in Int
            /\ least(WriteChunk, StdinLen - off) <= StdinLen - off
        BY <1>1, ChunkAssumption, LeastOfNats
      <4> QED
        BY <1>1, <4>1
    <3>3. "stdin" \in far /\ call' = call /\ slots' = slots
      BY <2>3 DEF WriteSome, Continue
    <3>4. StdinLen - off' = (StdinLen - off) - n /\ (off' = StdinLen <=> n = StdinLen - off)
      BY <1>1, <3>1, <3>2
    <3>5. LoopPend' = [LoopPend EXCEPT !["stdin"] = @ + n]
      <4>1. ASSUME NEW s \in Streams
            PROVE  LoopPend'[s] = IF s = "stdin" THEN LoopPend[s] + n ELSE LoopPend[s]
        BY <1>2, <3>1 DEF LoopPend
      <4> QED
        BY <4>1 DEF LoopPend
    <3>6. CASE n = StdinLen - off
      <4>1. /\ LoopPc' = "top" /\ LoopCur' = "no stream" /\ LoopBatch' = {}
            /\ LoopSlots' = slots \ {"stdin"}
        BY <1>1, <3>3, <3>4, <3>6 DEF Moving, LoopPc, LoopCur, LoopBatch, LoopSlots
      <4>2. Loop!WriteData
        BY <1>2, <2>1, <2>2, <3>1, <3>2, <3>3, <3>4, <3>5, <3>6, <4>1
           DEF Loop!WriteData, Loop!DropSlot, Loop!EventHandled, Loop!NoStream,
               Loop!thread, Loop!procs
      <4> QED
        BY <4>2 DEF Loop!Handler
    <3>7. CASE n # StdinLen - off
      <4>1. UNCHANGED <<LoopPc, LoopCur, LoopBatch, LoopSlots>>
        BY <1>1, <1>5, <3>3, <3>4, <3>7, CallStays DEF Moving
      <4>2. Loop!WriteData
        BY <1>2, <2>1, <2>2, <3>1, <3>2, <3>3, <3>4, <3>5, <3>7, <4>1
           DEF Loop!WriteData, Loop!thread, Loop!procs
      <4> QED
        BY <4>2 DEF Loop!Handler
    <3> QED
      BY <3>6, <3>7
  <2>4. CASE WriteWouldBlock
    <3>1. /\ "stdin" \in far /\ unread = PipeCap /\ call' = NoCall /\ slots' = slots
          /\ UNCHANGED <<off, unread>>
      BY <2>4 DEF WriteWouldBlock, Answer, input
    <3>2. Loop!WriteWouldBlock
      BY <1>2, <1>3, <2>1, <2>2, <3>1, AnswerMaps DEF Loop!WriteWouldBlock,
         Loop!EventHandled, Loop!NoStream, Loop!thread, Loop!pipes, Loop!procs
    <3> QED
      BY <3>2 DEF Loop!Handler
  <2>5. CASE WriteDone
    <3>1. /\ "stdin" \notin far /\ call' = NoCall /\ slots' = slots \ {"stdin"}
          /\ UNCHANGED <<off, unread>>
      BY <1>1, <1>5, <2>5 DEF WriteDone, Pending, Answer
    <3>2. Loop!WriteDone
      BY <1>2, <1>3, <2>1, <2>2, <3>1, AnswerMaps DEF Loop!WriteDone, Loop!DropSlot,
         Loop!EventHandled, Loop!NoStream, Loop!thread, Loop!pipes, Loop!procs
    <3> QED
      BY <3>2 DEF Loop!Handler
  <2> QED
    BY <2>3, <2>4, <2>5 DEF Write, WriteError
<1> QED
  BY <1>4, <1>5

\* Without errors each system call of read_fd and write_stdin, with what follows it,
\* is one that WaitLoop gives the handlers of wait_loop, for every limit, chunk and
\* pipe: what is checked there of edges, deadlines and endings holds of these loops.
THEOREM HandlersDoAsTheLoopExpects == Spec => HandlersAgree
<1>1. TypeOK /\ Faithful
        => [~failing /\ (Read \/ Write) => Loop!Handler \/ UNCHANGED Loop!vars]_vars
  <2>1. ASSUME TypeOK, Faithful, ~failing, Read
        PROVE  Loop!Handler
    BY <2>1, ReadsMap, ReadEndsMap DEF Read, ReadStore, ReadDrop, ReadError, Loop!Handler
  <2> QED
    BY <2>1, WritesMap
<1> QED
  BY <1>1, FaithfulInit, FaithfulStep, TypeCorrect, PTL DEF Spec, HandlersAgree
=============================================================================
