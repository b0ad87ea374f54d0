------------------------------- MODULE Drain -------------------------------
(***************************************************************************)
(* DrainState, BufferState and WriterState of src/io: the non-blocking     *)
(* handlers that move data between a child's pipes and memory.             *)
(*                                                                         *)
(* Actors: the caller of read_fd / write_stdin (wait_loop's handlers do    *)
(* the same with the same loops), one system call per step; the child at   *)
(* the far ends.  A unit of data is its position in its stream, 0 is the   *)
(* padding of Vec::resize.                                                 *)
(***************************************************************************)
EXTENDS Integers, Sequences

CONSTANTS
  Limit,      \* max_output
  ReadChunk,  \* READ_CHUNK: what one read into the Vec asks for
  DropChunk,  \* size of drop_buf: what one discarding read asks for
  WriteChunk, \* WRITE_CHUNK
  PipeCap,    \* units a pipe holds
  StdinLen,   \* length of the stdin buffer
  MaxOut,     \* bound: units the child writes to a stream
  MayFail     \* read and write may fail with other than EAGAIN and EPIPE

Streams == {"stdin", "stdout", "stderr"}
Outputs == {"stdout", "stderr"}
NoCall == "no call"

ASSUME LimitAssumption == Limit \in Nat /\ MaxOut \in Nat /\ StdinLen \in Nat
ASSUME ChunkAssumption ==
  /\ ReadChunk \in Nat \ {0} /\ DropChunk \in Nat \ {0}
  /\ WriteChunk \in Nat \ {0} /\ PipeCap \in Nat \ {0}
ASSUME MayFailAssumption == MayFail \in BOOLEAN

VARIABLES
  given,   \* the descriptors given to DrainState::new (never changes)
  early,   \* early_exit is Some (never changes)
  failing, \* system calls fail in this behaviour (never changes)
  slots,   \* streams whose FdSlot is Some
  buffer,  \* BufferState: the Vecs stdout and stderr
  seen,    \* what early_exit has been shown, in order
  hit,     \* early_exit has answered true
  buf,     \* WriterState.buf is Some
  off,     \* WriterState.off
  call,    \* the stream whose call is running
  wrote,   \* units the child has put into each output pipe
  taken,   \* units read from it
  pushed,  \* units written to the stdin pipe, in order
  unread,  \* how many of them the child has not read
  far      \* the far ends that are open

config == <<given, early, failing>>
output == <<buffer, seen, hit>>
input  == <<buf, off, pushed, unread>>
vars   == <<config, slots, output, input, call, wrote, taken, far>>

-----------------------------------------------------------------------------

least(a, b) == IF a < b THEN a ELSE b

\* n units of a stream, the first one at position k + 1.
Units(k, n) == [i \in 1..n |-> k + i]

\* DrainState::new; stdin takes part only with a buffer to write.
Init ==
  /\ given \in SUBSET Streams /\ early \in BOOLEAN
  /\ failing \in {FALSE, MayFail}
  /\ slots = given
  /\ buffer = [s \in Outputs |-> <<>>] /\ seen = <<>> /\ hit = FALSE
  /\ buf = ("stdin" \in given) /\ off = 0
  /\ call = NoCall
  /\ wrote = [s \in Outputs |-> 0] /\ taken = [s \in Outputs |-> 0]
  /\ pushed = <<>> /\ unread = 0
  /\ far = given

\* read_fd(s == stdout) or write_stdin() is called; without a slot it answers
\* Ok(true) at once and changes nothing.
Call(s) ==
  /\ call = NoCall
  /\ call' = IF s \in slots THEN s ELSE NoCall
  /\ UNCHANGED <<config, slots, output, input, wrote, taken, far>>

\* The running call answers r; Ok(true) takes the slot, which closes the pipe.
Answer(r) ==
  /\ call' = NoCall
  /\ slots' = IF r = "true" THEN slots \ {call} ELSE slots

Continue == UNCHANGED <<call, slots>>

-----------------------------------------------------------------------------
(* read_from_fd: each step is one turn of its loop.                         *)

\* Mutant: one unit too many.
RoomForOneMore(s) == Limit + 1 - Len(buffer[s])

Reading == call \in Outputs
Room(s) == Limit - Len(buffer[s])

\* Mutants: the Vec is not cut to what came; early_exit sees all of the Vec.
ReadStoreUncut ==
  /\ Reading /\ Room(call) > 0
  /\ \E n \in 1..least(ReadChunk, Room(call)) :
       /\ taken[call] + n <= wrote[call]
       /\ buffer' = [buffer EXCEPT ![call] =
            @ \o [i \in 1..least(ReadChunk, Room(call)) |->
                   IF i <= n THEN taken[call] + i ELSE 0]]
       /\ taken' = [taken EXCEPT ![call] = @ + n]
  /\ Continue
  /\ UNCHANGED <<config, seen, hit, input, wrote, far>>

ReadStoreShowsAll ==
  /\ Reading /\ Room(call) > 0
  /\ \E n \in 1..least(ReadChunk, Room(call)) :
       /\ taken[call] + n <= wrote[call]
       /\ buffer' = [buffer EXCEPT ![call] = @ \o Units(taken[call], n)]
       /\ taken' = [taken EXCEPT ![call] = @ + n]
       /\ seen' = IF call = "stdout" /\ early THEN seen \o buffer'[call] ELSE seen
  /\ Continue
  /\ UNCHANGED <<config, hit, input, wrote, far>>

\* The chunk is read into the end of the Vec, which is cut to what came; then
\* early_exit sees the chunk.
ReadStore ==
  /\ Reading /\ Room(call) > 0
  /\ \E n \in 1..least(ReadChunk, Room(call)) :
       /\ taken[call] + n <= wrote[call]
       /\ buffer' = [buffer EXCEPT ![call] = @ \o Units(taken[call], n)]
       /\ taken' = [taken EXCEPT ![call] = @ + n]
       /\ IF call = "stdout" /\ early
            THEN /\ seen' = seen \o Units(taken[call], n)
                 /\ \/ hit' = TRUE /\ Answer("true")
                    \/ Continue /\ UNCHANGED hit
            ELSE Continue /\ UNCHANGED <<seen, hit>>
  /\ UNCHANGED <<config, input, wrote, far>>

\* The limit is reached: the chunk goes to drop_buf, unseen by early_exit.
ReadDrop ==
  /\ Reading /\ Room(call) = 0
  /\ \E n \in 1..DropChunk :
       /\ taken[call] + n <= wrote[call]
       /\ taken' = [taken EXCEPT ![call] = @ + n]
  /\ Continue
  /\ UNCHANGED <<config, output, input, wrote, far>>

\* Mutants: end of file is taken for EAGAIN, and EAGAIN for end of file.
ReadEofBlocks ==
  /\ Reading /\ taken[call] = wrote[call] /\ call \notin far
  /\ Answer("false")
  /\ UNCHANGED <<config, output, input, wrote, taken, far>>

ReadWouldBlockEnds ==
  /\ Reading /\ taken[call] = wrote[call] /\ call \in far
  /\ Answer("true")
  /\ UNCHANGED <<config, output, input, wrote, taken, far>>

\* End of file, or nothing to read now; the Vec is cut back.
ReadEof ==
  /\ Reading /\ taken[call] = wrote[call] /\ call \notin far
  /\ Answer("true")
  /\ UNCHANGED <<config, output, input, wrote, taken, far>>

ReadWouldBlock ==
  /\ Reading /\ taken[call] = wrote[call] /\ call \in far
  /\ Answer("false")
  /\ UNCHANGED <<config, output, input, wrote, taken, far>>

ReadError ==
  /\ Reading /\ failing
  /\ Answer("err")
  /\ UNCHANGED <<config, output, input, wrote, taken, far>>

-----------------------------------------------------------------------------
(* write_to_fd.                                                             *)

Writing == call = "stdin"
Pending == buf /\ off < StdinLen

\* Mutant: a short write is taken for a full one.
WriteSomeAsChunk ==
  /\ Writing /\ Pending /\ "stdin" \in far
  /\ \E n \in 1..least(WriteChunk, StdinLen - off) :
       /\ unread + n <= PipeCap
       /\ pushed' = pushed \o Units(off, n)
       /\ unread' = unread + n
       /\ off' = off + WriteChunk
  /\ Continue
  /\ UNCHANGED <<config, output, buf, wrote, taken, far>>

\* Up to a chunk of what is left, as much as the pipe takes.
WriteSome ==
  /\ Writing /\ Pending /\ "stdin" \in far
  /\ \E n \in 1..least(WriteChunk, StdinLen - off) :
       /\ unread + n <= PipeCap
       /\ pushed' = pushed \o Units(off, n)
       /\ unread' = unread + n
       /\ off' = off + n
  /\ Continue
  /\ UNCHANGED <<config, output, buf, wrote, taken, far>>

WriteWouldBlock ==
  /\ Writing /\ Pending /\ "stdin" \in far /\ unread = PipeCap
  /\ Answer("false")
  /\ UNCHANGED <<config, output, input, wrote, taken, far>>

\* Everything is written, EPIPE, or the buffer was given up earlier.
WriteDone ==
  /\ Writing /\ (~Pending \/ "stdin" \notin far)
  /\ buf' = FALSE
  /\ Answer("true")
  /\ UNCHANGED <<config, output, off, pushed, unread, wrote, taken, far>>

\* Another error: the buffer is given up and the error returned.
WriteError ==
  /\ Writing /\ Pending /\ failing
  /\ buf' = FALSE
  /\ Answer("err")
  /\ UNCHANGED <<config, output, off, pushed, unread, wrote, taken, far>>

-----------------------------------------------------------------------------
(* The child.                                                               *)

parent == <<config, slots, output, buf, off, pushed, call, taken>>

ChildWrites(s) ==
  /\ s \in far /\ s \in slots
  /\ wrote[s] - taken[s] < PipeCap /\ wrote[s] < MaxOut
  /\ wrote' = [wrote EXCEPT ![s] = @ + 1]
  /\ UNCHANGED <<parent, unread, far>>

ChildReads ==
  /\ "stdin" \in far /\ unread > 0
  /\ unread' = unread - 1
  /\ UNCHANGED <<parent, wrote, far>>

ChildCloses(s) ==
  /\ s \in far
  /\ far' = far \ {s}
  /\ UNCHANGED <<parent, wrote, unread>>

-----------------------------------------------------------------------------

Read == ReadStore \/ ReadDrop \/ ReadEof \/ ReadWouldBlock \/ ReadError
Write == WriteSome \/ WriteWouldBlock \/ WriteDone \/ WriteError

Child ==
  \/ \E s \in Outputs : ChildWrites(s)
  \/ ChildReads
  \/ \E s \in Streams : ChildCloses(s)

Next == (\E s \in Streams : Call(s)) \/ Read \/ Write \/ Child

\* The caller finishes its calls and keeps calling for the streams that are
\* open.  Nothing is assumed of the child.
Fairness ==
  /\ WF_vars(Read \/ Write)
  /\ \A s \in Streams : SF_vars(s \in slots /\ Call(s))

Spec == Init /\ [][Next]_vars /\ Fairness

-----------------------------------------------------------------------------
(* Properties.                                                              *)

\* Every variable keeps its type.
TypeOK ==
  /\ given \subseteq Streams /\ early \in BOOLEAN /\ failing \in BOOLEAN
  /\ slots \subseteq given /\ far \subseteq given
  /\ buffer \in [Outputs -> Seq(Nat)] /\ seen \in Seq(Nat) /\ hit \in BOOLEAN
  /\ buf \in BOOLEAN /\ off \in 0..StdinLen
  /\ call \in slots \cup {NoCall}
  /\ wrote \in [Outputs -> 0..MaxOut] /\ taken \in [Outputs -> 0..MaxOut]
  /\ pushed \in Seq(Nat) /\ unread \in 0..PipeCap

\* s holds the first units of a stream.
IsPrefix(s) == \A i \in 1..Len(s) : s[i] = i

\* BufferState: what is captured of a stream is the beginning of what the child
\* wrote, never more than the limit, and nothing is dropped below the limit.
CapturedPrefix ==
  \A s \in Outputs :
    /\ IsPrefix(buffer[s])
    /\ Len(buffer[s]) = least(taken[s], Limit)

\* A stream of a DrainState is given up only when all of it was taken, stdout
\* also when early_exit said so, and stdin when all of it was written, its
\* readers are gone or a write has failed (then WriterState drops the buffer).
DoneMeansTaken ==
  /\ \A s \in (given \cap Outputs) \ slots :
       \/ s \notin far /\ taken[s] = wrote[s]
       \/ s = "stdout" /\ hit
  /\ "stdin" \in given \ slots =>
       off = StdinLen \/ "stdin" \notin far \/ failing

\* early_exit is shown every unit that is captured, once and in order.
EarlyExitSeesAll == early => seen = buffer["stdout"]

\* WriterState: however short the writes, the child is sent the buffer from its
\* beginning, without gap or repetition.
StdinInOrder == IsPrefix(pushed) /\ Len(pushed) = off

\* "It enforces a combined memory limit."
CombinedLimit == Len(buffer["stdout"]) + Len(buffer["stderr"]) <= Limit

\* is_done becomes true once the far ends are closed, for a caller that keeps
\* calling.
DoneWhenClosed == far = {} /\ ~failing ~> slots = {}

\* The promise of module Capture.
Promise == INSTANCE Capture WITH kept <- buffer, open <- slots \cap Outputs
Captures == Promise!Spec
=============================================================================
