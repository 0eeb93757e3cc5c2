----------------------------- MODULE RingBuffer -----------------------------
(***************************************************************************)
(* class RingBuffer of ringbuffer.h: an array of Capacity + 1 slots and two*)
(* indices, filled and emptied one element at a time or in contiguous runs.*)
(* push_all() and pop() of several elements are loops over try_push() and  *)
(* try_pop(): a round of a loop is one step.  The buffers of a block are   *)
(* used under tcp_lock and those of a BlockingRingBuffer under its mutex,  *)
(* so no other call starts before a loop has ended.                        *)
(***************************************************************************)
EXTENDS Naturals, Sequences

CONSTANTS
    Capacity,   \* the elements the buffer can hold
    Elements,   \* what it holds
    Blank,      \* the contents of a slot never written (memset)
    MaxLen      \* bound: the longest argument of a call

ASSUME RingAssumption ==
    /\ Capacity \in Nat \ {0}
    /\ MaxLen \in Nat \ {0}
    /\ Blank \notin Elements

VARIABLES
    buf,        \* the array
    nextPop,    \* index of the oldest element
    nextPush,   \* index of the next free slot
    call,       \* the loop under way: its kind, what is left to do and rounds
    answer,     \* what the last call returned
    aborted     \* whether an assert has failed

vars == <<buf, nextPop, nextPush, call, answer, aborted>>
indices == <<nextPop, nextPush>>

kArraySize == Capacity + 1
Slots == 0..Capacity

\* Mutant: the index runs past the array.
Straight(i) == i

\* i % kArraySize, for an i that has wrapped at most once.
Wrap(i) == IF i < kArraySize THEN i ELSE i - kArraySize

\* The smaller of two numbers (std::min).
Least(a, b) == IF a <= b THEN a ELSE b

-----------------------------------------------------------------------------
(* What the indices say.                                                   *)

empty == nextPop = nextPush

\* Mutant: the end of the array is not seen.
full_without_wrap == nextPush + 1 = nextPop

full == Wrap(nextPush + 1) = nextPop

size == Wrap(nextPush + kArraySize - nextPop)

\* Mutant: the slot kept free to tell full from empty is counted.
rest_of_array == kArraySize - size

rest_capacity == Capacity - size

\* The slots that can be filled before the buffer is full or the array ends.
one_push_capacity ==
    IF nextPush < nextPop THEN nextPop - 1 - nextPush
    ELSE IF nextPop = 0 THEN kArraySize - 1 - nextPush
    ELSE kArraySize - nextPush

\* The slots that can be emptied before the buffer is empty or the array ends.
one_pop_capacity ==
    IF nextPush > nextPop THEN nextPush - nextPop ELSE kArraySize - nextPop

-----------------------------------------------------------------------------
(* The calls.                                                              *)

\* The state of a loop: what push_all() has left to copy, or what pop() still
\* wants and has got, and the rounds it has made.
Loop(kind, rest, want, got, rounds) ==
    [kind |-> kind, rest |-> rest, want |-> want, got |-> got, rounds |-> rounds]
NoCall == Loop("none", <<>>, 0, <<>>, 0)
PushLoop(rest, rounds) == Loop("push_all", rest, 0, <<>>, rounds)
PopLoop(want, got, rounds) == Loop("pop", <<>>, want, got, rounds)

Loops == [kind : {"none", "push_all", "pop"}, rest : Seq(Elements), want : Nat,
          got : Seq(Elements), rounds : 0..2]
Answers == [ok : BOOLEAN, elements : Seq(Elements)]

Answer(ok, elements) == [ok |-> ok, elements |-> elements]

Ready == call.kind = "none" /\ ~aborted

Init ==
    /\ buf = [i \in Slots |-> Blank]
    /\ nextPop = 0
    /\ nextPush = 0
    /\ call = NoCall
    /\ answer = Answer(TRUE, <<>>)
    /\ aborted = FALSE

\* bool push(T a)
Push(a) ==
    /\ Ready
    /\ IF full
       THEN /\ answer' = Answer(FALSE, <<>>)
            /\ UNCHANGED <<buf, nextPush>>
       ELSE /\ buf' = [buf EXCEPT ![nextPush] = a]
            /\ nextPush' = Wrap(nextPush + 1)
            /\ answer' = Answer(TRUE, <<>>)
    /\ UNCHANGED <<nextPop, call, aborted>>

\* std::optional<T> pop()
Pop ==
    /\ Ready
    /\ IF empty
       THEN answer' = Answer(FALSE, <<>>) /\ UNCHANGED nextPop
       ELSE /\ answer' = Answer(TRUE, <<buf[nextPop]>>)
            /\ nextPop' = Wrap(nextPop + 1)
    /\ UNCHANGED <<buf, nextPush, call, aborted>>

\* std::optional<T> peek()
Peek ==
    /\ Ready
    /\ answer' = Answer(~empty, IF empty THEN <<>> ELSE <<buf[nextPop]>>)
    /\ UNCHANGED <<buf, indices, call, aborted>>

\* bool push_all(T *a, size_t len)
PushAll(a) ==
    /\ Ready
    /\ IF rest_capacity < Len(a)
       THEN answer' = Answer(FALSE, <<>>) /\ UNCHANGED call
       ELSE /\ call' = PushLoop(a, 0)
            /\ UNCHANGED answer
    /\ UNCHANGED <<buf, indices, aborted>>

\* bool pop(T *a, size_t len)
PopAll(len) ==
    /\ Ready
    /\ IF size < len
       THEN answer' = Answer(FALSE, <<>>) /\ UNCHANGED call
       ELSE /\ call' = PopLoop(len, <<>>, 0)
            /\ UNCHANGED answer
    /\ UNCHANGED <<buf, indices, aborted>>

\* An assert of push_all, pop or try_push has failed.
Abort == aborted' = TRUE /\ UNCHANGED <<buf, indices, call, answer>>

\* memcpy(buf + next_push, a, rem * sizeof(T))
CopiedIn(a, rem) ==
    [i \in Slots |-> IF nextPush <= i /\ i < nextPush + rem
                     THEN a[i + 1 - nextPush] ELSE buf[i]]

\* A round of push_all: try_push() of what is left.
try_push ==
    LET rem == Least(Len(call.rest), one_push_capacity)
        atEnd == nextPush + rem = kArraySize
    IN  /\ ~aborted /\ call.kind = "push_all" /\ call.rest # <<>>
        /\ IF (atEnd /\ nextPop = 0) \/ rem = 0 \/ call.rounds >= 2
           THEN Abort
           ELSE /\ buf' = CopiedIn(call.rest, rem)
                /\ nextPush' = IF atEnd THEN 0 ELSE nextPush + rem
                /\ call' = PushLoop(SubSeq(call.rest, rem + 1, Len(call.rest)),
                                    call.rounds + 1)
                /\ UNCHANGED <<nextPop, answer, aborted>>

\* A round of pop: try_pop() of what is still wanted.
try_pop ==
    LET rem == Least(call.want, one_pop_capacity)
        atEnd == nextPop + rem = kArraySize
    IN  /\ ~aborted /\ call.kind = "pop" /\ call.want # 0
        /\ IF rem = 0 \/ call.rounds >= 2
           THEN Abort
           ELSE /\ nextPop' = IF atEnd THEN 0 ELSE nextPop + rem
                /\ call' = PopLoop(call.want - rem,
                                   call.got \o [i \in 1..rem |-> buf[nextPop + i - 1]],
                                   call.rounds + 1)
                /\ UNCHANGED <<buf, nextPush, answer, aborted>>

\* The loop ends with nothing left to do.
Return ==
    /\ ~aborted
    /\ call.kind # "none" /\ call.rest = <<>> /\ call.want = 0
    /\ answer' = Answer(TRUE, call.got)
    /\ call' = NoCall
    /\ UNCHANGED <<buf, indices, aborted>>

Arguments == UNION {[1..n -> Elements] : n \in 0..MaxLen}

Next ==
    \/ \E a \in Elements : Push(a)
    \/ Pop
    \/ Peek
    \/ \E a \in Arguments : PushAll(a)
    \/ \E len \in 0..MaxLen : PopAll(len)
    \/ try_push
    \/ try_pop
    \/ Return

Spec == Init /\ [][Next]_vars

-----------------------------------------------------------------------------
(* Properties.                                                             *)

TypeOK ==
    /\ buf \in [Slots -> Elements \cup {Blank}]
    /\ nextPop \in Slots
    /\ nextPush \in Slots
    /\ call \in Loops
    /\ answer \in Answers
    /\ aborted \in BOOLEAN

\* No assert of ringbuffer.h fails, wherever in the array the indices stand
\* when a run of elements is pushed or popped: a round always makes progress,
\* the array never ends at a full buffer, and two rounds are enough.
AssertsHold == ~aborted

\* The elements in the buffer, the oldest first.
Contents == [i \in 1..size |-> buf[Wrap(nextPop + (i - 1))]]

\* A call takes effect when it starts: what push_all() has still to copy is in
\* the queue, what pop() has still to copy is out of it.
FifoQueue ==
    CASE call.kind = "none" -> Contents
      [] call.kind = "push_all" -> Contents \o call.rest
      [] call.kind = "pop" -> SubSeq(Contents, call.want + 1, size)

FifoAnswer ==
    CASE call.kind = "none" -> answer
      [] call.kind = "push_all" -> Answer(TRUE, <<>>)
      [] call.kind = "pop" ->
           Answer(TRUE, call.got \o SubSeq(Contents, 1, call.want))

Fifo == INSTANCE BoundedFifo WITH queue <- FifoQueue, answer <- FifoAnswer

\* The array with its two indices is a bounded queue: no element is lost,
\* repeated, reordered or overwritten where the indices wrap, full is never
\* taken for empty, and a call that copies in two rounds is all or nothing.
ImplementsFifo == Fifo!Spec

=============================================================================
