----------------------------- MODULE RingProofs -----------------------------
(***************************************************************************)
(* Proofs about the ring buffer, for every capacity: its types, that no    *)
(* assert fails, and that it is a bounded queue.                           *)
(***************************************************************************)
EXTENDS RingBuffer, SequenceTheorems, TLAPS

USE RingAssumption

\* What a loop under way may still count on: all it has left to copy fits, and
\* after one round it goes on at the start of the array, where one round does.
LoopOK ==
    /\ call.kind = "none" => call = NoCall
    /\ call.kind = "push_all" =>
          /\ call.want = 0 /\ call.got = <<>>
          /\ Len(call.rest) <= rest_capacity
          /\ call.rounds # 0 /\ call.rest # <<>> =>
                call.rounds = 1 /\ nextPush = 0
    /\ call.kind = "pop" =>
          /\ call.rest = <<>>
          /\ call.want <= size
          /\ call.rounds # 0 /\ call.want # 0 =>
                call.rounds = 1 /\ nextPop = 0

\* No slot between the indices is blank.
Filled == \A i \in 0..Capacity :
             i < size => buf[Wrap(nextPop + i)] \in Elements

IInv == TypeOK /\ AssertsHold /\ LoopOK /\ Filled

Indexed == nextPop \in Slots /\ nextPush \in Slots

-----------------------------------------------------------------------------
(* Arithmetic of the indices.                                              *)

\* The size is at most the capacity; it is that exactly when the buffer is full.
LEMMA SizeBounds ==
    ASSUME Indexed
    PROVE  /\ size \in 0..Capacity
           /\ empty <=> size = 0
           /\ full <=> size = Capacity
           /\ Wrap(nextPop + size) = nextPush
  BY DEF Indexed, Slots, size, empty, full, Wrap, kArraySize

\* Free slots are never between the indices.
LEMMA FreeRun ==
    ASSUME Indexed, NEW rem \in Nat, rem <= one_push_capacity,
           rem <= rest_capacity
    PROVE  /\ nextPush + rem <= kArraySize
           /\ \A j \in Nat : j < rem =>
                 /\ nextPush + j \in Slots
                 /\ Wrap(nextPop + size + j) = nextPush + j
           /\ \A i \in Nat : i < size =>
                 LET k == Wrap(nextPop + i)
                 IN  k \in Slots /\ ~(nextPush <= k /\ k < nextPush + rem)
  BY DEF Indexed, Slots, size, one_push_capacity, rest_capacity, Wrap, kArraySize

\* The run that can be emptied is between the indices.
LEMMA FullRun ==
    ASSUME Indexed, NEW rem \in Nat, rem <= one_pop_capacity, rem <= size
    PROVE  /\ nextPop + rem <= kArraySize
           /\ \A i \in Nat : i < rem => Wrap(nextPop + i) = nextPop + i
  BY DEF Indexed, Slots, size, one_pop_capacity, Wrap, kArraySize

LEMMA PushedSize ==
    ASSUME Indexed, NEW rem \in Nat, rem <= one_push_capacity,
           rem <= rest_capacity, nextPop' = nextPop,
           nextPush' = IF nextPush + rem = kArraySize THEN 0 ELSE nextPush + rem
    PROVE  Indexed' /\ size' = size + rem
  BY DEF Indexed, Slots, size, one_push_capacity, rest_capacity, Wrap, kArraySize

LEMMA PoppedSize ==
    ASSUME Indexed, NEW rem \in Nat, rem <= one_pop_capacity, rem <= size,
           nextPush' = nextPush,
           nextPop' = IF nextPop + rem = kArraySize THEN 0 ELSE nextPop + rem
    PROVE  /\ Indexed' /\ size' = size - rem
           /\ \A i \in Nat : i < size' =>
                 Wrap(nextPop' + i) = Wrap(nextPop + (i + rem))
  BY DEF Indexed, Slots, size, one_pop_capacity, Wrap, kArraySize

\* A round that does not finish goes on at the start of the array.
LEMMA PushRound ==
    ASSUME Indexed, NEW n \in Nat \ {0}, n <= rest_capacity
    PROVE  /\ one_push_capacity \in Nat
           /\ one_push_capacity # 0
           /\ nextPush = 0 => n <= one_push_capacity
           /\ one_push_capacity < n =>
                 nextPush + one_push_capacity = kArraySize
           /\ nextPop = 0 => nextPush + Least(n, one_push_capacity) # kArraySize
  BY DEF Indexed, Slots, size, one_push_capacity, rest_capacity, Wrap,
         kArraySize, Least

LEMMA PopRound ==
    ASSUME Indexed, NEW n \in Nat \ {0}, n <= size
    PROVE  /\ one_pop_capacity \in Nat
           /\ one_pop_capacity # 0
           /\ nextPop = 0 => n <= one_pop_capacity
           /\ one_pop_capacity < n => nextPop + one_pop_capacity = kArraySize
  BY DEF Indexed, Slots, size, one_pop_capacity, Wrap, kArraySize

-----------------------------------------------------------------------------
(* The invariant.                                                          *)

LEMMA AnswerType ==
    /\ Answer(TRUE, <<>>) \in Answers
    /\ Answer(FALSE, <<>>) \in Answers
    /\ \A e \in Elements : Answer(TRUE, <<e>>) \in Answers
    /\ \A s \in Seq(Elements) : Answer(TRUE, s) \in Answers
  <1>1. <<>> \in Seq(Elements) /\ \A e \in Elements : <<e>> \in Seq(Elements)
    OBVIOUS
  <1> QED
    BY <1>1 DEF Answer, Answers

LEMMA LoopType ==
    /\ NoCall \in Loops
    /\ \A rest \in Seq(Elements), rounds \in 0..2 :
          PushLoop(rest, rounds) \in Loops
    /\ \A want \in Nat, got \in Seq(Elements), rounds \in 0..2 :
          PopLoop(want, got, rounds) \in Loops
  <1>1. <<>> \in Seq(Elements)
    OBVIOUS
  <1> QED
    BY <1>1 DEF NoCall, PushLoop, PopLoop, Loop, Loops

LEMMA InvIndexed == TypeOK => Indexed
  BY DEF TypeOK, Indexed

\* The initial buffer is empty.
LEMMA InitInv == Init => IInv
  <1> SUFFICES ASSUME Init PROVE IInv
    OBVIOUS
  <1>1. TypeOK
    <2>1. answer \in Answers /\ call \in Loops
      BY AnswerType, LoopType DEF Init
    <2>2. aborted \in BOOLEAN
      BY DEF Init
    <2>3. /\ buf \in [Slots -> Elements \cup {Blank}]
          /\ nextPop \in Slots /\ nextPush \in Slots
      BY DEF Init, Slots
    <2> QED
      BY <2>1, <2>2, <2>3 DEF TypeOK
  <1>2. AssertsHold /\ LoopOK
    BY DEF Init, AssertsHold, LoopOK, NoCall, Loop
  <1>3. size = 0
    BY DEF Init, size, Wrap, kArraySize
  <1> QED
    BY <1>1, <1>2, <1>3 DEF IInv, Filled

\* When no slot changes and none is given back, nothing between the indices is
\* blank afterwards.
LEMMA PoppedFilled ==
    ASSUME IInv, NEW rem \in Nat, rem <= size, buf' = buf, Indexed',
           size' = size - rem,
           \A i \in Nat : i < size' =>
              Wrap(nextPop' + i) = Wrap(nextPop + (i + rem))
    PROVE  Filled'
  <1> USE SizeBounds, InvIndexed
  <1>1. size \in 0..Capacity
    BY DEF IInv
  <1>2. ASSUME NEW i \in 0..Capacity, i < size'
        PROVE  buf'[Wrap(nextPop' + i)] \in Elements
    <2>1. i + rem \in 0..Capacity /\ i + rem < size
      BY <1>1, <1>2
    <2>2. buf[Wrap(nextPop + (i + rem))] \in Elements
      BY <2>1 DEF IInv, Filled
    <2> QED
      BY <1>2, <2>2
  <1> QED
    BY <1>2 DEF Filled

\* What is copied behind the last element fills the slots it takes.
LEMMA PushedFilled ==
    ASSUME IInv, NEW rem \in Nat, rem <= one_push_capacity,
           rem <= rest_capacity, NEW a \in Seq(Elements), rem <= Len(a),
           buf' = CopiedIn(a, rem), nextPop' = nextPop,
           nextPush' = IF nextPush + rem = kArraySize THEN 0 ELSE nextPush + rem
    PROVE  /\ buf' \in [Slots -> Elements \cup {Blank}]
           /\ \A i \in Nat : i < size =>
                 buf'[Wrap(nextPop + i)] = buf[Wrap(nextPop + i)]
           /\ \A j \in 0..Capacity : j < rem =>
                 buf'[Wrap(nextPop + (size + j))] = a[j + 1]
           /\ Filled'
  <1>1. Indexed /\ buf \in [Slots -> Elements \cup {Blank}]
    BY InvIndexed DEF IInv, TypeOK
  <1>2. size \in 0..Capacity
    BY <1>1, SizeBounds
  <1>3. /\ nextPush + rem <= kArraySize
        /\ \A j \in Nat : j < rem =>
              /\ nextPush + j \in Slots
              /\ Wrap(nextPop + size + j) = nextPush + j
        /\ \A i \in Nat : i < size =>
              LET k == Wrap(nextPop + i)
              IN  k \in Slots /\ ~(nextPush <= k /\ k < nextPush + rem)
    BY <1>1, FreeRun
  <1>4. \A i \in Slots : nextPush <= i /\ i < nextPush + rem =>
           i + 1 - nextPush \in 1..Len(a)
    BY <1>1 DEF Slots, Indexed
  <1>5. buf' \in [Slots -> Elements \cup {Blank}]
    BY <1>1, <1>4 DEF CopiedIn
  <1>6. \A i \in Nat : i < size =>
           buf'[Wrap(nextPop + i)] = buf[Wrap(nextPop + i)]
    BY <1>3 DEF CopiedIn
  <1>7. ASSUME NEW j \in 0..Capacity, j < rem
        PROVE  buf'[Wrap(nextPop + (size + j))] = a[j + 1]
    <2>1. nextPush + j \in Slots /\ Wrap(nextPop + size + j) = nextPush + j
      BY <1>3, <1>7
    <2>2. nextPop + (size + j) = nextPop + size + j
      BY <1>1, <1>2 DEF Indexed, Slots
    <2>3. buf'[nextPush + j] = a[nextPush + j + 1 - nextPush]
      BY <1>1, <1>7, <2>1 DEF CopiedIn, Indexed, Slots
    <2>4. nextPush + j + 1 - nextPush = j + 1
      BY <1>1 DEF Indexed, Slots
    <2> QED
      BY <2>1, <2>2, <2>3, <2>4
  <1>8. size' = size + rem
    BY <1>1, PushedSize
  <1>9. ASSUME NEW i \in 0..Capacity, i < size'
        PROVE  buf'[Wrap(nextPop + i)] \in Elements
    <2>1. CASE i < size
      BY <1>6, <2>1 DEF IInv, Filled
    <2>2. CASE i >= size
      <3>1. i - size \in 0..Capacity /\ i - size < rem /\ i = size + (i - size)
        BY <1>2, <1>8, <1>9, <2>2
      <3>2. buf'[Wrap(nextPop + (size + (i - size)))] = a[(i - size) + 1]
        BY <1>7, <3>1
      <3>3. (i - size) + 1 \in 1..Len(a)
        BY <3>1
      <3> QED
        BY <3>1, <3>2, <3>3
    <2> QED
      BY <1>2, <2>1, <2>2
  <1> QED
    BY <1>5, <1>6, <1>7, <1>9 DEF Filled

\* push() is a run of one element.
LEMMA PushIsRun ==
    ASSUME IInv, ~full
    PROVE  /\ 1 <= one_push_capacity /\ 1 <= rest_capacity
           /\ Wrap(nextPush + 1) = IF nextPush + 1 = kArraySize
                                   THEN 0 ELSE nextPush + 1
           /\ \A a \in Elements :
                 [buf EXCEPT ![nextPush] = a] = CopiedIn(<<a>>, 1)
  <1>1. Indexed /\ buf \in [Slots -> Elements \cup {Blank}]
    BY InvIndexed DEF IInv, TypeOK
  <1>2. /\ 1 <= one_push_capacity /\ 1 <= rest_capacity
        /\ Wrap(nextPush + 1) = IF nextPush + 1 = kArraySize
                                THEN 0 ELSE nextPush + 1
    BY <1>1 DEF Indexed, Slots, full, size, one_push_capacity, rest_capacity,
                Wrap, kArraySize
  <1>3. ASSUME NEW a \in Elements
        PROVE  [buf EXCEPT ![nextPush] = a] = CopiedIn(<<a>>, 1)
    <2>1. \A i \in Slots : nextPush <= i /\ i < nextPush + 1 <=> i = nextPush
      BY <1>1 DEF Indexed, Slots
    <2>2. <<a>>[nextPush + 1 - nextPush] = a
      BY <1>1 DEF Indexed, Slots
    <2> QED
      BY <1>1, <1>3, <2>1, <2>2 DEF CopiedIn
  <1> QED
    BY <1>2, <1>3

\* pop() is a run of one element.
LEMMA PopIsRun ==
    ASSUME IInv, ~empty
    PROVE  /\ 1 <= one_pop_capacity /\ 1 <= size
           /\ Wrap(nextPop + 1) = IF nextPop + 1 = kArraySize
                                  THEN 0 ELSE nextPop + 1
           /\ buf[nextPop] \in Elements
  <1>1. Indexed
    BY InvIndexed DEF IInv
  <1>2. /\ 1 <= one_pop_capacity /\ 1 <= size
        /\ Wrap(nextPop + 1) = IF nextPop + 1 = kArraySize
                               THEN 0 ELSE nextPop + 1
        /\ Wrap(nextPop + 0) = nextPop /\ 0 < size
    BY <1>1 DEF Indexed, Slots, empty, size, one_pop_capacity, Wrap, kArraySize
  <1> QED
    BY <1>2 DEF IInv, Filled

\* A loop of push_all() whose rest fits, at the start of the array after a round.
LEMMA PushLoopOK ==
    ASSUME NEW rest \in Seq(Elements), NEW rounds \in 0..2,
           Len(rest) <= rest_capacity',
           rounds # 0 /\ rest # <<>> => rounds = 1 /\ nextPush' = 0,
           call' = PushLoop(rest, rounds)
    PROVE  call' \in Loops /\ LoopOK'
  <1>1. call' \in Loops
    BY LoopType
  <1>2. /\ call'.kind = "push_all" /\ call'.rest = rest /\ call'.want = 0
        /\ call'.got = <<>> /\ call'.rounds = rounds
    BY DEF PushLoop, Loop
  <1> QED
    BY <1>1, <1>2 DEF LoopOK

LEMMA PopLoopOK ==
    ASSUME NEW want \in Nat, NEW got \in Seq(Elements), NEW rounds \in 0..2,
           want <= size',
           rounds # 0 /\ want # 0 => rounds = 1 /\ nextPop' = 0,
           call' = PopLoop(want, got, rounds)
    PROVE  call' \in Loops /\ LoopOK'
  <1>1. call' \in Loops
    BY LoopType
  <1>2. /\ call'.kind = "pop" /\ call'.rest = <<>> /\ call'.want = want
        /\ call'.got = got /\ call'.rounds = rounds
    BY DEF PopLoop, Loop
  <1> QED
    BY <1>1, <1>2 DEF LoopOK

\* Every step keeps the invariant.
LEMMA StepInv == IInv /\ [Next]_vars => IInv'
  <1> SUFFICES ASSUME IInv, [Next]_vars PROVE IInv'
    OBVIOUS
  <1>1. Indexed /\ TypeOK /\ ~aborted /\ LoopOK /\ Filled
    BY InvIndexed DEF IInv, AssertsHold
  <1>2. ASSUME NEW a \in Elements, Push(a) PROVE IInv'
    <2>1. CASE full
      <3>1. UNCHANGED <<buf, indices, call, aborted>>
        BY <1>2, <2>1 DEF Push, indices
      <3>2. answer' \in Answers
        BY <1>2, <2>1, AnswerType DEF Push
      <3> QED
        BY <1>1, <3>1, <3>2
        DEF IInv, TypeOK, AssertsHold, LoopOK, Filled, size, rest_capacity, indices
    <2>2. CASE ~full
      <3>1. /\ 1 <= one_push_capacity /\ 1 <= rest_capacity
            /\ buf' = CopiedIn(<<a>>, 1) /\ nextPop' = nextPop
            /\ nextPush' = IF nextPush + 1 = kArraySize THEN 0 ELSE nextPush + 1
        BY <1>2, <2>2, PushIsRun DEF Push
      <3>3. buf' \in [Slots -> Elements \cup {Blank}] /\ Filled'
        <4>1. PICK s : s = <<a>>
          OBVIOUS
        <4>2. s \in Seq(Elements) /\ Len(s) = 1
          BY <4>1
        <4>3. buf' = CopiedIn(s, 1)
          BY <3>1, <4>1
        <4> QED
          BY <3>1, <4>2, <4>3, PushedFilled
      <3>4. Indexed'
        BY <1>1, <3>1, PushedSize
      <3>5. call' = NoCall /\ ~aborted' /\ aborted' = aborted
        BY <1>1, <1>2 DEF Push, Ready, LoopOK
      <3>6. answer' \in Answers
        BY <1>2, <2>2, AnswerType DEF Push
      <3>7. LoopOK'
        BY <3>5 DEF LoopOK, NoCall, Loop
      <3>8. TypeOK'
        BY <1>1, <3>3, <3>4, <3>5, <3>6, LoopType DEF TypeOK, Indexed
      <3> QED
        BY <3>3, <3>5, <3>7, <3>8 DEF IInv, AssertsHold
    <2> QED
      BY <2>1, <2>2
  <1>3. CASE Pop
    <2>1. CASE empty
      <3>1. UNCHANGED <<buf, indices, call, aborted>>
        BY <1>3, <2>1 DEF Pop, indices
      <3>2. answer' \in Answers
        BY <1>3, <2>1, AnswerType DEF Pop
      <3> QED
        BY <1>1, <3>1, <3>2
        DEF IInv, TypeOK, AssertsHold, LoopOK, Filled, size, rest_capacity, indices
    <2>2. CASE ~empty
      <3>1. /\ 1 <= one_pop_capacity /\ 1 <= size
            /\ nextPush' = nextPush /\ buf' = buf
            /\ nextPop' = IF nextPop + 1 = kArraySize THEN 0 ELSE nextPop + 1
            /\ buf[nextPop] \in Elements
        BY <1>3, <2>2, PopIsRun DEF Pop
      <3>2. /\ Indexed' /\ size' = size - 1
            /\ \A i \in Nat : i < size' =>
                  Wrap(nextPop' + i) = Wrap(nextPop + (i + 1))
        BY <1>1, <3>1, PoppedSize
      <3>3. Filled'
        BY <3>1, <3>2, PoppedFilled
      <3>4. call' = NoCall /\ ~aborted' /\ aborted' = aborted
        BY <1>1, <1>3 DEF Pop, Ready, LoopOK
      <3>5. answer' \in Answers
        BY <1>3, <2>2, <3>1, AnswerType DEF Pop
      <3>6. LoopOK'
        BY <3>4 DEF LoopOK, NoCall, Loop
      <3>7. TypeOK'
        BY <1>1, <3>1, <3>2, <3>4, <3>5, LoopType DEF TypeOK, Indexed
      <3> QED
        BY <3>3, <3>4, <3>6, <3>7 DEF IInv, AssertsHold
    <2> QED
      BY <2>1, <2>2
  <1>4. CASE Peek
    <2>1. ~empty => buf[nextPop] \in Elements
      BY PopIsRun
    <2>2. answer' \in Answers
      <3>1. CASE empty
        BY <1>4, <3>1, AnswerType DEF Peek
      <3>2. CASE ~empty
        BY <1>4, <2>1, <3>2, AnswerType DEF Peek
      <3> QED
        BY <3>1, <3>2
    <2> QED
      BY <1>1, <1>4, <2>2
      DEF IInv, TypeOK, AssertsHold, LoopOK, Filled, size, rest_capacity,
          Peek, indices
  <1>5. ASSUME NEW a \in Arguments, PushAll(a) PROVE IInv'
    <2>1. a \in Seq(Elements)
      BY DEF Arguments
    <2>2. UNCHANGED <<buf, indices, aborted>>
      BY <1>5 DEF PushAll
    <2>3. answer' \in Answers
      BY <1>1, <1>5, AnswerType DEF PushAll, TypeOK
    <2>4. \/ call' = call
          \/ /\ call' = PushLoop(a, 0)
             /\ ~(rest_capacity < Len(a))
      BY <1>5 DEF PushAll
    <2>5. rest_capacity \in Nat /\ Len(a) \in Nat
      BY <1>1, <2>1, SizeBounds DEF rest_capacity
    <2>6. ASSUME call' = call PROVE call' \in Loops /\ LoopOK'
      BY <1>1, <2>2, <2>6
      DEF TypeOK, LoopOK, size, rest_capacity, indices
    <2>7. ASSUME call' = PushLoop(a, 0), ~(rest_capacity < Len(a))
          PROVE  call' \in Loops /\ LoopOK'
      <3>1. Len(a) <= rest_capacity'
        BY <2>2, <2>5, <2>7 DEF size, rest_capacity, indices
      <3> QED
        BY <2>1, <2>7, <3>1, PushLoopOK
    <2>8. call' \in Loops /\ LoopOK'
      BY <2>4, <2>6, <2>7
    <2> QED
      BY <1>1, <2>2, <2>3, <2>8 DEF IInv, TypeOK, AssertsHold, Filled, size, indices
  <1>6. ASSUME NEW len \in 0..MaxLen, PopAll(len) PROVE IInv'
    <2>1. UNCHANGED <<buf, indices, aborted>>
      BY <1>6 DEF PopAll
    <2>2. answer' \in Answers
      BY <1>1, <1>6, AnswerType DEF PopAll, TypeOK
    <2>3. \/ call' = call
          \/ /\ call' = PopLoop(len, <<>>, 0)
             /\ ~(size < len)
      BY <1>6 DEF PopAll
    <2>4. size \in Nat
      BY <1>1, SizeBounds
    <2>5. ASSUME call' = call PROVE call' \in Loops /\ LoopOK'
      BY <1>1, <2>1, <2>5
      DEF TypeOK, LoopOK, size, rest_capacity, indices
    <2>6. ASSUME call' = PopLoop(len, <<>>, 0), ~(size < len)
          PROVE  call' \in Loops /\ LoopOK'
      <3>1. len <= size'
        BY <2>1, <2>4, <2>6 DEF size, indices
      <3>2. PICK s : s = <<>>
        OBVIOUS
      <3>3. s \in Seq(Elements) /\ call' = PopLoop(len, s, 0)
        BY <2>6, <3>2
      <3> QED
        BY <3>1, <3>3, PopLoopOK
    <2>7. call' \in Loops /\ LoopOK'
      BY <2>3, <2>5, <2>6
    <2> QED
      BY <1>1, <2>1, <2>2, <2>7 DEF IInv, TypeOK, AssertsHold, Filled, size, indices
  <1>7. CASE try_push
    <2> DEFINE rem == Least(Len(call.rest), one_push_capacity)
    <2>1. /\ call.kind = "push_all" /\ call.rest # <<>>
          /\ call.rest \in Seq(Elements) /\ Len(call.rest) \in Nat \ {0}
          /\ Len(call.rest) <= rest_capacity
          /\ call.rounds \in 0..2
      BY <1>1, <1>7 DEF try_push, LoopOK, TypeOK, Loops
    <2>2. /\ one_push_capacity \in Nat
          /\ one_push_capacity # 0
          /\ nextPush = 0 => Len(call.rest) <= one_push_capacity
          /\ one_push_capacity < Len(call.rest) =>
                nextPush + one_push_capacity = kArraySize
          /\ nextPop = 0 => nextPush + rem # kArraySize
      BY <1>1, <2>1, PushRound
    <2>3. /\ rem \in Nat \ {0} /\ rem <= Len(call.rest)
          /\ rem <= one_push_capacity
          /\ rem = Len(call.rest) \/ rem = one_push_capacity
      BY <2>1, <2>2 DEF Least
    <2>4. call.rounds = 0 \/ (call.rounds = 1 /\ nextPush = 0)
      BY <1>1, <2>1 DEF LoopOK
    <2>5. /\ buf' = CopiedIn(call.rest, rem) /\ nextPop' = nextPop
          /\ nextPush' = IF nextPush + rem = kArraySize THEN 0 ELSE nextPush + rem
          /\ call' = PushLoop(SubSeq(call.rest, rem + 1, Len(call.rest)),
                            call.rounds + 1)
          /\ UNCHANGED <<answer, aborted>>
      BY <1>7, <2>2, <2>3, <2>4 DEF try_push
    <2>6. rest_capacity \in Nat /\ size \in 0..Capacity
      BY <1>1, SizeBounds DEF rest_capacity
    <2>7. rem <= rest_capacity
      BY <2>1, <2>3, <2>6
    <2>8. buf' \in [Slots -> Elements \cup {Blank}] /\ Filled'
      BY <2>1, <2>3, <2>5, <2>7, PushedFilled
    <2>9. Indexed' /\ size' = size + rem
      BY <1>1, <2>3, <2>5, <2>7, PushedSize
    <2> DEFINE rest == SubSeq(call.rest, rem + 1, Len(call.rest))
    <2>10. rest \in Seq(Elements) /\ Len(rest) = Len(call.rest) - rem
      BY <2>1, <2>3
    <2>11. Len(rest) <= rest_capacity'
      BY <2>1, <2>3, <2>6, <2>9, <2>10 DEF rest_capacity
    <2>12. rest # <<>> => rem = one_push_capacity /\ rem < Len(call.rest)
      BY <2>1, <2>3, <2>10
    <2>13. rest # <<>> => call.rounds + 1 = 1 /\ nextPush' = 0
      BY <2>2, <2>3, <2>4, <2>5, <2>12
    <2>14. call' \in Loops /\ LoopOK'
      <3>1. call.rounds + 1 \in 0..2
        BY <2>4
      <3> QED
        BY <2>5, <2>10, <2>11, <2>13, <3>1, PushLoopOK
    <2> QED
      BY <1>1, <2>5, <2>8, <2>9, <2>14
      DEF IInv, TypeOK, AssertsHold, Indexed
  <1>8. CASE try_pop
    <2> DEFINE rem == Least(call.want, one_pop_capacity)
    <2>1. /\ call.kind = "pop" /\ call.want \in Nat \ {0}
          /\ call.want <= size /\ call.rounds \in 0..2
          /\ call.rest = <<>>
      BY <1>1, <1>8 DEF try_pop, LoopOK, TypeOK, Loops
    <2>2. /\ one_pop_capacity \in Nat
          /\ one_pop_capacity # 0
          /\ nextPop = 0 => call.want <= one_pop_capacity
          /\ one_pop_capacity < call.want => nextPop + one_pop_capacity = kArraySize
      BY <1>1, <2>1, PopRound
    <2>3. /\ rem \in Nat \ {0} /\ rem <= call.want /\ rem <= one_pop_capacity
          /\ rem = call.want \/ rem = one_pop_capacity
      BY <2>1, <2>2 DEF Least
    <2>4. call.rounds = 0 \/ (call.rounds = 1 /\ nextPop = 0)
      BY <1>1, <2>1 DEF LoopOK
    <2>5. /\ nextPush' = nextPush /\ buf' = buf
          /\ nextPop' = IF nextPop + rem = kArraySize THEN 0 ELSE nextPop + rem
          /\ call' = PopLoop(call.want - rem,
                           call.got \o [i \in 1..rem |-> buf[nextPop + i - 1]],
                           call.rounds + 1)
          /\ UNCHANGED <<answer, aborted>>
      BY <1>8, <2>2, <2>3, <2>4 DEF try_pop
    <2>6. size \in 0..Capacity /\ rem <= size
      BY <1>1, <2>1, <2>3, SizeBounds
    <2>7. /\ Indexed' /\ size' = size - rem
          /\ \A i \in Nat : i < size' =>
                Wrap(nextPop' + i) = Wrap(nextPop + (i + rem))
      BY <1>1, <2>3, <2>5, <2>6, PoppedSize
    <2>8. Filled'
      BY <2>3, <2>5, <2>6, <2>7, PoppedFilled
    <2>9. [i \in 1..rem |-> buf[nextPop + i - 1]] \in Seq(Elements)
      <3>1. ASSUME NEW i \in 1..rem PROVE buf[nextPop + i - 1] \in Elements
        <4>1. i - 1 \in Nat /\ i - 1 < rem /\ i - 1 \in 0..Capacity /\ i - 1 < size
          BY <2>3, <2>6, <3>1
        <4>2. Wrap(nextPop + (i - 1)) = nextPop + (i - 1)
          BY <1>1, <2>3, <2>6, <4>1, FullRun
        <4>3. buf[Wrap(nextPop + (i - 1))] \in Elements
          BY <1>1, <4>1 DEF Filled
        <4>4. nextPop + i - 1 = nextPop + (i - 1)
          BY <1>1, <3>1 DEF Indexed, Slots
        <4> QED
          BY <4>2, <4>3, <4>4
      <3> QED
        BY <2>3, <3>1
    <2>10. call.got \o [i \in 1..rem |-> buf[nextPop + i - 1]] \in Seq(Elements)
      <3>1. call.got \in Seq(Elements)
        BY <1>1 DEF TypeOK, Loops
      <3> QED
        BY <2>9, <3>1
    <2>11. call.want - rem \in Nat /\ call.want - rem <= size'
      BY <2>1, <2>3, <2>6, <2>7
    <2>12. call.want - rem # 0 => call.rounds + 1 = 1 /\ nextPop' = 0
      BY <2>1, <2>2, <2>3, <2>4, <2>5
    <2>13. call' \in Loops /\ LoopOK'
      <3>1. call.rounds + 1 \in 0..2
        BY <2>4
      <3> QED
        BY <2>5, <2>10, <2>11, <2>12, <3>1, PopLoopOK
    <2> QED
      BY <1>1, <2>5, <2>7, <2>8, <2>13
      DEF IInv, TypeOK, AssertsHold, Indexed
  <1>9. CASE Return
    <2>1. call.got \in Seq(Elements)
      BY <1>1 DEF TypeOK, Loops
    <2>2. answer' \in Answers /\ call' \in Loops
      BY <1>9, <2>1, AnswerType, LoopType DEF Return
    <2>3. LoopOK'
      BY <1>9 DEF LoopOK, Return, NoCall, Loop
    <2> QED
      BY <1>1, <1>9, <2>2, <2>3
      DEF IInv, TypeOK, AssertsHold, Filled, size, Return, indices
  <1>10. CASE UNCHANGED vars
    BY <1>1, <1>10
    DEF IInv, TypeOK, AssertsHold, LoopOK, Filled, size, rest_capacity, vars
  <1> QED
    BY <1>2, <1>3, <1>4, <1>5, <1>6, <1>7, <1>8, <1>9, <1>10 DEF Next

\* Every state of the buffer satisfies the invariant.
THEOREM Invariant == Spec => []IInv
  BY InitInv, StepInv, PTL DEF Spec

\* Indices, slots and results have their types, for every capacity.
THEOREM Types == Spec => []TypeOK
  <1>1. IInv => TypeOK
    BY DEF IInv
  <1> QED
    BY <1>1, Invariant, PTL

\* No assert of ringbuffer.h fails, for every capacity and every length of run.
THEOREM NoAssertFails == Spec => []AssertsHold
  <1>1. IInv => AssertsHold
    BY DEF IInv
  <1> QED
    BY <1>1, Invariant, PTL

-----------------------------------------------------------------------------
(* Refinement: the buffer implements a bounded queue.                      *)

LEMMA ContentsType ==
    ASSUME IInv
    PROVE  Contents \in Seq(Elements) /\ Len(Contents) = size /\ size \in 0..Capacity
  <1>1. size \in 0..Capacity
    BY InvIndexed, SizeBounds DEF IInv
  <1>2. ASSUME NEW i \in 1..size
        PROVE  buf[Wrap(nextPop + (i - 1))] \in Elements
    <2>1. i - 1 \in 0..Capacity /\ i - 1 < size
      BY <1>1
    <2> QED
      BY <2>1 DEF IInv, Filled
  <1> QED
    BY <1>1, <1>2 DEF Contents

\* Copying a run in appends it to the contents.
LEMMA ContentsGrow ==
    ASSUME IInv, NEW rem \in Nat, rem <= one_push_capacity,
           rem <= rest_capacity, NEW a \in Seq(Elements), rem <= Len(a),
           buf' = CopiedIn(a, rem), nextPop' = nextPop,
           nextPush' = IF nextPush + rem = kArraySize THEN 0 ELSE nextPush + rem
    PROVE  Contents' = Contents \o SubSeq(a, 1, rem)
  <1>1. Contents \in Seq(Elements) /\ Len(Contents) = size /\ size \in 0..Capacity
    BY ContentsType
  <1>2. size' = size + rem
    BY InvIndexed, PushedSize DEF IInv
  <1>3. /\ \A i \in Nat : i < size =>
              buf'[Wrap(nextPop + i)] = buf[Wrap(nextPop + i)]
        /\ \A j \in 0..Capacity : j < rem =>
              buf'[Wrap(nextPop + (size + j))] = a[j + 1]
    BY PushedFilled
  <1>4. rem <= Capacity
    BY <1>1 DEF rest_capacity
  <1> DEFINE grown == Contents \o SubSeq(a, 1, rem)
  <1>5. /\ grown \in Seq(Elements) /\ Len(grown) = size + rem
        /\ \A i \in 1..size : grown[i] = Contents[i]
        /\ \A i \in (size + 1)..(size + rem) : grown[i] = a[i - size]
    BY <1>1
  <1>6. ASSUME NEW i \in 1..(size + rem)
        PROVE  buf'[Wrap(nextPop' + (i - 1))] = grown[i]
    <2>1. CASE i <= size
      <3>1. i - 1 \in Nat /\ i - 1 < size
        BY <1>1, <2>1
      <3>2. buf'[Wrap(nextPop + (i - 1))] = buf[Wrap(nextPop + (i - 1))]
        BY <1>3, <3>1
      <3>3. Contents[i] = buf[Wrap(nextPop + (i - 1))]
        BY <1>1, <2>1 DEF Contents
      <3> QED
        BY <1>1, <1>5, <2>1, <3>2, <3>3
    <2>2. CASE i > size
      <3>1. /\ i - 1 - size \in 0..Capacity /\ i - 1 - size < rem
            /\ size + (i - 1 - size) = i - 1 /\ i - 1 - size + 1 = i - size
        BY <1>1, <1>4, <2>2
      <3>2. buf'[Wrap(nextPop + (size + (i - 1 - size)))] = a[i - 1 - size + 1]
        BY <1>3, <3>1
      <3> QED
        BY <1>1, <1>5, <2>2, <3>1, <3>2
    <2> QED
      BY <1>1, <2>1, <2>2
  <1>7. Contents' = [i \in 1..(size + rem) |-> buf'[Wrap(nextPop' + (i - 1))]]
    BY <1>2 DEF Contents, Wrap, kArraySize
  <1>8. grown = [i \in 1..(size + rem) |-> grown[i]]
    BY <1>1, <1>5
  <1> QED
    BY <1>6, <1>7, <1>8

\* Copying a run out takes it off the front of the contents.
LEMMA ContentsShrink ==
    ASSUME IInv, NEW rem \in Nat, rem <= one_pop_capacity, rem <= size,
           nextPush' = nextPush, buf' = buf,
           nextPop' = IF nextPop + rem = kArraySize THEN 0 ELSE nextPop + rem
    PROVE  /\ Contents' = SubSeq(Contents, rem + 1, size)
           /\ [i \in 1..rem |-> buf[nextPop + i - 1]] = SubSeq(Contents, 1, rem)
  <1>1. Contents \in Seq(Elements) /\ Len(Contents) = size /\ size \in 0..Capacity
    BY ContentsType
  <1>2. /\ Indexed /\ size' = size - rem
        /\ \A i \in Nat : i < size' =>
              Wrap(nextPop' + i) = Wrap(nextPop + (i + rem))
    BY InvIndexed, PoppedSize DEF IInv
  <1>3. \A i \in Nat : i < rem => Wrap(nextPop + i) = nextPop + i
    BY <1>2, FullRun
  <1>4. Contents' = SubSeq(Contents, rem + 1, size)
    <2> DEFINE cut == SubSeq(Contents, rem + 1, size)
    <2>1. /\ cut = [i \in 1..(size - rem) |-> cut[i]]
          /\ \A i \in 1..(size - rem) : cut[i] = Contents[i + rem]
      BY <1>1, SMTT(30)
    <2>2. Contents' = [i \in 1..(size - rem) |-> buf'[Wrap(nextPop' + (i - 1))]]
      BY <1>2 DEF Contents, Wrap, kArraySize
    <2>3. ASSUME NEW i \in 1..(size - rem)
          PROVE  buf'[Wrap(nextPop' + (i - 1))] = cut[i]
      <3>1. i - 1 \in Nat /\ i - 1 < size' /\ i - 1 + rem = i + rem - 1
            /\ i + rem \in 1..size
        BY <1>1, <1>2
      <3>2. Wrap(nextPop' + (i - 1)) = Wrap(nextPop + (i - 1 + rem))
        BY <1>2, <3>1
      <3>3. Contents[i + rem] = buf[Wrap(nextPop + (i + rem - 1))]
        BY <3>1 DEF Contents
      <3> QED
        BY <2>1, <3>1, <3>2, <3>3
    <2> QED
      BY <2>1, <2>2, <2>3
  <1>5. [i \in 1..rem |-> buf[nextPop + i - 1]] = SubSeq(Contents, 1, rem)
    <2> DEFINE front == SubSeq(Contents, 1, rem)
    <2>1. /\ front = [i \in 1..rem |-> front[i]]
          /\ \A i \in 1..rem : front[i] = Contents[i]
      BY <1>1
    <2>2. ASSUME NEW i \in 1..rem PROVE buf[nextPop + i - 1] = front[i]
      <3>1. i - 1 \in Nat /\ i - 1 < rem /\ i \in 1..size
            /\ nextPop + (i - 1) = nextPop + i - 1
        BY <1>1, <1>2 DEF Indexed, Slots
      <3>2. Wrap(nextPop + (i - 1)) = nextPop + (i - 1)
        BY <1>3, <3>1
      <3>3. Contents[i] = buf[Wrap(nextPop + (i - 1))]
        BY <3>1 DEF Contents
      <3> QED
        BY <2>1, <3>1, <3>2, <3>3
    <2> QED
      BY <2>1, <2>2
  <1> QED
    BY <1>4, <1>5

\* While the array and the indices stay, so do the contents.
LEMMA ContentsStay ==
    ASSUME UNCHANGED <<buf, nextPop, nextPush>>
    PROVE  Contents' = Contents /\ size' = size
  BY DEF Contents, size, Wrap, kArraySize

\* Between the calls the queue is the contents, before a step and after it.
LEMMA QuietQueue ==
    /\ call.kind = "none" => FifoQueue = Contents /\ FifoAnswer = answer
    /\ call'.kind = "none" => FifoQueue' = Contents' /\ FifoAnswer' = answer'
  BY DEF FifoQueue, FifoAnswer

LEMMA SameAnswer ==
    ASSUME NEW ok, NEW elements
    PROVE  Fifo!Answer(ok, elements) = Answer(ok, elements)
  BY DEF Fifo!Answer, Answer

\* What a step must do to be a call of the queue that succeeds or fails.
LEMMA PutFails ==
    ASSUME NEW s, ~(Len(FifoQueue) + Len(s) <= Capacity),
           FifoQueue' = FifoQueue, FifoAnswer' = Answer(FALSE, <<>>)
    PROVE  Fifo!Put(s)
  <1>1. (Len(FifoQueue) + Len(s) <= Capacity) = FALSE
    OBVIOUS
  <1> QED
    BY <1>1, SameAnswer DEF Fifo!Put

LEMMA PutFits ==
    ASSUME NEW s, Len(FifoQueue) + Len(s) <= Capacity,
           FifoQueue' = FifoQueue \o s, FifoAnswer' = Answer(TRUE, <<>>)
    PROVE  Fifo!Put(s)
  <1>1. (Len(FifoQueue) + Len(s) <= Capacity) = TRUE
    OBVIOUS
  <1> QED
    BY <1>1, SameAnswer DEF Fifo!Put

LEMMA TakeFails ==
    ASSUME NEW n, ~(n <= Len(FifoQueue)),
           FifoQueue' = FifoQueue, FifoAnswer' = Answer(FALSE, <<>>)
    PROVE  Fifo!Take(n)
  <1>1. (n <= Len(FifoQueue)) = FALSE
    OBVIOUS
  <1> QED
    BY <1>1, SameAnswer DEF Fifo!Take

LEMMA TakeFits ==
    ASSUME NEW n, n <= Len(FifoQueue),
           FifoQueue' = SubSeq(FifoQueue, n + 1, Len(FifoQueue)),
           FifoAnswer' = Answer(TRUE, SubSeq(FifoQueue, 1, n))
    PROVE  Fifo!Take(n)
  <1>1. (n <= Len(FifoQueue)) = TRUE
    OBVIOUS
  <1> QED
    BY <1>1, SameAnswer DEF Fifo!Take

LEMMA JoinAssociative ==
    ASSUME NEW s \in Seq(Elements), NEW t \in Seq(Elements), NEW u \in Seq(Elements)
    PROVE  (s \o t) \o u = s \o (t \o u)
  OBVIOUS

LEMMA SplitAndJoin ==
    ASSUME NEW r \in Seq(Elements), NEW n \in 0..Len(r)
    PROVE  /\ SubSeq(r, 1, n) \in Seq(Elements)
           /\ SubSeq(r, n + 1, Len(r)) \in Seq(Elements)
           /\ SubSeq(r, 1, n) \o SubSeq(r, n + 1, Len(r)) = r
  <1>1. PICK front : front = SubSeq(r, 1, n)
    OBVIOUS
  <1>2. PICK back : back = SubSeq(r, n + 1, Len(r))
    OBVIOUS
  <1>3. /\ front \in Seq(Elements) /\ Len(front) = n
        /\ \A i \in 1..n : front[i] = r[i]
    BY <1>1
  <1>4. /\ back \in Seq(Elements) /\ Len(back) = Len(r) - n
        /\ \A i \in 1..(Len(r) - n) : back[i] = r[i + n]
    BY <1>2
  <1>5. front \o back \in Seq(Elements) /\ Len(front \o back) = Len(r)
    BY <1>3, <1>4
  <1>6. ASSUME NEW i \in 1..Len(r) PROVE (front \o back)[i] = r[i]
    <2>1. CASE i <= n
      <3>1. (front \o back)[i] = front[i]
        BY <1>3, <1>4, <2>1
      <3> QED
        BY <1>3, <2>1, <3>1
    <2>2. CASE i > n
      <3>1. i - n \in 1..(Len(r) - n) /\ i - n + n = i
        BY <2>2
      <3>2. (front \o back)[i] = back[i - n]
        BY <1>3, <1>4, <2>2
      <3>3. back[i - n] = r[i - n + n]
        BY <1>4, <3>1
      <3> QED
        BY <3>1, <3>2, <3>3
    <2>3. Len(r) \in Nat
      OBVIOUS
    <2>4. i <= n \/ i > n
      BY <2>3
    <2> QED
      BY <2>1, <2>2, <2>4
  <1>7. front \o back = r
    <2>1. PICK whole : whole = front \o back
      OBVIOUS
    <2>2. /\ whole \in Seq(Elements) /\ Len(whole) = Len(r)
          /\ \A i \in 1..Len(r) : whole[i] = r[i]
      BY <1>5, <1>6, <2>1
    <2>3. whole = r
      BY <2>2, SeqEqual
    <2> QED
      BY <2>1, <2>3
  <1> QED
    BY <1>1, <1>2, <1>3, <1>4, <1>7

LEMMA SequenceFacts ==
    ASSUME NEW s \in Seq(Elements)
    PROVE  s \o <<>> = s /\ SubSeq(s, 1, Len(s)) = s /\ SubSeq(s, 1, 0) = <<>>
  OBVIOUS

\* What is left after two cuts, and what the cuts gave.
LEMMA TwoCuts ==
    ASSUME NEW s \in Seq(Elements), NEW n \in 0..Len(s), NEW m \in 0..Len(s),
           n <= m
    PROVE  /\ SubSeq(SubSeq(s, n + 1, Len(s)), m - n + 1, Len(s) - n)
                 = SubSeq(s, m + 1, Len(s))
           /\ SubSeq(s, 1, n) \in Seq(Elements)
           /\ SubSeq(SubSeq(s, n + 1, Len(s)), 1, m - n) \in Seq(Elements)
           /\ SubSeq(s, 1, n) \o SubSeq(SubSeq(s, n + 1, Len(s)), 1, m - n)
                 = SubSeq(s, 1, m)
  <1>1. SubSeq(SubSeq(s, n + 1, Len(s)), m - n + 1, Len(s) - n)
           = SubSeq(s, m + 1, Len(s))
    OBVIOUS
  <1>2. /\ SubSeq(s, 1, n) \in Seq(Elements)
        /\ SubSeq(SubSeq(s, n + 1, Len(s)), 1, m - n) \in Seq(Elements)
    OBVIOUS
  <1>3. SubSeq(s, 1, n) \o SubSeq(SubSeq(s, n + 1, Len(s)), 1, m - n)
           = SubSeq(s, 1, m)
    OBVIOUS
  <1> QED
    BY <1>1, <1>2, <1>3

\* Every step is a step of the queue, or changes nothing of it.
LEMMA StepFifo == IInv /\ IInv' /\ [Next]_vars => [Fifo!Next]_(Fifo!vars)
  <1> SUFFICES ASSUME IInv, IInv', [Next]_vars
               PROVE  [Fifo!Next]_(Fifo!vars)
    OBVIOUS
  <1>1. /\ Contents \in Seq(Elements) /\ Len(Contents) = size
        /\ size \in 0..Capacity /\ Indexed /\ LoopOK /\ TypeOK
    BY ContentsType, InvIndexed DEF IInv
  <1>2. UNCHANGED <<FifoQueue, FifoAnswer>> => UNCHANGED Fifo!vars
    BY DEF Fifo!vars
  <1>3. ASSUME NEW n \in 0..MaxLen, NEW s \in [1..n -> Elements], Fifo!Put(s)
        PROVE  Fifo!Next
    BY <1>3 DEF Fifo!Next
  <1>4. ASSUME NEW n \in 0..MaxLen, Fifo!Take(n) PROVE Fifo!Next
    BY <1>4 DEF Fifo!Next
  <1>5. ASSUME NEW a \in Elements, Push(a) PROVE Fifo!Next
    <2>1. PICK s : s = <<a>>
      OBVIOUS
    <2>2. /\ s \in [1..1 -> Elements] /\ s \in Seq(Elements) /\ Len(s) = 1
          /\ SubSeq(s, 1, 1) = s /\ 1 \in 0..MaxLen /\ 1 \in Nat /\ 1 <= Len(s)
      <3>1. s = [i \in 1..1 |-> a]
        BY <2>1
      <3>2. s \in [1..1 -> Elements]
        BY <3>1
      <3>3. s \in Seq(Elements) /\ Len(s) = 1
        BY <2>1
      <3>4. SubSeq(s, 1, 1) = s
        BY <3>3, SequenceFacts
      <3> QED
        BY <3>2, <3>3, <3>4
    <2>3. /\ call.kind = "none" /\ call'.kind = "none"
          /\ FifoQueue = Contents /\ FifoAnswer = answer
          /\ FifoQueue' = Contents' /\ FifoAnswer' = answer'
      BY <1>5, QuietQueue DEF Push, Ready
    <2>4. CASE full
      <3>1. Contents' = Contents /\ answer' = Answer(FALSE, <<>>)
        BY <1>5, <2>4, ContentsStay DEF Push
      <3>2. ~(Len(Contents) + Len(s) <= Capacity)
        BY <1>1, <2>2, <2>4, SizeBounds
      <3>3. Fifo!Put(s)
        BY <2>3, <3>1, <3>2, PutFails
      <3> QED
        BY <1>3, <2>2, <3>3
    <2>5. CASE ~full
      <3>1. /\ 1 <= one_push_capacity /\ 1 <= rest_capacity
            /\ buf' = CopiedIn(s, 1) /\ nextPop' = nextPop
            /\ nextPush' = IF nextPush + 1 = kArraySize THEN 0 ELSE nextPush + 1
        BY <1>5, <2>1, <2>5, PushIsRun DEF Push
      <3>2. Contents' = Contents \o s
        BY <2>2, <3>1, ContentsGrow
      <3>3. Len(Contents) + Len(s) <= Capacity /\ answer' = Answer(TRUE, <<>>)
        BY <1>1, <1>5, <2>2, <2>5, <3>1 DEF Push, rest_capacity
      <3>4. Fifo!Put(s)
        BY <2>3, <3>2, <3>3, PutFits
      <3> QED
        BY <1>3, <2>2, <3>4
    <2> QED
      BY <2>4, <2>5
  <1>6. CASE Pop
    <2>1. /\ call.kind = "none" /\ call'.kind = "none"
          /\ FifoQueue = Contents /\ FifoAnswer = answer
          /\ FifoQueue' = Contents' /\ FifoAnswer' = answer'
      BY <1>6, QuietQueue DEF Pop, Ready
    <2>2. CASE empty
      <3>1. Contents' = Contents /\ answer' = Answer(FALSE, <<>>)
        BY <1>6, <2>2, ContentsStay DEF Pop
      <3>2. ~(1 <= Len(Contents))
        BY <1>1, <2>2, SizeBounds
      <3>3. Fifo!Take(1)
        BY <2>1, <3>1, <3>2, TakeFails
      <3> QED
        BY <1>4, <3>3
    <2>3. CASE ~empty
      <3>1. /\ 1 <= one_pop_capacity /\ 1 <= size
            /\ nextPush' = nextPush /\ buf' = buf
            /\ nextPop' = IF nextPop + 1 = kArraySize THEN 0 ELSE nextPop + 1
            /\ answer' = Answer(TRUE, <<buf[nextPop]>>)
        BY <1>6, <2>3, PopIsRun DEF Pop
      <3>2. /\ Contents' = SubSeq(Contents, 1 + 1, size)
            /\ [i \in 1..1 |-> buf[nextPop + i - 1]] = SubSeq(Contents, 1, 1)
        BY <3>1, ContentsShrink
      <3>3. [i \in 1..1 |-> buf[nextPop + i - 1]] = <<buf[nextPop]>>
        BY <1>1 DEF Indexed, Slots
      <3>4. Fifo!Take(1)
        BY <1>1, <2>1, <3>1, <3>2, <3>3, TakeFits
      <3> QED
        BY <1>4, <3>4
    <2> QED
      BY <2>2, <2>3
  <1>7. CASE Peek
    <2>1. /\ FifoQueue = Contents /\ FifoAnswer = answer
          /\ FifoQueue' = Contents' /\ FifoAnswer' = answer'
      BY <1>7, QuietQueue DEF Peek, Ready
    <2>2. Contents' = Contents
      BY <1>7, ContentsStay DEF Peek, indices
    <2>3. empty <=> Contents = <<>>
      BY <1>1, SizeBounds
    <2>4. ~empty => buf[nextPop] = Head(Contents)
      <3>1. Wrap(nextPop + 0) = nextPop /\ Wrap(nextPop + (1 - 1)) = nextPop
        BY <1>1 DEF Indexed, Slots, Wrap, kArraySize
      <3>2. ~empty => 1 \in 1..size
        BY <1>1, SizeBounds
      <3>3. ~empty => Contents[1] = buf[nextPop]
        BY <3>1, <3>2 DEF Contents
      <3> QED
        BY <1>1, <2>3, <3>3
    <2>5. Fifo!Look
      <3>1. CASE empty
        BY <1>7, <2>1, <2>2, <2>3, <3>1, SameAnswer DEF Peek, Fifo!Look
      <3>2. CASE ~empty
        BY <1>7, <2>1, <2>2, <2>3, <2>4, <3>2, SameAnswer DEF Peek, Fifo!Look
      <3> QED
        BY <3>1, <3>2
    <2> QED
      BY <2>5 DEF Fifo!Next
  <1>8. ASSUME NEW a \in Arguments, PushAll(a) PROVE Fifo!Next
    <2>1. PICK n \in 0..MaxLen : a \in [1..n -> Elements]
      BY DEF Arguments
    <2>2. a \in Seq(Elements) /\ Len(a) = n
      BY <2>1
    <2>3. FifoQueue = Contents /\ FifoAnswer = answer /\ Contents' = Contents
      BY <1>8, QuietQueue, ContentsStay DEF PushAll, Ready, indices
    <2>4. CASE rest_capacity < Len(a)
      <3>1. FifoQueue' = Contents' /\ FifoAnswer' = answer'
        BY <1>8, <2>4, QuietQueue DEF PushAll, Ready
      <3>2. ~(Len(Contents) + Len(a) <= Capacity)
        BY <1>1, <2>2, <2>4 DEF rest_capacity
      <3>3. answer' = Answer(FALSE, <<>>)
        BY <1>8, <2>4 DEF PushAll
      <3>4. Fifo!Put(a)
        BY <2>3, <3>1, <3>2, <3>3, PutFails
      <3> QED
        BY <1>3, <2>1, <3>4
    <2>5. CASE ~(rest_capacity < Len(a))
      <3>1. call' = PushLoop(a, 0)
        BY <1>8, <2>5 DEF PushAll
      <3>2. call'.kind = "push_all" /\ call'.rest = a
        BY <3>1 DEF PushLoop, Loop
      <3>3. FifoQueue' = Contents \o a /\ FifoAnswer' = Answer(TRUE, <<>>)
        BY <2>3, <3>2 DEF FifoQueue, FifoAnswer, Answer
      <3>4. Len(Contents) + Len(a) <= Capacity
        BY <1>1, <2>2, <2>5 DEF rest_capacity
      <3>5. Fifo!Put(a)
        BY <2>3, <3>3, <3>4, PutFits
      <3> QED
        BY <1>3, <2>1, <3>5
    <2> QED
      BY <2>4, <2>5
  <1>9. ASSUME NEW len \in 0..MaxLen, PopAll(len) PROVE Fifo!Next
    <2>1. FifoQueue = Contents /\ FifoAnswer = answer
          /\ Contents' = Contents /\ size' = size
      BY <1>9, QuietQueue, ContentsStay DEF PopAll, Ready, indices
    <2>2. CASE size < len
      <3>1. FifoQueue' = Contents' /\ FifoAnswer' = answer'
        BY <1>9, <2>2, QuietQueue DEF PopAll, Ready
      <3>2. ~(len <= Len(Contents)) /\ answer' = Answer(FALSE, <<>>)
        BY <1>1, <1>9, <2>2 DEF PopAll
      <3>3. Fifo!Take(len)
        BY <2>1, <3>1, <3>2, TakeFails
      <3> QED
        BY <1>4, <3>3
    <2>3. CASE ~(size < len)
      <3>1. call' = PopLoop(len, <<>>, 0)
        BY <1>9, <2>3 DEF PopAll
      <3>2. call'.kind = "pop" /\ call'.want = len /\ call'.got = <<>>
        BY <3>1 DEF PopLoop, Loop
      <3>3. <<>> \o SubSeq(Contents, 1, len) = SubSeq(Contents, 1, len)
        BY <1>1, <2>3
      <3>4. /\ FifoQueue' = SubSeq(Contents, len + 1, size)
            /\ FifoAnswer' = Answer(TRUE, SubSeq(Contents, 1, len))
        BY <2>1, <3>2, <3>3 DEF FifoQueue, FifoAnswer, Answer
      <3>5. len <= Len(Contents)
        BY <1>1, <2>3
      <3>6. Fifo!Take(len)
        BY <1>1, <2>1, <3>4, <3>5, TakeFits
      <3> QED
        BY <1>4, <3>6
    <2> QED
      BY <2>2, <2>3
  <1>10. ASSUME try_push PROVE UNCHANGED <<FifoQueue, FifoAnswer>>
    <2> DEFINE rem == Least(Len(call.rest), one_push_capacity)
    <2>1. /\ call.kind = "push_all" /\ call.rest # <<>>
          /\ call.rest \in Seq(Elements) /\ Len(call.rest) \in Nat \ {0}
          /\ Len(call.rest) <= rest_capacity
          /\ ~aborted /\ ~aborted'
      BY <1>1, <1>10 DEF try_push, LoopOK, TypeOK, Loops, IInv, AssertsHold
    <2>2. /\ one_push_capacity \in Nat
          /\ rem \in Nat /\ rem <= Len(call.rest) /\ rem <= one_push_capacity
          /\ rem <= rest_capacity
      <3>1. rest_capacity \in Nat
        BY <1>1 DEF rest_capacity
      <3> QED
        BY <1>1, <2>1, <3>1, PushRound DEF Least
    <2>3. /\ buf' = CopiedIn(call.rest, rem) /\ nextPop' = nextPop
          /\ nextPush' = IF nextPush + rem = kArraySize THEN 0 ELSE nextPush + rem
          /\ call' = PushLoop(SubSeq(call.rest, rem + 1, Len(call.rest)),
                              call.rounds + 1)
      BY <1>10, <2>1 DEF try_push, Abort
    <2>4. Contents' = Contents \o SubSeq(call.rest, 1, rem)
      BY <2>1, <2>2, <2>3, ContentsGrow
    <2>5. call'.kind = "push_all"
          /\ call'.rest = SubSeq(call.rest, rem + 1, Len(call.rest))
      BY <2>3 DEF PushLoop, Loop
    <2>6. (Contents \o SubSeq(call.rest, 1, rem))
             \o SubSeq(call.rest, rem + 1, Len(call.rest)) = Contents \o call.rest
      <3> DEFINE front == SubSeq(call.rest, 1, rem)
                 back  == SubSeq(call.rest, rem + 1, Len(call.rest))
      <3>1. rem \in 0..Len(call.rest)
        BY <2>1, <2>2
      <3>2. /\ front \in Seq(Elements) /\ back \in Seq(Elements)
            /\ front \o back = call.rest
        BY <2>1, <3>1, SplitAndJoin
      <3>3. (Contents \o front) \o back = Contents \o (front \o back)
        BY <1>1, <3>2, JoinAssociative
      <3> QED
        BY <3>2, <3>3
    <2> QED
      BY <2>1, <2>4, <2>5, <2>6 DEF FifoQueue, FifoAnswer, Answer
  <1>11. ASSUME try_pop PROVE UNCHANGED <<FifoQueue, FifoAnswer>>
    <2> DEFINE rem == Least(call.want, one_pop_capacity)
               run == [i \in 1..rem |-> buf[nextPop + i - 1]]
    <2>1. /\ call.kind = "pop" /\ call.want \in Nat \ {0}
          /\ call.want <= size /\ call.got \in Seq(Elements)
          /\ ~aborted /\ ~aborted'
      BY <1>1, <1>11 DEF try_pop, LoopOK, TypeOK, Loops, IInv, AssertsHold
    <2>2. /\ rem \in Nat /\ rem <= call.want /\ rem <= one_pop_capacity
          /\ rem <= size
      BY <1>1, <2>1, PopRound DEF Least
    <2>3. /\ nextPush' = nextPush /\ buf' = buf
          /\ nextPop' = IF nextPop + rem = kArraySize THEN 0 ELSE nextPop + rem
          /\ call' = PopLoop(call.want - rem, call.got \o run, call.rounds + 1)
      BY <1>11, <2>1 DEF try_pop, Abort
    <2>4. /\ Contents' = SubSeq(Contents, rem + 1, size)
          /\ run = SubSeq(Contents, 1, rem)
      BY <2>2, <2>3, ContentsShrink
    <2>5. size' = size - rem
      BY <1>1, <2>2, <2>3, PoppedSize
    <2>6. /\ call'.kind = "pop" /\ call'.want = call.want - rem
          /\ call'.got = call.got \o run
      BY <2>3 DEF PopLoop, Loop
    <2>7. /\ SubSeq(SubSeq(Contents, rem + 1, size), call.want - rem + 1, size - rem)
                = SubSeq(Contents, call.want + 1, size)
          /\ SubSeq(Contents, 1, rem) \in Seq(Elements)
          /\ SubSeq(SubSeq(Contents, rem + 1, size), 1, call.want - rem) \in Seq(Elements)
          /\ SubSeq(Contents, 1, rem)
                \o SubSeq(SubSeq(Contents, rem + 1, size), 1, call.want - rem)
                = SubSeq(Contents, 1, call.want)
      <3>1. rem \in 0..Len(Contents) /\ call.want \in 0..Len(Contents)
        BY <1>1, <2>1, <2>2
      <3>2. /\ SubSeq(SubSeq(Contents, rem + 1, Len(Contents)),
                      call.want - rem + 1, Len(Contents) - rem)
                  = SubSeq(Contents, call.want + 1, Len(Contents))
            /\ SubSeq(Contents, 1, rem) \in Seq(Elements)
            /\ SubSeq(SubSeq(Contents, rem + 1, Len(Contents)), 1, call.want - rem)
                  \in Seq(Elements)
            /\ SubSeq(Contents, 1, rem)
                  \o SubSeq(SubSeq(Contents, rem + 1, Len(Contents)), 1,
                            call.want - rem)
                  = SubSeq(Contents, 1, call.want)
        <4> HIDE DEF rem
        <4> QED
          BY <1>1, <2>2, <3>1, TwoCuts
      <3> QED
        BY <1>1, <3>2
    <2>8. (call.got \o run) \o SubSeq(SubSeq(Contents, rem + 1, size), 1, call.want - rem)
             = call.got \o SubSeq(Contents, 1, call.want)
      <3>1. (call.got \o SubSeq(Contents, 1, rem))
               \o SubSeq(SubSeq(Contents, rem + 1, size), 1, call.want - rem)
               = call.got \o SubSeq(Contents, 1, call.want)
        <4> HIDE DEF rem
        <4> QED
          <5>1. PICK t \in Seq(Elements) : t = SubSeq(Contents, 1, rem)
            BY <2>7
          <5>2. PICK u \in Seq(Elements) :
                   u = SubSeq(SubSeq(Contents, rem + 1, size), 1, call.want - rem)
            BY <2>7
          <5>3. (call.got \o t) \o u = call.got \o (t \o u)
            BY <2>1, JoinAssociative
          <5> QED
            BY <2>7, <5>1, <5>2, <5>3
      <3> QED
        BY <2>4, <3>1
    <2> QED
      BY <2>1, <2>4, <2>5, <2>6, <2>7, <2>8 DEF FifoQueue, FifoAnswer, Answer
  <1>12. ASSUME Return PROVE UNCHANGED <<FifoQueue, FifoAnswer>>
    <2>1. Contents' = Contents /\ size' = size
      BY <1>12, ContentsStay DEF Return, indices
    <2>2. call'.kind = "none" /\ answer' = Answer(TRUE, call.got)
      BY <1>12 DEF Return, NoCall, Loop
    <2>3. FifoQueue' = Contents' /\ FifoAnswer' = answer'
      BY <2>2, QuietQueue
    <2>4. CASE call.kind = "push_all"
      <3>1. call.rest = <<>> /\ call.got = <<>>
        BY <1>1, <1>12, <2>4 DEF Return, LoopOK
      <3> QED
        BY <1>1, <2>1, <2>2, <2>3, <2>4, <3>1, SequenceFacts
        DEF FifoQueue, FifoAnswer
    <2>5. CASE call.kind = "pop"
      <3>1. call.want = 0 /\ call.got \in Seq(Elements)
        BY <1>1, <1>12 DEF Return, TypeOK, Loops
      <3>2. /\ SubSeq(Contents, call.want + 1, size) = Contents
            /\ SubSeq(Contents, 1, call.want) = <<>>
            /\ call.got \o <<>> = call.got
        BY <1>1, <3>1, SequenceFacts
      <3>3. FifoQueue = Contents
        BY <2>5, <3>2 DEF FifoQueue
      <3>4. FifoAnswer = Answer(TRUE, call.got)
        BY <2>5, <3>2 DEF FifoAnswer
      <3> QED
        BY <2>1, <2>2, <2>3, <3>3, <3>4
    <2>6. call.kind \in {"push_all", "pop"}
      BY <1>1, <1>12 DEF Return, TypeOK, Loops
    <2> QED
      BY <2>4, <2>5, <2>6
  <1>13. ASSUME UNCHANGED vars PROVE UNCHANGED <<FifoQueue, FifoAnswer>>
    <2>1. Contents' = Contents /\ size' = size
      BY <1>13, ContentsStay DEF vars
    <2> QED
      BY <1>13, <2>1 DEF vars, FifoQueue, FifoAnswer, Answer
  <1> QED
    BY <1>2, <1>5, <1>6, <1>7, <1>8, <1>9, <1>10, <1>11, <1>12, <1>13 DEF Next

\* The empty array is the empty queue.
LEMMA InitFifo == Init => Fifo!Init
  <1> SUFFICES ASSUME Init PROVE Fifo!Init
    OBVIOUS
  <1>1. IInv /\ call.kind = "none" /\ answer = Answer(TRUE, <<>>)
    BY InitInv DEF Init, NoCall, Loop
  <1>2. FifoQueue = Contents /\ FifoAnswer = answer
    BY <1>1, QuietQueue
  <1>3. size = 0
    BY DEF Init, size, Wrap, kArraySize
  <1>4. Contents = <<>>
    BY <1>1, <1>3, ContentsType
  <1> QED
    BY <1>1, <1>2, <1>4, SameAnswer DEF Fifo!Init

\* For every capacity, an array with two indices whose calls copy in rounds is
\* a bounded queue whose calls are atomic and all or nothing.
THEOREM RingIsFifo == Spec => ImplementsFifo
  <1>1. Init => Fifo!Init
    BY InitFifo
  <1>2. IInv /\ IInv' /\ [Next]_vars => [Fifo!Next]_(Fifo!vars)
    BY StepFifo
  <1> QED
    BY <1>1, <1>2, Invariant, PTL DEF Spec, ImplementsFifo, Fifo!Spec

=============================================================================
