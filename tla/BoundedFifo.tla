---------------------------- MODULE BoundedFifo ----------------------------
(***************************************************************************)
(* What the users of ringbuffer.h count on: a queue of at most Capacity    *)
(* elements whose calls are atomic and all or nothing.  answer is what the *)
(* last call returned: whether it succeeded and the elements it handed out.*)
(***************************************************************************)
EXTENDS Naturals, Sequences

CONSTANTS
    Capacity,   \* the elements the queue can hold
    Elements,   \* what it holds
    MaxLen      \* bound: the longest argument of a call

VARIABLES queue, answer

vars == <<queue, answer>>

Answer(ok, elements) == [ok |-> ok, elements |-> elements]

Init == queue = <<>> /\ answer = Answer(TRUE, <<>>)

\* push() of one element and push_all(): they fail exactly when s does not fit.
Put(s) ==
    LET fits == Len(queue) + Len(s) <= Capacity
    IN  /\ queue' = IF fits THEN queue \o s ELSE queue
        /\ answer' = Answer(fits, <<>>)

\* pop(): it fails exactly when there are fewer than n elements.
Take(n) ==
    LET there == n <= Len(queue)
    IN  /\ queue' = IF there THEN SubSeq(queue, n + 1, Len(queue)) ELSE queue
        /\ answer' = Answer(there, IF there THEN SubSeq(queue, 1, n) ELSE <<>>)

\* peek()
Look == /\ answer' = Answer(queue # <<>>, IF queue = <<>> THEN <<>>
                                                        ELSE <<Head(queue)>>)
        /\ UNCHANGED queue

Next == \/ \E n \in 0..MaxLen : Take(n) \/ \E s \in [1..n -> Elements] : Put(s)
        \/ Look

Spec == Init /\ [][Next]_vars

=============================================================================
