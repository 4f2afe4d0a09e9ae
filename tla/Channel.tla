------------------------------- MODULE Channel -------------------------------
(***************************************************************************)
(* What every buffering primitive under rtl/common/primitives promises: a  *)
(* first-in first-out channel of bounded capacity.  A word is accepted     *)
(* once and handed over once, in order and unaltered.  One clock edge may  *)
(* accept a word, hand one over, or do both.                               *)
(*                                                                         *)
(* queue holds the accepted words that the consumer has not taken yet and  *)
(* taken the word the consumer took last.                                  *)
(***************************************************************************)
EXTENDS Naturals, Sequences

CONSTANTS Data, Capacity

VARIABLES queue, taken

Init == queue = << >> /\ taken \in Data

Put(d) == /\ Len(queue) < Capacity
          /\ queue' = Append(queue, d)
          /\ UNCHANGED taken

Take == /\ queue # << >>
        /\ taken' = Head(queue)
        /\ queue' = Tail(queue)

PutAndTake(d) == /\ queue # << >>
                 /\ taken' = Head(queue)
                 /\ queue' = Append(Tail(queue), d)

Next == \/ \E d \in Data : Put(d) \/ PutAndTake(d)
        \/ Take

Spec == Init /\ [][Next]_<<queue, taken>>
=============================================================================
