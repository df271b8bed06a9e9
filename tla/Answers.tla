------------------------------ MODULE Answers -------------------------------
(***************************************************************************)
(* What the linkkit device model promises to a program that posts: every   *)
(* message it has taken on is answered once, by the reply of the cloud or  *)
(* by a timeout, unless it is given up for want of room; and no message is *)
(* answered that nobody waits for.                                         *)
(***************************************************************************)
EXTENDS Naturals

CONSTANT Ids        \* message ids

VARIABLES posted,   \* the messages taken on so far
          waiting,  \* those that are still to be answered
          answers   \* id -> how often the program was called back for it

Init == posted = {} /\ waiting = {} /\ answers = [i \in Ids |-> 0]

Post(i) == /\ i \in Ids \ posted
           /\ posted' = posted \cup {i}
           /\ waiting' = waiting \cup {i}
           /\ UNCHANGED answers

Answer(i) == /\ i \in waiting
             /\ waiting' = waiting \ {i}
             /\ answers' = [answers EXCEPT ![i] = @ + 1]
             /\ UNCHANGED posted

GiveUp(is) == /\ waiting' = waiting \ is
              /\ UNCHANGED <<posted, answers>>

Next == \/ \E i \in Ids : Post(i) \/ Answer(i)
        \/ \E is \in SUBSET waiting : GiveUp(is)

Spec == Init /\ [][Next]_<<posted, waiting, answers>>
=============================================================================
