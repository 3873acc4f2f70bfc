------------------------------- MODULE Mailbox -------------------------------
(***************************************************************************)
(* What one agent session promises about the relay's answers, with no      *)
(* threads, polls or acknowledgements in sight: an answer is posted, kept, *)
(* handed to a caller or lost, and comes from nowhere else. An answer      *)
(* leaves the subscription only when it is in one of the other places; it  *)
(* may be found there again after it was handed over (redelivery).         *)
(***************************************************************************)
CONSTANT Commands

VARIABLES
    posted,     \* answers the subscription still has to deliver
    kept,       \* answers put aside for a caller that has yet to ask
    handed,     \* answers a caller has got
    lost        \* answers some caller will have to do without

TypeOK == {posted, kept, handed, lost} \subseteq SUBSET Commands

Init == posted = {} /\ kept = {} /\ handed = {} /\ lost = {}

\* A published answer is delivered to the subscription, or to nobody.
Post(c) ==
    /\ \/ posted' = posted \cup {c} /\ UNCHANGED lost
       \/ lost' = lost \cup {c} /\ UNCHANGED posted
    /\ UNCHANGED <<kept, handed>>

\* Anything a session does with the answers it has.
Move ==
    /\ posted' \subseteq posted
    /\ kept' \subseteq kept \cup posted
    /\ handed \subseteq handed' /\ handed' \subseteq handed \cup kept \cup posted
    /\ lost \subseteq lost' /\ lost' \subseteq lost \cup kept \cup posted
    /\ posted \cup kept \subseteq posted' \cup kept' \cup handed' \cup lost'

Next == Move \/ \E c \in Commands : Post(c)

Spec == Init /\ [][Next]_<<posted, kept, handed, lost>>
=============================================================================
