--------------------------- MODULE CommandService ---------------------------
(***************************************************************************)
(* What the relay promises its callers about a command, with no queue, no  *)
(* threads and no failures in sight: only commands that were sent are ever *)
(* carried out, a workflow is carried out at most once, other commands may *)
(* be carried out again, and only a command that was carried out is        *)
(* answered.                                                               *)
(***************************************************************************)
EXTENDS Naturals

CONSTANTS Commands, Once    \* Once: the commands carried out at most once

VARIABLES sent, done, replied

TypeOK ==
    /\ sent \in SUBSET Commands
    /\ done \in [Commands -> Nat]
    /\ replied \in SUBSET Commands

Init ==
    /\ sent = {}
    /\ done = [c \in Commands |-> 0]
    /\ replied = {}

Request(c) ==
    /\ c \notin sent
    /\ sent' = sent \cup {c}
    /\ UNCHANGED <<done, replied>>

CarryOut(c) ==
    /\ c \in sent
    /\ c \in Once => done[c] = 0
    /\ done' = [done EXCEPT ![c] = @ + 1]
    /\ UNCHANGED <<sent, replied>>

Reply(c) ==
    /\ done[c] > 0
    /\ replied' = replied \cup {c}
    /\ UNCHANGED <<sent, done>>

Next == \E c \in Commands : Request(c) \/ CarryOut(c) \/ Reply(c)

Spec == Init /\ [][Next]_<<sent, done, replied>>
=============================================================================
