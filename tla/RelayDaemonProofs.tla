------------------------- MODULE RelayDaemonProofs -------------------------
(***************************************************************************)
(* Proofs about RelayDaemon for any set of commands, pool size and bounds: *)
(* its types, that a workflow runs at most once, that no acknowledged      *)
(* command is forgotten, and that the daemon implements CommandService.    *)
(***************************************************************************)
EXTENDS RelayDaemon, Integers, SequenceTheorems, FiniteSetTheorems, TLAPS

\* A command whose worker has come to its end: answered, given up, or raised.
Concluded(c) == c \in answered \/ lostTo[c] \cap {"publish", "raised"} # {}

\* What a busy worker holds, and how far its command is known to have got.
WorkerInv ==
    \A w \in Workers :
        /\ at[w] # "idle" => job[w] \in Commands /\ msg[job[w]] # "unsent"
        /\ at[w] \in {"handle", "publish"} => execs[job[w]] > 0
        /\ at[w] = "ack" =>
              ~LongRunning(job[w]) /\ Concluded(job[w])

\* Nothing waits in the process that was not sent.
SentInv ==
    /\ \A c \in batch : msg[c] # "unsent"
    /\ \A i \in 1..Len(tasks) : msg[tasks[i]] # "unsent"

\* Where a workflow.run can be: in the batch only while it is leased, in the
\* task queue only once it is acknowledged, once, and not yet executed.
RunInv ==
    \A c \in Commands : LongRunning(c) =>
        /\ c \in batch => msg[c] = "leased"
        /\ msg[c] # "acked" =>
              /\ execs[c] = 0
              /\ \A i \in 1..Len(tasks) : tasks[i] # c
        /\ \A i \in 1..Len(tasks) : tasks[i] = c =>
              /\ execs[c] = 0
              /\ \A j \in 1..Len(tasks) : tasks[j] = c => i = j
        /\ execs[c] <= 1

IInv == TypeOK /\ WorkerInv /\ SentInv /\ RunInv

-----------------------------------------------------------------------------
(* Facts about the task queue and the history of losses.                   *)

\* Appending a command adds it at the end and moves nothing.
LEMMA AppendFacts ==
    ASSUME NEW c \in Commands, tasks \in Seq(Commands)
    PROVE  LET t == Append(tasks, c) IN
           /\ t \in Seq(Commands)
           /\ Len(t) = Len(tasks) + 1
           /\ Len(tasks) \in Nat
           /\ \A i \in 1..Len(tasks) : t[i] = tasks[i] /\ tasks[i] \in Commands
           /\ t[Len(tasks) + 1] = c
BY AppendProperties, LenProperties, ElementOfSeq

\* Taking the head shifts the rest by one.
LEMMA TailFacts ==
    ASSUME tasks \in Seq(Commands), tasks # <<>>
    PROVE  /\ Tail(tasks) \in Seq(Commands)
           /\ Head(tasks) = tasks[1]
           /\ Head(tasks) \in Commands
           /\ Len(tasks) \in Nat /\ 1 \in 1..Len(tasks)
           /\ Len(Tail(tasks)) = Len(tasks) - 1
           /\ \A i \in 1..Len(Tail(tasks)) :
                 /\ i + 1 \in 1..Len(tasks)
                 /\ Tail(tasks)[i] = tasks[i + 1]
                 /\ tasks[i + 1] \in Commands
<1>1. Len(tasks) \in Nat /\ Len(tasks) # 0
  BY LenProperties, EmptySeq
<1> QED BY <1>1, HeadTailProperties, ElementOfSeq

\* Marking a loss only adds to what was marked before.
LEMMA MarkFacts ==
    ASSUME TypeOK, NEW S \in SUBSET Commands, NEW cause \in Causes
    PROVE  /\ Mark(S, cause) \in [Commands -> SUBSET Causes]
           /\ \A c \in Commands : lostTo[c] \subseteq Mark(S, cause)[c]
           /\ \A c \in S : cause \in Mark(S, cause)[c]
           /\ \A c \in Commands \ S : Mark(S, cause)[c] = lostTo[c]
BY DEF TypeOK, Mark

\* Handing out a set of queued messages changes those messages only.
LEMMA DeliverFacts ==
    ASSUME TypeOK, NEW S \in SUBSET Available, NEW state \in {"acked", "leased"},
           Deliver(S, state)
    PROVE  /\ msg' \in [Commands -> {"unsent", "queued", "leased", "acked", "expired"}]
           /\ deliveries' \in [Commands -> Nat]
           /\ S \in SUBSET Commands
           /\ \A c \in S : msg[c] = "queued" /\ msg'[c] = state
           /\ \A c \in Commands \ S : msg'[c] = msg[c]
BY DEF TypeOK, Deliver, Available

\* Busy workers are untouched by a step of somebody else.
LEMMA WorkerKept ==
    ASSUME TypeOK, WorkerInv,
           UNCHANGED <<job, at, execs>>,
           \A c \in Commands : msg[c] # "unsent" => msg'[c] # "unsent",
           answered \subseteq answered',
           \A c \in Commands : lostTo[c] \subseteq lostTo'[c]
    PROVE  WorkerInv'
BY DEF TypeOK, WorkerInv, Concluded

\* What waits in the queue is a command.
LEMMA TaskType ==
    ASSUME TypeOK
    PROVE  \A i \in 1..Len(tasks) : tasks[i] \in Commands
BY ElementOfSeq DEF TypeOK

-----------------------------------------------------------------------------
(* IInv is inductive: one lemma per group of actions.                      *)

LEMMA InitIInv == Init => IInv
<1> SUFFICES ASSUME Init PROVE IInv
  OBVIOUS
<1> USE DEF Init
<1>1. tasks \in Seq(Commands) /\ 1..Len(tasks) = {}
  BY EmptySeq
<1>2. lostTo \in [Commands -> SUBSET Causes]
  OBVIOUS
<1>3. TypeOK
  BY <1>1, <1>2 DEF TypeOK
<1>4. WorkerInv /\ SentInv /\ RunInv
  BY <1>1 DEF WorkerInv, SentInv, RunInv
<1> QED BY <1>3, <1>4 DEF IInv

\* Steps of the subscription.
LEMMA QueueSteps ==
    ASSUME IInv, NEW c \in Commands,
           Send(c) \/ LeaseExpires(c) \/ RetentionExpires(c)
    PROVE  IInv'
<1> USE DEF IInv, procVars, histVars
<1>1. TypeOK'
  BY DEF TypeOK, Send, LeaseExpires, RetentionExpires
<1>2. /\ \A d \in Commands : msg[d] # "unsent" => msg'[d] # "unsent"
      /\ UNCHANGED <<batch, tasks, job, at, execs, answered, lostTo>>
  BY DEF TypeOK, Send, LeaseExpires, RetentionExpires
<1>3. WorkerInv' /\ SentInv'
  <2>1. WorkerInv'
    BY <1>2, WorkerKept
  <2>2. SentInv'
    BY <1>2, TaskType DEF TypeOK, SentInv
  <2> QED BY <2>1, <2>2
<1>4. RunInv'
  <2>1. UNCHANGED <<batch, tasks, execs>>
    BY DEF Send, LeaseExpires, RetentionExpires
  <2>2. \A d \in batch : msg[d] = "leased" => msg'[d] = "leased"
    BY DEF TypeOK, Send, LeaseExpires, RetentionExpires
  <2>3. \A d \in Commands : msg'[d] = "acked" <=> msg[d] = "acked"
    BY DEF TypeOK, Send, LeaseExpires, RetentionExpires
  <2> QED BY <2>1, <2>2, <2>3 DEF RunInv
<1> QED BY <1>1, <1>3, <1>4

\* Steps that move the main loop from one phase to the next.
LEMMA PhaseSteps ==
    ASSUME IInv, Boot \/ Signal \/ Stopped
    PROVE  IInv'
<1> USE DEF IInv, queueVars, histVars, Boot, Signal, Stopped
<1>1. /\ phase' \in {"down", "draining", "serving", "stopping"}
      /\ restartDue' \in BOOLEAN /\ restarts' \in Nat
  <2>1. restartDue' \in BOOLEAN
    BY Zenon DEF TypeOK
  <2>2. restarts' \in Nat
    <3>1. restarts \in Nat
      BY DEF TypeOK
    <3>2. restarts' = restarts \/ restarts' = restarts + 1
      OBVIOUS
    <3> QED BY <3>1, <3>2
  <2> QED BY <2>1, <2>2
<1>2. UNCHANGED <<msg, deliveries, batch, tasks, job, at, execs, answered, lostTo>>
  OBVIOUS
<1>3. TypeOK'
  BY <1>1, <1>2 DEF TypeOK
<1>4. WorkerInv' /\ SentInv' /\ RunInv'
  BY <1>2 DEF WorkerInv, Concluded, SentInv, RunInv
<1> QED BY <1>3, <1>4

LEMMA DrainStep ==
    ASSUME IInv, Drain
    PROVE  IInv'
<1> USE DEF IInv
<1>1. PICK S \in SUBSET Available :
         \/ Deliver(S, "acked") /\ lostTo' = Mark(S, "drain")
         \/ Deliver(S, "leased") /\ UNCHANGED lostTo
  BY DEF Drain
<1>2. /\ msg' \in [Commands -> {"unsent", "queued", "leased", "acked", "expired"}]
      /\ deliveries' \in [Commands -> Nat]
      /\ S \in SUBSET Commands
      /\ \A c \in S : msg[c] = "queued" /\ msg'[c] \in {"acked", "leased"}
      /\ \A c \in Commands \ S : msg'[c] = msg[c]
  BY <1>1, DeliverFacts
<1>3. /\ lostTo' \in [Commands -> SUBSET Causes]
      /\ \A c \in Commands : lostTo[c] \subseteq lostTo'[c]
  BY <1>1, <1>2, MarkFacts DEF TypeOK, Causes
<1>4. UNCHANGED <<batch, tasks, job, at, execs, answered>>
  BY DEF Drain
<1>5. TypeOK'
  BY <1>2, <1>3 DEF TypeOK, Drain
<1>6. WorkerInv'
  <2>1. \A d \in Commands : msg[d] # "unsent" => msg'[d] # "unsent"
    BY <1>2
  <2> QED BY <1>3, <1>4, <2>1, WorkerKept
<1>7. SentInv'
  <2>1. \A i \in 1..Len(tasks) : tasks[i] \in Commands
    BY TaskType
  <2>2. \A d \in Commands : msg[d] # "unsent" => msg'[d] # "unsent"
    BY <1>2
  <2>3. batch' = batch /\ tasks' = tasks /\ batch \subseteq Commands
    BY <1>4 DEF TypeOK
  <2> QED BY <2>1, <2>2, <2>3 DEF SentInv
<1>8. RunInv'
  BY <1>2, <1>4 DEF TypeOK, RunInv
<1> QED BY <1>5, <1>6, <1>7, <1>8

LEMMA PullStep ==
    ASSUME IInv, Pull
    PROVE  IInv'
<1> USE DEF IInv
<1>1. PICK S \in SUBSET Available : Deliver(S, "leased") /\ batch' = S
  BY DEF Pull
<1>2. /\ msg' \in [Commands -> {"unsent", "queued", "leased", "acked", "expired"}]
      /\ deliveries' \in [Commands -> Nat]
      /\ S \in SUBSET Commands
      /\ \A c \in S : msg[c] = "queued" /\ msg'[c] = "leased"
      /\ \A c \in Commands \ S : msg'[c] = msg[c]
  BY <1>1, DeliverFacts
<1>3. UNCHANGED <<tasks, job, at, execs, answered, lostTo>>
  BY DEF Pull, histVars
<1>4. TypeOK'
  BY <1>1, <1>2 DEF TypeOK, Pull, histVars
<1>5. WorkerInv'
  <2>1. \A d \in Commands : msg[d] # "unsent" => msg'[d] # "unsent"
    BY <1>2
  <2> QED BY <1>3, <2>1, WorkerKept
<1>6. SentInv'
  <2>1. \A i \in 1..Len(tasks) : tasks[i] \in Commands
    BY TaskType
  <2> QED BY <1>1, <1>2, <1>3, <2>1 DEF TypeOK, SentInv
<1>7. RunInv'
  BY <1>1, <1>2, <1>3 DEF TypeOK, RunInv
<1> QED BY <1>4, <1>5, <1>6, <1>7

\* A run enters the task queue as it is acknowledged, and only then.
LEMMA DispatchLongStep ==
    ASSUME IInv, NEW c \in Commands, DispatchLong(c)
    PROVE  IInv'
<1> USE DEF IInv
<1> DEFINE n == Len(tasks)
<1>1. UNCHANGED <<deliveries, phase, job, at, restartDue, restarts, execs, answered>>
  BY DEF DispatchLong
<1>2. /\ LongRunning(c) /\ msg[c] = "leased" /\ batch' = batch \ {c}
      /\ execs[c] = 0 /\ \A i \in 1..n : tasks[i] # c
  BY DEF DispatchLong, RunInv
<1>3. /\ msg' \in {msg, [msg EXCEPT ![c] = "acked"]}
      /\ lostTo' \in {lostTo, Mark({c}, "dispatch")}
      /\ \/ tasks' = tasks
         \/ tasks' = Append(tasks, c) /\ msg'[c] = "acked"
  BY DEF DispatchLong, TypeOK
<1>4. /\ lostTo' \in [Commands -> SUBSET Causes]
      /\ \A d \in Commands : lostTo[d] \subseteq lostTo'[d]
  BY <1>3, MarkFacts DEF TypeOK, Causes
<1>5. /\ tasks' \in Seq(Commands)
      /\ \A i \in 1..n : tasks'[i] = tasks[i] /\ tasks[i] \in Commands
      /\ n \in Nat
      /\ \/ Len(tasks') = n
         \/ Len(tasks') = n + 1 /\ tasks'[n + 1] = c /\ msg'[c] = "acked"
  <2>1. tasks \in Seq(Commands)
    BY DEF TypeOK
  <2>2. n \in Nat /\ \A i \in 1..n : tasks[i] \in Commands
    BY <2>1, LenProperties, ElementOfSeq
  <2>3. CASE tasks' = tasks
    BY <2>1, <2>2, <2>3
  <2>4. CASE tasks' = Append(tasks, c) /\ msg'[c] = "acked"
    BY <2>1, <2>2, <2>4, AppendFacts
  <2> QED BY <1>3, <2>3, <2>4
<1>6. TypeOK'
  <2>1. msg' \in [Commands -> {"unsent", "queued", "leased", "acked", "expired"}]
    BY <1>3 DEF TypeOK
  <2>2. batch' \in SUBSET Commands
    BY <1>2 DEF TypeOK
  <2> QED BY <1>1, <1>4, <1>5, <2>1, <2>2 DEF TypeOK
<1>7. WorkerInv'
  <2>1. \A d \in Commands : msg[d] # "unsent" => msg'[d] # "unsent"
    BY <1>3 DEF TypeOK
  <2> QED BY <1>1, <1>4, <2>1, WorkerKept
<1>8. SentInv'
  <2>1. \A d \in Commands : msg[d] # "unsent" => msg'[d] # "unsent"
    BY <1>3 DEF TypeOK
  <2>2. \A d \in batch' : msg'[d] # "unsent"
    BY <1>2, <2>1 DEF TypeOK, SentInv
  <2>3. \A i \in 1..Len(tasks') : msg'[tasks'[i]] # "unsent"
    BY <1>5, <2>1 DEF SentInv
  <2> QED BY <2>2, <2>3 DEF SentInv
<1>9. RunInv'
  <2> SUFFICES ASSUME NEW d \in Commands, LongRunning(d)
               PROVE  /\ d \in batch' => msg'[d] = "leased"
                      /\ msg'[d] # "acked" =>
                            /\ execs'[d] = 0
                            /\ \A i \in 1..Len(tasks') : tasks'[i] # d
                      /\ \A i \in 1..Len(tasks') : tasks'[i] = d =>
                            /\ execs'[d] = 0
                            /\ \A j \in 1..Len(tasks') : tasks'[j] = d => i = j
                      /\ execs'[d] <= 1
    BY DEF RunInv
  <2>1. CASE d = c
    <3>1. d \notin batch' /\ execs'[d] = 0
      BY <1>1, <1>2, <2>1
    <3>2. msg'[d] # "acked" => \A i \in 1..Len(tasks') : tasks'[i] # d
      BY <1>2, <1>5, <2>1
    <3>3. \A i \in 1..Len(tasks') : tasks'[i] = d => i = n + 1
      BY <1>2, <1>5, <2>1
    <3> QED BY <3>1, <3>2, <3>3
  <2>2. CASE d # c
    <3>1. msg'[d] = msg[d] /\ execs'[d] = execs[d] /\ (d \in batch' <=> d \in batch)
      BY <1>1, <1>2, <1>3, <2>2 DEF TypeOK
    <3>2. \A i \in 1..Len(tasks') : tasks'[i] = d => i \in 1..n /\ tasks[i] = d
      BY <1>5, <2>2
    <3> QED BY <3>1, <3>2 DEF RunInv
  <2> QED BY <2>1, <2>2
<1> QED BY <1>6, <1>7, <1>8, <1>9

LEMMA DispatchShortStep ==
    ASSUME IInv, NEW c \in Commands, DispatchShort(c)
    PROVE  IInv'
<1> USE DEF IInv
<1> DEFINE n == Len(tasks)
<1>1. UNCHANGED <<msg, deliveries, phase, job, at, restartDue, restarts,
                  execs, answered, lostTo>>
  BY DEF DispatchShort, queueVars, histVars
<1>2. c \in batch /\ ~LongRunning(c) /\ batch' = batch \ {c}
  BY DEF DispatchShort
<1>3. /\ tasks' \in Seq(Commands)
      /\ \A i \in 1..n : tasks'[i] = tasks[i]
      /\ n \in Nat /\ Len(tasks') = n + 1 /\ tasks'[n + 1] = c
  BY AppendFacts DEF TypeOK, DispatchShort
<1>4. TypeOK'
  BY <1>1, <1>2, <1>3 DEF TypeOK
<1>5. WorkerInv'
  BY <1>1 DEF WorkerInv, Concluded
<1>6. SentInv'
  BY <1>1, <1>2, <1>3 DEF SentInv
<1>7. RunInv'
  <2>1. \A d \in Commands : LongRunning(d) =>
           \A i \in 1..Len(tasks') : tasks'[i] = d => i \in 1..n /\ tasks[i] = d
    BY <1>2, <1>3
  <2> QED BY <1>1, <1>2, <2>1 DEF RunInv
<1> QED BY <1>4, <1>5, <1>6, <1>7

\* The process dies: what it held is gone.
LEMMA DieStep ==
    ASSUME IInv, Die
    PROVE  IInv'
<1> USE DEF IInv
<1>1. InProcess \in SUBSET Commands
  <2>1. \A i \in DOMAIN tasks : tasks[i] \in Commands
    BY ElementOfSeq, LenProperties DEF TypeOK
  <2> QED BY <2>1 DEF InProcess, TypeOK, WorkerInv
<1>2. lostTo' \in [Commands -> SUBSET Causes]
  BY <1>1, MarkFacts DEF Die, Causes
<1>3. /\ tasks' \in Seq(Commands) /\ 1..Len(tasks') = {}
      /\ restarts' \in Nat
  BY EmptySeq DEF Die, TypeOK
<1>4. /\ batch' = {}
      /\ job' = [v \in Workers |-> None] /\ at' = [v \in Workers |-> "idle"]
      /\ phase' = "down" /\ restartDue' = FALSE
      /\ UNCHANGED <<msg, deliveries, execs, answered>>
  BY DEF Die, queueVars
<1>5. TypeOK'
  BY <1>2, <1>3, <1>4 DEF TypeOK
<1>6. WorkerInv' /\ SentInv' /\ RunInv'
  BY <1>3, <1>4 DEF WorkerInv, SentInv, RunInv
<1> QED BY <1>5, <1>6

\* A run leaves the task queue for good as it is executed.
LEMMA TakeStep ==
    ASSUME IInv, NEW w \in Workers, Take(w)
    PROVE  IInv'
<1> USE DEF IInv
<1> DEFINE c == Head(tasks)
<1>1. UNCHANGED <<msg, deliveries, phase, batch, restartDue, restarts, answered>>
  BY DEF Take, queueVars
<1>2. /\ tasks' \in Seq(Commands)
      /\ c = tasks[1] /\ c \in Commands
      /\ Len(tasks) \in Nat /\ 1 \in 1..Len(tasks)
      /\ Len(tasks') = Len(tasks) - 1
      /\ \A i \in 1..Len(tasks') :
            i + 1 \in 1..Len(tasks) /\ tasks'[i] = tasks[i + 1]
  BY TailFacts DEF Take, TakeHead, TypeOK
<1>3. \/ /\ job' = [job EXCEPT ![w] = c]
         /\ at' = [at EXCEPT ![w] = "handle"]
         /\ execs' = [execs EXCEPT ![c] = @ + 1]
         /\ lostTo' = lostTo
      \/ /\ ~LongRunning(c)
         /\ job' = [job EXCEPT ![w] = c]
         /\ at' = [at EXCEPT ![w] = "ack"]
         /\ execs' = execs
         /\ lostTo' = Mark({c}, "raised")
      \/ /\ UNCHANGED <<job, at, execs>>
         /\ lostTo' = Mark({c}, "raised")
  BY DEF Take, Enter, ReceiptRaises
<1> HIDE DEF c
<1>a. /\ lostTo' \in [Commands -> SUBSET Causes]
      /\ \A d \in Commands : lostTo[d] \subseteq lostTo'[d]
  <2>1. {c} \in SUBSET Commands /\ "raised" \in Causes
    BY <1>2 DEF Causes
  <2>2. CASE lostTo' = lostTo
    BY <2>2 DEF TypeOK
  <2>3. CASE lostTo' = Mark({c}, "raised")
    BY <2>1, <2>3, MarkFacts
  <2> QED BY <1>3, <2>2, <2>3
<1>b. \A d \in Commands : /\ execs[d] > 0 => execs'[d] > 0
                          /\ d # c => execs'[d] = execs[d]
                          /\ execs'[d] \in {execs[d], execs[d] + 1}
  BY <1>2, <1>3 DEF TypeOK
<1>4. TypeOK'
  <2>1. /\ job' \in [Workers -> Commands \cup {None}]
        /\ at' \in [Workers -> {"idle", "handle", "publish", "ack"}]
    BY <1>2, <1>3 DEF TypeOK
  <2>2. execs' \in [Commands -> Nat]
    BY <1>2, <1>3 DEF TypeOK
  <2> QED BY <1>1, <1>2, <1>a, <2>1, <2>2 DEF TypeOK
<1>5. WorkerInv'
  <2>1. msg[c] # "unsent"
    BY <1>2 DEF SentInv
  <2>2. ASSUME NEW v \in Workers, at'[v] = at[v], job'[v] = job[v]
        PROVE  /\ at'[v] # "idle" => job'[v] \in Commands /\ msg'[job'[v]] # "unsent"
               /\ at'[v] \in {"handle", "publish"} => execs'[job'[v]] > 0
               /\ at'[v] = "ack" => ~LongRunning(job'[v]) /\ (job'[v] \in answered' \/ lostTo'[job'[v]] \cap {"publish", "raised"} # {})
    BY <1>1, <1>a, <1>b, <2>2 DEF WorkerInv, Concluded
  <2>3. /\ at'[w] # "idle" => job'[w] \in Commands /\ msg'[job'[w]] # "unsent"
        /\ at'[w] \in {"handle", "publish"} => execs'[job'[w]] > 0
        /\ at'[w] = "ack" => ~LongRunning(job'[w]) /\ (job'[w] \in answered' \/ lostTo'[job'[w]] \cap {"publish", "raised"} # {})
    <3>1. CASE job'[w] = job[w] /\ at'[w] = at[w]
      BY <2>2, <3>1
    <3>2. CASE /\ job' = [job EXCEPT ![w] = c]
               /\ at' = [at EXCEPT ![w] = "handle"]
               /\ execs' = [execs EXCEPT ![c] = @ + 1]
      BY <1>1, <1>2, <2>1, <3>2 DEF TypeOK
    <3>3. CASE /\ ~LongRunning(c)
               /\ job' = [job EXCEPT ![w] = c]
               /\ at' = [at EXCEPT ![w] = "ack"]
               /\ lostTo' = Mark({c}, "raised")
      <4>1. "raised" \in lostTo'[c]
        <5>1. {c} \in SUBSET Commands /\ "raised" \in Causes /\ c \in {c}
          BY <1>2 DEF Causes
        <5> QED BY <3>3, <5>1, MarkFacts
      <4>2. job'[w] = c /\ at'[w] = "ack"
        BY <3>3 DEF TypeOK
      <4> QED BY <1>1, <1>2, <2>1, <3>3, <4>1, <4>2
    <3> QED BY <1>3, <3>1, <3>2, <3>3
  <2>4. \A v \in Workers : v # w => at'[v] = at[v] /\ job'[v] = job[v]
    BY <1>3 DEF TypeOK
  <2> QED BY <2>2, <2>3, <2>4 DEF WorkerInv, Concluded
<1>6. SentInv'
  BY <1>1, <1>2 DEF SentInv
<1>7. RunInv'
  <2> SUFFICES ASSUME NEW d \in Commands, LongRunning(d)
               PROVE  /\ d \in batch' => msg'[d] = "leased"
                      /\ msg'[d] # "acked" =>
                            /\ execs'[d] = 0
                            /\ \A i \in 1..Len(tasks') : tasks'[i] # d
                      /\ \A i \in 1..Len(tasks') : tasks'[i] = d =>
                            /\ execs'[d] = 0
                            /\ \A j \in 1..Len(tasks') : tasks'[j] = d => i = j
                      /\ execs'[d] <= 1
    BY DEF RunInv
  <2>1. CASE d = c
    <3>1. execs[d] = 0 /\ execs'[d] <= 1 /\ msg[d] = "acked"
      <4>1. execs[d] = 0 /\ (msg[d] # "acked" => tasks[1] # d)
        BY <1>2, <2>1 DEF RunInv
      <4>2. execs'[d] \in {execs[d], execs[d] + 1} /\ tasks[1] = d
        BY <1>2, <1>b, <2>1
      <4> QED BY <4>1, <4>2
    <3>2. \A i \in 1..Len(tasks') : tasks'[i] # d
      <4> SUFFICES ASSUME NEW i \in 1..Len(tasks'), tasks'[i] = d PROVE FALSE
        OBVIOUS
      <4>1. tasks[i + 1] = d /\ tasks[1] = d /\ i + 1 \in 1..Len(tasks)
        BY <1>2, <2>1
      <4>2. i + 1 = 1
        BY <1>2, <4>1 DEF RunInv
      <4> QED BY <1>2, <4>2
    <3> QED BY <1>1, <3>1, <3>2 DEF RunInv
  <2>2. CASE d # c
    <3>1. execs'[d] = execs[d] /\ msg'[d] = msg[d] /\ batch' = batch
      BY <1>1, <1>b, <2>2
    <3>2. /\ msg[d] # "acked" => \A i \in 1..Len(tasks') : tasks'[i] # d
          /\ \A i \in 1..Len(tasks') : tasks'[i] = d =>
                /\ execs[d] = 0
                /\ \A j \in 1..Len(tasks') : tasks'[j] = d => i = j
      <4>1. /\ msg[d] # "acked" => \A i \in 1..Len(tasks) : tasks[i] # d
            /\ \A i \in 1..Len(tasks) : tasks[i] = d =>
                  /\ execs[d] = 0
                  /\ \A j \in 1..Len(tasks) : tasks[j] = d => i = j
        BY DEF RunInv
      <4>2. \A i, j \in 1..Len(tasks') : i + 1 = j + 1 => i = j
        BY <1>2
      <4> QED BY <1>2, <4>1, <4>2
    <3> QED BY <3>1, <3>2 DEF RunInv
  <2> QED BY <2>1, <2>2
<1> QED BY <1>4, <1>5, <1>6, <1>7

LEMMA HandleStep ==
    ASSUME IInv, NEW w \in Workers, Handle(w)
    PROVE  IInv'
<1> USE DEF IInv, Handle, StartTimer, queueVars, histVars
<1>1. TypeOK'
  BY DEF TypeOK
<1>2. WorkerInv'
  BY DEF TypeOK, WorkerInv, Concluded
<1>3. SentInv' /\ RunInv'
  BY DEF SentInv, RunInv
<1> QED BY <1>1, <1>2, <1>3

LEMMA PublishStep ==
    ASSUME IInv, NEW w \in Workers, Publish(w)
    PROVE  IInv'
<1> USE DEF IInv
<1>1. /\ job[w] \in Commands /\ msg[job[w]] # "unsent" /\ execs[job[w]] > 0
      /\ at[w] = "publish"
  BY DEF Publish, WorkerInv
<1>2. UNCHANGED <<msg, deliveries, phase, batch, tasks, restartDue, restarts, execs>>
  BY DEF Publish, queueVars
<1>3. /\ lostTo' \in [Commands -> SUBSET Causes]
      /\ answered' \in SUBSET Commands
      /\ \A c \in Commands : lostTo[c] \subseteq lostTo'[c]
      /\ answered \subseteq answered'
      /\ job[w] \in answered' \/ lostTo'[job[w]] \cap {"publish", "raised"} # {}
  <2>1. CASE answered' = answered \cup {job[w]} /\ lostTo' = lostTo
    BY <1>1, <2>1 DEF TypeOK
  <2>2. ASSUME NEW cause \in {"publish", "raised"},
               lostTo' = Mark({job[w]}, cause), answered' = answered
        PROVE  /\ lostTo' \in [Commands -> SUBSET Causes]
               /\ answered' \in SUBSET Commands
               /\ \A c \in Commands : lostTo[c] \subseteq lostTo'[c]
               /\ answered \subseteq answered'
               /\ lostTo'[job[w]] \cap {"publish", "raised"} # {}
    <3>1. {job[w]} \in SUBSET Commands /\ cause \in Causes
      BY <1>1 DEF Causes
    <3>2. cause \in lostTo'[job[w]]
      BY <2>2, <3>1, MarkFacts
    <3> QED BY <2>2, <3>1, <3>2, MarkFacts DEF TypeOK
  <2> QED BY <2>1, <2>2 DEF Publish
<1>4. \/ /\ LongRunning(job[w])
         /\ at' = [at EXCEPT ![w] = "idle"]
         /\ job' = [job EXCEPT ![w] = None]
      \/ /\ ~LongRunning(job[w])
         /\ at' = [at EXCEPT ![w] = "ack"]
         /\ job' = job
  BY DEF Publish, AfterPublish
<1>5. TypeOK'
  BY <1>1, <1>2, <1>3, <1>4 DEF TypeOK
<1>6. WorkerInv'
  <2>1. ASSUME NEW v \in Workers, v # w
        PROVE  at'[v] = at[v] /\ job'[v] = job[v]
    BY <1>4, <2>1 DEF TypeOK
  <2>2. \A v \in Workers \ {w} :
           /\ at'[v] # "idle" => job'[v] \in Commands /\ msg'[job'[v]] # "unsent"
           /\ at'[v] \in {"handle", "publish"} => execs'[job'[v]] > 0
           /\ at'[v] = "ack" =>
                 /\ ~LongRunning(job'[v])
                 /\ job'[v] \in answered' \/ lostTo'[job'[v]] \cap {"publish", "raised"} # {}
    BY <1>2, <1>3, <2>1 DEF WorkerInv, Concluded
  <2>3. \/ at'[w] = "idle"
        \/ at'[w] = "ack" /\ job'[w] = job[w] /\ ~LongRunning(job[w])
    BY <1>4 DEF TypeOK
  <2> QED BY <1>1, <1>2, <1>3, <2>2, <2>3 DEF WorkerInv, Concluded
<1>7. SentInv' /\ RunInv'
  BY <1>2 DEF SentInv, RunInv
<1> QED BY <1>5, <1>6, <1>7

LEMMA AckShortStep ==
    ASSUME IInv, NEW w \in Workers, AckShort(w)
    PROVE  IInv'
<1> USE DEF IInv
<1>1. /\ job[w] \in Commands /\ ~LongRunning(job[w])
      /\ Concluded(job[w])
  BY DEF AckShort, WorkerInv
<1>2. /\ UNCHANGED <<deliveries, phase, batch, tasks, restartDue, restarts,
                     execs, answered, lostTo>>
      /\ at' = [at EXCEPT ![w] = "idle"]
      /\ job' = [job EXCEPT ![w] = None]
      /\ msg' \in {msg, [msg EXCEPT ![job[w]] = "acked"]}
  BY DEF AckShort, histVars
<1>3. TypeOK'
  BY <1>1, <1>2 DEF TypeOK
<1>4. WorkerInv'
  BY <1>1, <1>2 DEF TypeOK, WorkerInv, Concluded
<1>5. SentInv'
  <2>1. \A i \in 1..Len(tasks) : tasks[i] \in Commands
    BY TaskType
  <2> QED BY <1>1, <1>2, <2>1 DEF TypeOK, SentInv
<1>6. RunInv'
  BY <1>1, <1>2 DEF TypeOK, RunInv
<1> QED BY <1>3, <1>4, <1>5, <1>6

\* IInv is preserved by every step.
LEMMA StepIInv == IInv /\ [Next]_vars => IInv'
<1> SUFFICES ASSUME IInv, [Next]_vars PROVE IInv'
  OBVIOUS
<1>1. ASSUME NEW c \in Commands, Send(c) \/ LeaseExpires(c) \/ RetentionExpires(c)
      PROVE  IInv'
  BY <1>1, QueueSteps
<1>2. CASE Boot \/ Signal \/ Stopped
  BY <1>2, PhaseSteps
<1>3. CASE Drain
  BY <1>3, DrainStep
<1>4. CASE Pull
  BY <1>4, PullStep
<1>5. ASSUME NEW c \in Commands, Dispatch(c) PROVE IInv'
  BY <1>5, DispatchLongStep, DispatchShortStep DEF Dispatch
<1>6. CASE Crash \/ RestartTimer
  BY <1>6, DieStep DEF Crash, RestartTimer
<1>7. ASSUME NEW w \in Workers, Pool(w) PROVE IInv'
  BY <1>7, TakeStep, HandleStep, PublishStep, AckShortStep DEF Pool
<1>8. CASE UNCHANGED vars
  BY <1>8 DEF vars, IInv, TypeOK, WorkerInv, Concluded, SentInv, RunInv
<1> QED BY <1>1, <1>2, <1>3, <1>4, <1>5, <1>6, <1>7, <1>8 DEF Next, MainLoop

\* The inductive invariant holds in every reachable state.
LEMMA Invariance == Spec => []IInv
BY InitIInv, StepIInv, PTL DEF Spec

\* Every variable of the daemon keeps its type.
THEOREM TypeCorrect == Spec => []TypeOK
<1>1. IInv => TypeOK
  BY DEF IInv
<1> QED BY <1>1, Invariance, PTL

\* However often Pub/Sub redelivers and the relay dies, no workflow.run
\* command is carried out twice.
THEOREM AtMostOnce == Spec => []RunAtMostOnce
<1>1. IInv => RunAtMostOnce
  BY DEF IInv, RunInv, RunAtMostOnce
<1> QED BY <1>1, Invariance, PTL

-----------------------------------------------------------------------------
(* The acknowledgement rules. Both are inductive together with IInv.       *)

AckInv == AckedIsAccounted /\ ShortAckedLast

\* A step that acknowledges nothing, loses nothing from the process and
\* forgets no answer and no mark keeps AckInv.
LEMMA QuietStep ==
    ASSUME AckInv,
           \A c \in Commands : msg'[c] = "acked" => msg[c] = "acked",
           InProcess \subseteq InProcess',
           answered \subseteq answered',
           \A c \in Commands : lostTo[c] \subseteq lostTo'[c]
    PROVE  AckInv'
BY DEF AckInv, AckedIsAccounted, ShortAckedLast

LEMMA InitAckInv == Init => AckInv
BY DEF Init, AckInv, AckedIsAccounted, ShortAckedLast

LEMMA QueueAck ==
    ASSUME IInv, AckInv, NEW c \in Commands,
           Send(c) \/ LeaseExpires(c) \/ RetentionExpires(c)
    PROVE  AckInv'
<1>1. \A d \in Commands : msg'[d] = "acked" => msg[d] = "acked"
  BY DEF IInv, TypeOK, Send, LeaseExpires, RetentionExpires
<1>2. UNCHANGED <<batch, tasks, job, at, answered, lostTo>>
  BY DEF Send, LeaseExpires, RetentionExpires, procVars, histVars
<1>3. InProcess' = InProcess
  BY <1>2 DEF InProcess
<1> QED BY <1>1, <1>2, <1>3, QuietStep

LEMMA PhaseAck ==
    ASSUME AckInv, Boot \/ Signal \/ Stopped
    PROVE  AckInv'
<1>1. UNCHANGED <<msg, batch, tasks, job, at, answered, lostTo>>
  BY DEF Boot, Signal, Stopped, queueVars, histVars
<1>2. InProcess' = InProcess
  BY <1>1 DEF InProcess
<1> QED BY <1>1, <1>2, QuietStep

\* What the drain acknowledges, it marks.
LEMMA DrainAck ==
    ASSUME IInv, AckInv, Drain
    PROVE  AckInv'
<1> USE DEF IInv
<1>1. PICK S \in SUBSET Available :
         \/ Deliver(S, "acked") /\ lostTo' = Mark(S, "drain")
         \/ Deliver(S, "leased") /\ UNCHANGED lostTo
  BY DEF Drain
<1>2. UNCHANGED <<batch, tasks, job, at, answered>>
  BY DEF Drain
<1>3. InProcess' = InProcess
  BY <1>2 DEF InProcess
<1>4. CASE Deliver(S, "acked") /\ lostTo' = Mark(S, "drain")
  <2>1. /\ S \in SUBSET Commands
        /\ \A c \in Commands \ S : msg'[c] = msg[c]
    BY <1>4, DeliverFacts
  <2>2. /\ \A c \in Commands : lostTo[c] \subseteq lostTo'[c]
        /\ \A c \in S : "drain" \in lostTo'[c]
    BY <1>4, <2>1, MarkFacts DEF Causes
  <2>3. AckedIsAccounted'
    BY <1>2, <1>3, <2>1, <2>2 DEF AckInv, AckedIsAccounted
  <2>4. ShortAckedLast'
    BY <1>2, <2>1, <2>2 DEF AckInv, ShortAckedLast
  <2> QED BY <2>3, <2>4 DEF AckInv
<1>5. CASE Deliver(S, "leased") /\ UNCHANGED lostTo
  <2>1. /\ S \in SUBSET Commands
        /\ \A c \in S : msg'[c] = "leased"
        /\ \A c \in Commands \ S : msg'[c] = msg[c]
    BY <1>5, DeliverFacts
  <2>2. \A c \in Commands : msg'[c] = "acked" => msg[c] = "acked"
    BY <2>1
  <2> QED BY <1>2, <1>3, <1>5, <2>2, QuietStep
<1> QED BY <1>1, <1>4, <1>5

LEMMA PullAck ==
    ASSUME IInv, AckInv, Pull
    PROVE  AckInv'
<1> USE DEF IInv
<1>1. PICK S \in SUBSET Available : Deliver(S, "leased") /\ batch' = S
  BY DEF Pull
<1>2. /\ \A c \in S : msg'[c] = "leased"
      /\ \A c \in Commands \ S : msg'[c] = msg[c]
  BY <1>1, DeliverFacts
<1>3. batch = {} /\ UNCHANGED <<tasks, job, at, answered, lostTo>>
  BY DEF Pull, histVars
<1>4. InProcess \subseteq InProcess'
  BY <1>3 DEF InProcess
<1>5. \A c \in Commands : msg'[c] = "acked" => msg[c] = "acked"
  BY <1>2
<1> QED BY <1>3, <1>4, <1>5, QuietStep

\* A run is acknowledged as it enters the queue, or is marked.
LEMMA DispatchLongAck ==
    ASSUME IInv, AckInv, NEW c \in Commands, DispatchLong(c)
    PROVE  AckInv'
<1> USE DEF IInv
<1>1. /\ LongRunning(c) /\ c \in batch /\ batch' = batch \ {c} /\ msg[c] = "leased"
      /\ UNCHANGED <<job, at, answered>>
  BY DEF DispatchLong, RunInv
<1>2. /\ \A d \in Commands \ {c} : msg'[d] = msg[d]
      /\ \A d \in Commands : lostTo[d] \subseteq lostTo'[d]
      /\ \/ tasks' = Append(tasks, c)
         \/ msg'[c] # "acked" /\ tasks' = tasks
         \/ "dispatch" \in lostTo'[c] /\ tasks' = tasks
  <2>1. {c} \in SUBSET Commands /\ "dispatch" \in Causes /\ c \in {c}
    BY DEF Causes
  <2>2. \/ lostTo' = lostTo
        \/ lostTo' = Mark({c}, "dispatch") /\ "dispatch" \in lostTo'[c]
    BY <2>1, MarkFacts DEF DispatchLong
  <2>3. \A d \in Commands : lostTo[d] \subseteq lostTo'[d]
    BY <2>1, <2>2, MarkFacts
  <2>4. /\ \A d \in Commands \ {c} : msg'[d] = msg[d]
        /\ \/ tasks' = Append(tasks, c)
           \/ msg'[c] # "acked" /\ tasks' = tasks
           \/ lostTo' = Mark({c}, "dispatch") /\ tasks' = tasks
    BY <1>1 DEF DispatchLong, TypeOK
  <2>5. lostTo' = Mark({c}, "dispatch") => "dispatch" \in lostTo'[c]
    BY <2>1, MarkFacts
  <2> QED BY <2>3, <2>4, <2>5
<1>3. /\ \A i \in 1..Len(tasks) : i \in 1..Len(tasks') /\ tasks'[i] = tasks[i]
      /\ tasks \in Seq(Commands) /\ tasks' \in Seq(Commands)
      /\ tasks' = Append(tasks, c) =>
            Len(tasks') \in 1..Len(tasks') /\ tasks'[Len(tasks')] = c
  <2>1. tasks \in Seq(Commands) /\ Len(tasks) \in Nat
    BY LenProperties DEF TypeOK
  <2>2. CASE tasks' = tasks
    <3>1. Append(tasks, c) # tasks
      BY <2>1, AppendFacts
    <3> QED BY <2>1, <2>2, <3>1
  <2>3. CASE tasks' = Append(tasks, c)
    BY <2>1, <2>3, AppendFacts
  <2> QED BY <1>2, <2>2, <2>3
<1>4. DOMAIN tasks = 1..Len(tasks) /\ DOMAIN tasks' = 1..Len(tasks')
  BY <1>3, LenProperties
<1>5. InProcess \ {c} \subseteq InProcess'
  BY <1>1, <1>3, <1>4 DEF InProcess
<1>6. msg'[c] = "acked" => c \in InProcess' \/ lostTo'[c] # {}
  <2>1. CASE tasks' = Append(tasks, c)
    <3>1. Len(tasks') \in DOMAIN tasks' /\ tasks'[Len(tasks')] = c
      BY <1>3, <1>4, <2>1
    <3> QED BY <3>1 DEF InProcess
  <2> QED BY <1>2, <2>1
<1>7. AckedIsAccounted'
  BY <1>1, <1>2, <1>5, <1>6 DEF AckInv, AckedIsAccounted
<1>8. ShortAckedLast'
  BY <1>1, <1>2 DEF AckInv, ShortAckedLast
<1> QED BY <1>7, <1>8 DEF AckInv

LEMMA DispatchShortAck ==
    ASSUME IInv, AckInv, NEW c \in Commands, DispatchShort(c)
    PROVE  AckInv'
<1> USE DEF IInv
<1>1. /\ UNCHANGED <<msg, job, at, answered, lostTo>>
      /\ c \in batch /\ batch' = batch \ {c}
      /\ tasks' = Append(tasks, c)
  BY DEF DispatchShort, queueVars, histVars
<1>2. /\ \A i \in 1..Len(tasks) : i \in 1..Len(tasks') /\ tasks'[i] = tasks[i]
      /\ tasks \in Seq(Commands) /\ tasks' \in Seq(Commands)
      /\ Len(tasks') \in 1..Len(tasks') /\ tasks'[Len(tasks')] = c
  BY <1>1, AppendFacts DEF TypeOK
<1>3. DOMAIN tasks = 1..Len(tasks) /\ DOMAIN tasks' = 1..Len(tasks')
  BY <1>2, LenProperties
<1>4. InProcess \subseteq InProcess'
  BY <1>1, <1>2, <1>3 DEF InProcess
<1> QED BY <1>1, <1>4, QuietStep

\* A process that dies marks everything it held.
LEMMA DieAck ==
    ASSUME IInv, AckInv, Die
    PROVE  AckInv'
<1> USE DEF IInv
<1>1. InProcess \in SUBSET Commands
  <2>1. \A i \in DOMAIN tasks : tasks[i] \in Commands
    BY ElementOfSeq, LenProperties DEF TypeOK
  <2> QED BY <2>1 DEF InProcess, TypeOK, WorkerInv
<1>2. /\ \A c \in Commands : lostTo[c] \subseteq lostTo'[c]
      /\ \A c \in InProcess : "restart" \in lostTo'[c]
  BY <1>1, MarkFacts DEF Die, Causes
<1>3. UNCHANGED <<msg, answered>>
  BY DEF Die, queueVars
<1>4. AckedIsAccounted'
  BY <1>2, <1>3 DEF AckInv, AckedIsAccounted
<1>5. ShortAckedLast'
  BY <1>2, <1>3 DEF AckInv, ShortAckedLast
<1> QED BY <1>4, <1>5 DEF AckInv

\* The command at the head moves to its worker, or is marked.
LEMMA TakeAck ==
    ASSUME IInv, AckInv, NEW w \in Workers, Take(w)
    PROVE  AckInv'
<1> USE DEF IInv
<1>1. /\ UNCHANGED <<msg, batch, answered>>
      /\ at[w] = "idle" /\ tasks # <<>>
      /\ \/ /\ job' = [job EXCEPT ![w] = Head(tasks)]
            /\ at' \in {[at EXCEPT ![w] = "handle"], [at EXCEPT ![w] = "ack"]}
         \/ /\ UNCHANGED <<job, at>>
            /\ lostTo' = Mark({Head(tasks)}, "raised")
      /\ lostTo' = lostTo \/ lostTo' = Mark({Head(tasks)}, "raised")
      /\ tasks' = Tail(tasks)
  BY DEF Take, TakeHead, Enter, ReceiptRaises, queueVars
<1>2. /\ Len(tasks) \in Nat /\ Head(tasks) = tasks[1]
      /\ Len(tasks') = Len(tasks) - 1
      /\ \A i \in 1..Len(tasks') : tasks'[i] = tasks[i + 1]
      /\ tasks \in Seq(Commands) /\ tasks' \in Seq(Commands)
  BY <1>1, TailFacts DEF TypeOK
<1>3. DOMAIN tasks = 1..Len(tasks) /\ DOMAIN tasks' = 1..Len(tasks')
  BY <1>2, LenProperties
<1>4. \A v \in Workers : at[v] # "idle" => at'[v] # "idle" /\ job'[v] = job[v]
  BY <1>1 DEF TypeOK
<1>m. /\ \A d \in Commands : lostTo[d] \subseteq lostTo'[d]
      /\ lostTo' = Mark({tasks[1]}, "raised") => lostTo'[tasks[1]] # {}
  <2>1. {tasks[1]} \in SUBSET Commands /\ "raised" \in Causes /\ tasks[1] \in {tasks[1]}
    BY <1>1, TailFacts DEF TypeOK, Causes
  <2>2. CASE lostTo' = Mark({tasks[1]}, "raised")
    BY <2>1, <2>2, MarkFacts
  <2>3. CASE lostTo' = lostTo
    BY <2>2, <2>3
  <2> QED BY <1>1, <1>2, <2>2, <2>3
<1>5. \/ at'[w] # "idle" /\ job'[w] = tasks[1]
      \/ lostTo'[tasks[1]] # {}
  BY <1>1, <1>2, <1>m DEF TypeOK
<1>6. \A i \in DOMAIN tasks : tasks[i] \in InProcess' \/ lostTo'[tasks[i]] # {}
  <2> SUFFICES ASSUME NEW i \in DOMAIN tasks
               PROVE  tasks[i] \in InProcess' \/ lostTo'[tasks[i]] # {}
    OBVIOUS
  <2>1. CASE i = 1
    BY <1>5, <2>1 DEF InProcess
  <2>2. CASE i # 1
    <3>1. i - 1 \in DOMAIN tasks' /\ tasks'[i - 1] = tasks[i]
      BY <1>2, <1>3, <2>2
    <3> QED BY <3>1 DEF InProcess
  <2> QED BY <2>1, <2>2
<1>7. \A d \in InProcess : d \in InProcess' \/ lostTo'[d] # {}
  BY <1>1, <1>4, <1>6 DEF InProcess
<1>8. AckedIsAccounted'
  BY <1>1, <1>m, <1>7 DEF AckInv, AckedIsAccounted
<1>9. ShortAckedLast'
  BY <1>1, <1>m DEF AckInv, ShortAckedLast
<1> QED BY <1>8, <1>9 DEF AckInv

LEMMA HandleAck ==
    ASSUME IInv, AckInv, NEW w \in Workers, Handle(w)
    PROVE  AckInv'
<1>1. /\ UNCHANGED <<msg, batch, tasks, job, answered, lostTo>>
      /\ at' = [at EXCEPT ![w] = "publish"]
  BY DEF Handle, queueVars, histVars
<1>2. InProcess \subseteq InProcess'
  BY <1>1 DEF InProcess, IInv, TypeOK
<1> QED BY <1>1, <1>2, QuietStep

\* A worker that is done with its command leaves an answer or a mark.
LEMMA PublishAck ==
    ASSUME IInv, AckInv, NEW w \in Workers, Publish(w)
    PROVE  AckInv'
<1> USE DEF IInv
<1>1. job[w] \in Commands /\ at[w] # "idle"
  BY DEF Publish, WorkerInv
<1>2. UNCHANGED <<msg, batch, tasks>>
  BY DEF Publish, queueVars
<1>3. /\ \A c \in Commands : lostTo[c] \subseteq lostTo'[c]
      /\ answered \subseteq answered'
      /\ job[w] \in answered' \/ lostTo'[job[w]] \cap {"publish", "raised"} # {}
  <2>1. CASE answered' = answered \cup {job[w]} /\ lostTo' = lostTo
    BY <2>1
  <2>2. ASSUME NEW cause \in {"publish", "raised"},
               lostTo' = Mark({job[w]}, cause), answered' = answered
        PROVE  /\ \A c \in Commands : lostTo[c] \subseteq lostTo'[c]
               /\ lostTo'[job[w]] \cap {"publish", "raised"} # {}
    BY <1>1, <2>2, MarkFacts DEF Causes
  <2> QED BY <2>1, <2>2 DEF Publish
<1>4. \A v \in Workers \ {w} : at'[v] = at[v] /\ job'[v] = job[v]
  BY DEF Publish, AfterPublish, TypeOK
<1>5. InProcess \ {job[w]} \subseteq InProcess'
  BY <1>2, <1>4 DEF InProcess
<1>6. AckedIsAccounted'
  BY <1>2, <1>3, <1>5 DEF AckInv, AckedIsAccounted
<1>7. ShortAckedLast'
  BY <1>2, <1>3 DEF AckInv, ShortAckedLast
<1> QED BY <1>6, <1>7 DEF AckInv

LEMMA AckShortAck ==
    ASSUME IInv, AckInv, NEW w \in Workers, AckShort(w)
    PROVE  AckInv'
<1> USE DEF IInv
<1>1. /\ job[w] \in Commands
      /\ Concluded(job[w])
  BY DEF AckShort, WorkerInv
<1>2. /\ UNCHANGED <<batch, tasks, answered, lostTo>>
      /\ at' = [at EXCEPT ![w] = "idle"]
      /\ job' = [job EXCEPT ![w] = None]
      /\ msg' \in {msg, [msg EXCEPT ![job[w]] = "acked"]}
  BY DEF AckShort, histVars
<1>3. \A c \in Commands \ {job[w]} : msg'[c] = msg[c]
  BY <1>2 DEF TypeOK
<1>4. InProcess \ {job[w]} \subseteq InProcess'
  BY <1>2 DEF InProcess, TypeOK
<1>5. AckedIsAccounted'
  BY <1>1, <1>2, <1>3, <1>4 DEF AckInv, AckedIsAccounted, Concluded
<1>6. ShortAckedLast'
  BY <1>1, <1>2, <1>3 DEF AckInv, ShortAckedLast, Concluded
<1> QED BY <1>5, <1>6 DEF AckInv

LEMMA StepAckInv == IInv /\ AckInv /\ [Next]_vars => AckInv'
<1> SUFFICES ASSUME IInv, AckInv, [Next]_vars PROVE AckInv'
  OBVIOUS
<1>1. ASSUME NEW c \in Commands, Send(c) \/ LeaseExpires(c) \/ RetentionExpires(c)
      PROVE  AckInv'
  BY <1>1, QueueAck
<1>2. CASE Boot \/ Signal \/ Stopped
  BY <1>2, PhaseAck
<1>3. CASE Drain
  BY <1>3, DrainAck
<1>4. CASE Pull
  BY <1>4, PullAck
<1>5. ASSUME NEW c \in Commands, Dispatch(c) PROVE AckInv'
  BY <1>5, DispatchLongAck, DispatchShortAck DEF Dispatch
<1>6. CASE Crash \/ RestartTimer
  BY <1>6, DieAck DEF Crash, RestartTimer
<1>7. ASSUME NEW w \in Workers, Pool(w) PROVE AckInv'
  BY <1>7, TakeAck, HandleAck, PublishAck, AckShortAck DEF Pool
<1>8. CASE UNCHANGED vars
  BY <1>8 DEF vars, AckInv, AckedIsAccounted, ShortAckedLast, InProcess
<1> QED BY <1>1, <1>2, <1>3, <1>4, <1>5, <1>6, <1>7, <1>8 DEF Next, MainLoop

LEMMA AckInvariance == Spec => []AckInv
BY InitAckInv, StepAckInv, Invariance, PTL DEF Spec

\* Whatever is acknowledged is in the process, answered, or lost to one of
\* the five causes.
THEOREM Accounted == Spec => []AckedIsAccounted
<1>1. AckInv => AckedIsAccounted
  BY DEF AckInv
<1> QED BY <1>1, AckInvariance, PTL

\* A short command leaves the subscription only through the drain or at the
\* end of its worker.
THEOREM ShortLast == Spec => []ShortAckedLast
<1>1. AckInv => ShortAckedLast
  BY DEF AckInv
<1> QED BY <1>1, AckInvariance, PTL

-----------------------------------------------------------------------------
(* Redelivery: a command is carried out once per delivery, at most.        *)

\* Where a command waits in a task queue.
Places(t, c) == {i \in 1..Len(t) : t[i] = c}

\* Every place of a command in the process, and every time it was carried out,
\* is due to a delivery of its own.
DeliveredInv ==
    \A c \in Commands :
        execs[c] + Cardinality(Places(tasks, c)) + (IF c \in batch THEN 1 ELSE 0) <= deliveries[c]

\* No handler is entered more often than the subscription handed the command out.
HandledPerDelivery == \A c \in Commands : execs[c] <= deliveries[c]

LEMMA PlacesFinite ==
    ASSUME NEW t \in Seq(Commands), NEW c
    PROVE  IsFiniteSet(Places(t, c)) /\ Cardinality(Places(t, c)) \in Nat
<1>1. Len(t) \in Int
  BY LenProperties
<1>2. IsFiniteSet(1..Len(t))
  BY <1>1, FS_Interval
<1>3. Places(t, c) \in SUBSET (1..Len(t))
  BY DEF Places
<1>4. IsFiniteSet(Places(t, c))
  BY <1>2, <1>3, FS_Subset
<1> QED BY <1>4, FS_CardinalityType

\* Submitting a command gives it one place more, and no other command one.
LEMMA AppendPlaces ==
    ASSUME tasks \in Seq(Commands), NEW c \in Commands, NEW d \in Commands
    PROVE  Cardinality(Places(Append(tasks, c), d)) =
              Cardinality(Places(tasks, d)) + (IF d = c THEN 1 ELSE 0)
<1> DEFINE n == Len(tasks)
           t == Append(tasks, c)
<1>1. /\ n \in Nat /\ Len(t) = n + 1 /\ t[n + 1] = c
      /\ \A i \in 1..n : t[i] = tasks[i]
  BY AppendFacts
<1>2. IsFiniteSet(Places(tasks, d)) /\ n + 1 \notin Places(tasks, d)
  <2>1. IsFiniteSet(Places(tasks, d))
    BY PlacesFinite
  <2>2. n + 1 \notin Places(tasks, d)
    BY <1>1 DEF Places
  <2> QED BY <2>1, <2>2
<1> HIDE DEF t
<1>3. CASE d = c
  <2>1. Places(t, d) = Places(tasks, d) \cup {n + 1}
    BY <1>1, <1>3 DEF Places
  <2>2. Cardinality(Places(t, d)) = Cardinality(Places(tasks, d)) + 1
    BY <1>2, <2>1, FS_AddElement
  <2> QED BY <1>3, <2>2 DEF t
<1>4. CASE d # c
  <2>1. Places(t, d) = Places(tasks, d)
    BY <1>1, <1>4 DEF Places
  <2> QED BY <1>2, <1>4, <2>1, PlacesFinite DEF t
<1> QED BY <1>3, <1>4

\* A worker that takes the head takes one place of its command.
LEMMA TailPlaces ==
    ASSUME tasks \in Seq(Commands), tasks # <<>>, NEW d \in Commands
    PROVE  Cardinality(Places(Tail(tasks), d)) + (IF d = Head(tasks) THEN 1 ELSE 0)
              = Cardinality(Places(tasks, d))
<1> DEFINE t == Tail(tasks)
           later == {i \in Places(tasks, d) : i > 1}
           shift == [i \in Places(t, d) |-> i + 1]
<1>1. /\ Len(tasks) \in Nat /\ 1 \in 1..Len(tasks) /\ Head(tasks) = tasks[1]
      /\ Len(t) = Len(tasks) - 1
      /\ \A i \in 1..Len(t) : t[i] = tasks[i + 1]
      /\ t \in Seq(Commands)
  BY TailFacts
<1> HIDE DEF t
<1>2. Cardinality(Places(t, d)) = Cardinality(later) /\ IsFiniteSet(later)
  <2>1. shift \in [Places(t, d) -> later]
    BY <1>1 DEF Places
  <2>2. \A i, j \in Places(t, d) : shift[i] = shift[j] => i = j
    BY <1>1 DEF Places
  <2>3. \A j \in later : \E i \in Places(t, d) : shift[i] = j
    <3> SUFFICES ASSUME NEW j \in later PROVE \E i \in Places(t, d) : shift[i] = j
      OBVIOUS
    <3>1. j - 1 \in Places(t, d) /\ (j - 1) + 1 = j
      BY <1>1 DEF Places
    <3> QED BY <3>1
  <2>4. shift \in Bijection(Places(t, d), later)
    BY <2>1, <2>2, <2>3, Zenon DEF Bijection, Injection, Surjection, IsInjective
  <2>5. ExistsBijection(Places(t, d), later)
    BY <2>4, Zenon DEF ExistsBijection
  <2> QED BY <1>1, <2>5, PlacesFinite, FS_Bijection
<1>3. CASE d = Head(tasks)
  <2>1. Places(tasks, d) = later \cup {1} /\ 1 \notin later
    BY <1>1, <1>3 DEF Places
  <2>2. Cardinality(Places(tasks, d)) = Cardinality(later) + 1
    BY <1>2, <2>1, FS_AddElement
  <2>3. Cardinality(Places(t, d)) + 1 = Cardinality(Places(tasks, d))
    BY <1>2, <2>2
  <2> QED BY <1>3, <2>3 DEF t
<1>4. CASE d # Head(tasks)
  <2>1. Places(tasks, d) = later
    BY <1>1, <1>4 DEF Places
  <2>2. Cardinality(Places(tasks, d)) \in Nat
    BY PlacesFinite
  <2>3. Cardinality(Places(t, d)) = Cardinality(Places(tasks, d))
    BY <1>2, <2>1, Zenon
  <2>4. Cardinality(Places(t, d)) + 0 = Cardinality(Places(tasks, d))
    BY <2>2, <2>3
  <2> QED BY <1>4, <2>4 DEF t
<1> QED BY <1>3, <1>4

LEMMA InitDelivered == Init => DeliveredInv
<1> SUFFICES ASSUME Init, NEW c \in Commands
             PROVE  execs[c] + Cardinality(Places(tasks, c)) + (IF c \in batch THEN 1 ELSE 0)
                       <= deliveries[c]
  BY DEF DeliveredInv
<1>1. Places(tasks, c) = {} /\ execs[c] = 0 /\ deliveries[c] = 0 /\ batch = {}
  BY EmptySeq DEF Init, Places
<1> QED BY <1>1, FS_EmptySet

\* Only the deliveries grow, and what the process holds shrinks.
LEMMA HeldKept ==
    ASSUME IInv, DeliveredInv,
           UNCHANGED execs, tasks' = tasks \/ tasks' = <<>>, batch' \subseteq batch,
           \A c \in Commands : deliveries'[c] \in Nat /\ deliveries[c] <= deliveries'[c]
    PROVE  DeliveredInv'
<1> SUFFICES ASSUME NEW c \in Commands
             PROVE  execs'[c] + Cardinality(Places(tasks', c)) + (IF c \in batch' THEN 1 ELSE 0)
                       <= deliveries'[c]
  BY DEF DeliveredInv
<1>1. /\ tasks \in Seq(Commands) /\ execs[c] \in Nat /\ deliveries[c] \in Nat
      /\ Cardinality(Places(tasks, c)) \in Nat
  BY PlacesFinite DEF IInv, TypeOK
<1>2. Cardinality(Places(tasks', c)) \in {0, Cardinality(Places(tasks, c))}
  <2>1. CASE tasks' = <<>>
    <3>1. Places(tasks', c) = {}
      BY <2>1, EmptySeq DEF Places
    <3> QED BY <3>1, FS_EmptySet
  <2> QED BY <2>1
<1>3. execs[c] + Cardinality(Places(tasks, c)) + (IF c \in batch THEN 1 ELSE 0) <= deliveries[c]
  BY DEF DeliveredInv
<1>4. c \in batch' => c \in batch
  OBVIOUS
<1>5. deliveries'[c] \in Nat /\ deliveries[c] <= deliveries'[c] /\ execs'[c] = execs[c]
  OBVIOUS
<1> HIDE DEF DeliveredInv
<1> QED BY <1>1, <1>2, <1>3, <1>4, <1>5

LEMMA StepDelivered == IInv /\ DeliveredInv /\ [Next]_vars => DeliveredInv'
<1> SUFFICES ASSUME IInv, DeliveredInv, [Next]_vars PROVE DeliveredInv'
  OBVIOUS
<1>0. /\ tasks \in Seq(Commands) /\ batch \subseteq Commands
      /\ \A c \in Commands : /\ execs[c] \in Nat /\ deliveries[c] \in Nat
                              /\ Cardinality(Places(tasks, c)) \in Nat
                              /\ execs[c] + Cardinality(Places(tasks, c))
                                    + (IF c \in batch THEN 1 ELSE 0) <= deliveries[c]
  BY PlacesFinite DEF IInv, TypeOK, DeliveredInv
<1>1. ASSUME \/ \E c \in Commands : Send(c) \/ LeaseExpires(c) \/ RetentionExpires(c)
             \/ Boot \/ Signal \/ Stopped \/ Crash \/ RestartTimer
             \/ \E w \in Workers : Handle(w) \/ Publish(w) \/ AckShort(w)
             \/ UNCHANGED vars
      PROVE  DeliveredInv'
  <2>1. /\ UNCHANGED <<execs, deliveries>> /\ (tasks' = tasks \/ tasks' = <<>>)
        /\ (batch' = batch \/ batch' = {})
    BY <1>1 DEF Send, LeaseExpires, RetentionExpires, Boot, Signal, Stopped, Crash, RestartTimer,
                Die, Handle, Publish, AckShort, vars, queueVars, procVars, histVars
  <2> QED BY <1>0, <2>1, HeldKept
<1>2. CASE Drain
  <2>1. PICK S \in SUBSET Available, state \in {"acked", "leased"} : Deliver(S, state)
    BY <1>2 DEF Drain
  <2>2. \A c \in Commands : deliveries'[c] \in Nat /\ deliveries[c] <= deliveries'[c]
    BY <1>0, <2>1 DEF Deliver
  <2>3. UNCHANGED <<execs, tasks, batch>>
    BY <1>2 DEF Drain
  <2> QED BY <2>2, <2>3, HeldKept
<1>3. CASE Pull
  <2>1. PICK S \in SUBSET Available : Deliver(S, "leased") /\ batch' = S
    BY <1>3 DEF Pull
  <2>2. batch = {} /\ UNCHANGED <<execs, tasks>>
    BY <1>3 DEF Pull, histVars
  <2>3. ASSUME NEW c \in Commands
        PROVE  execs'[c] + Cardinality(Places(tasks', c)) + (IF c \in batch' THEN 1 ELSE 0)
                  <= deliveries'[c]
    <3>1. deliveries'[c] = deliveries[c] + (IF c \in batch' THEN 1 ELSE 0)
      BY <2>1 DEF Deliver
    <3>2. execs[c] + Cardinality(Places(tasks, c)) <= deliveries[c]
      BY <1>0, <2>2
    <3>3. execs'[c] = execs[c] /\ Places(tasks', c) = Places(tasks, c)
      BY <2>2
    <3>4. /\ execs[c] \in Nat /\ deliveries[c] \in Nat
          /\ Cardinality(Places(tasks, c)) \in Nat
      BY <1>0
    <3> QED BY <3>1, <3>2, <3>3, <3>4
  <2> QED BY <2>3 DEF DeliveredInv
<1>4. ASSUME NEW c \in Commands, Dispatch(c) PROVE DeliveredInv'
  <2>1. /\ c \in batch /\ batch' = batch \ {c} /\ UNCHANGED <<execs, deliveries>>
        /\ tasks' = tasks \/ tasks' = Append(tasks, c)
    BY <1>4 DEF Dispatch, DispatchLong, DispatchShort, queueVars, histVars
  <2>2. ASSUME NEW d \in Commands
        PROVE  execs'[d] + Cardinality(Places(tasks', d)) + (IF d \in batch' THEN 1 ELSE 0)
                  <= deliveries'[d]
    <3>1. Cardinality(Places(tasks', d)) \in
             {Cardinality(Places(tasks, d)),
              Cardinality(Places(tasks, d)) + (IF d = c THEN 1 ELSE 0)}
      BY <1>0, <2>1, AppendPlaces
    <3>2. (IF d \in batch' THEN 1 ELSE 0) = (IF d \in batch THEN 1 ELSE 0) - (IF d = c THEN 1 ELSE 0)
      BY <2>1
    <3>3. execs'[d] = execs[d] /\ deliveries'[d] = deliveries[d]
      BY <2>1
    <3>4. /\ execs[d] \in Nat /\ deliveries[d] \in Nat
          /\ Cardinality(Places(tasks, d)) \in Nat
          /\ execs[d] + Cardinality(Places(tasks, d)) + (IF d \in batch THEN 1 ELSE 0)
                <= deliveries[d]
      BY <1>0
    <3> QED BY <3>1, <3>2, <3>3, <3>4
  <2> QED BY <2>2 DEF DeliveredInv
<1>5. ASSUME NEW w \in Workers, Take(w) PROVE DeliveredInv'
  <2>1. /\ tasks # <<>> /\ tasks' = Tail(tasks) /\ UNCHANGED <<batch, deliveries>>
        /\ execs' = [execs EXCEPT ![Head(tasks)] = @ + 1] \/ execs' = execs
    BY <1>5 DEF Take, TakeHead, Enter, ReceiptRaises, queueVars
  <2>2. ASSUME NEW d \in Commands
        PROVE  execs'[d] + Cardinality(Places(tasks', d)) + (IF d \in batch' THEN 1 ELSE 0)
                  <= deliveries'[d]
    <3>1. Cardinality(Places(tasks', d)) + (IF d = Head(tasks) THEN 1 ELSE 0)
             = Cardinality(Places(tasks, d))
      BY <1>0, <2>1, TailPlaces
    <3>2. execs'[d] \in {execs[d], execs[d] + (IF d = Head(tasks) THEN 1 ELSE 0)}
      <4>1. execs \in [Commands -> Nat]
        BY DEF IInv, TypeOK
      <4>2. PICK h : h = Head(tasks)
        OBVIOUS
      <4>3. execs' = [execs EXCEPT ![h] = execs[h] + 1] \/ execs' = execs
        BY <2>1, <4>2
      <4>4. execs'[d] \in {execs[d], execs[d] + (IF d = h THEN 1 ELSE 0)}
        BY <4>1, <4>3
      <4> QED BY <4>2, <4>4
    <3>3. Cardinality(Places(tasks', d)) \in Nat
      <4>1. tasks' \in Seq(Commands)
        BY <1>0, <2>1, TailFacts
      <4> QED BY <4>1, PlacesFinite
    <3>4. /\ execs[d] \in Nat /\ deliveries[d] \in Nat
          /\ execs[d] + Cardinality(Places(tasks, d)) + (IF d \in batch THEN 1 ELSE 0)
                <= deliveries[d]
      BY <1>0
    <3>5. (d \in batch' <=> d \in batch) /\ deliveries'[d] = deliveries[d]
      BY <2>1
    <3> QED BY <3>1, <3>2, <3>3, <3>4, <3>5
  <2> QED BY <2>2 DEF DeliveredInv
<1> QED BY <1>1, <1>2, <1>3, <1>4, <1>5 DEF Next, MainLoop, Pool

\* No command, short or long, is carried out more often than the subscription
\* handed it out: a second execution is always a redelivery, never the queue,
\* the pool or a restart of the process.
THEOREM OncePerDelivery == Spec => []HandledPerDelivery
<1>1. IInv /\ DeliveredInv => HandledPerDelivery
  <2> SUFFICES ASSUME IInv, DeliveredInv, NEW c \in Commands PROVE execs[c] <= deliveries[c]
    BY DEF HandledPerDelivery
  <2>1. /\ execs[c] \in Nat /\ deliveries[c] \in Nat
        /\ Cardinality(Places(tasks, c)) \in Nat
    BY PlacesFinite DEF IInv, TypeOK
  <2>2. execs[c] + Cardinality(Places(tasks, c)) + (IF c \in batch THEN 1 ELSE 0) <= deliveries[c]
    BY DEF DeliveredInv
  <2> QED BY <2>1, <2>2
<1> QED BY <1>1, InitDelivered, StepDelivered, Invariance, PTL DEF Spec

-----------------------------------------------------------------------------
(* Refinement.                                                             *)

\* A step that sends, executes and answers nothing is a stutter.
LEMMA Stutter ==
    ASSUME \A c \in Commands : msg'[c] = "unsent" <=> msg[c] = "unsent",
           UNCHANGED <<execs, answered>>
    PROVE  [Service!Next]_<<{c \in Commands : msg[c] # "unsent"}, execs, answered>>
OBVIOUS

\* Every step of the daemon is a step of the service or a stutter.
LEMMA StepService ==
    ASSUME IInv, [Next]_vars
    PROVE  [Service!Next]_<<{c \in Commands : msg[c] # "unsent"}, execs, answered>>
<1> USE DEF IInv
<1>1. ASSUME NEW c \in Commands, Send(c)
      PROVE  Service!Request(c)
  BY <1>1 DEF Service!Request, Send, TypeOK, histVars
<1>2. ASSUME NEW c \in Commands, LeaseExpires(c) \/ RetentionExpires(c)
      PROVE  [Service!Next]_<<{d \in Commands : msg[d] # "unsent"}, execs, answered>>
  <2>1. \A d \in Commands : msg'[d] = "unsent" <=> msg[d] = "unsent"
    BY <1>2 DEF LeaseExpires, RetentionExpires, TypeOK
  <2>2. UNCHANGED <<execs, answered>>
    BY <1>2 DEF LeaseExpires, RetentionExpires, histVars
  <2> QED BY <2>1, <2>2, Stutter
<1>3. ASSUME Boot \/ Signal \/ Stopped \/ Crash \/ RestartTimer \/ UNCHANGED vars
      PROVE  UNCHANGED <<msg, execs, answered>>
  BY <1>3 DEF Boot, Signal, Stopped, Crash, RestartTimer, Die, queueVars, histVars, vars
<1>4. ASSUME Drain \/ Pull
      PROVE  [Service!Next]_<<{c \in Commands : msg[c] # "unsent"}, execs, answered>>
  <2>1. PICK S \in SUBSET Available, state \in {"acked", "leased"} : Deliver(S, state)
    BY <1>4 DEF Drain, Pull
  <2>2. \A c \in Commands : msg'[c] = "unsent" <=> msg[c] = "unsent"
    BY <2>1, DeliverFacts
  <2>3. UNCHANGED <<execs, answered>>
    BY <1>4 DEF Drain, Pull, histVars
  <2> QED BY <2>2, <2>3, Stutter
<1>5. ASSUME NEW c \in Commands, Dispatch(c)
      PROVE  [Service!Next]_<<{d \in Commands : msg[d] # "unsent"}, execs, answered>>
  <2>1. msg[c] # "unsent"
    BY <1>5 DEF SentInv, Dispatch, DispatchLong, DispatchShort
  <2>2. msg' \in {msg, [msg EXCEPT ![c] = "acked"]}
    BY <1>5 DEF Dispatch, DispatchLong, DispatchShort, queueVars
  <2>3. \A d \in Commands : msg'[d] = "unsent" <=> msg[d] = "unsent"
    BY <2>1, <2>2 DEF TypeOK
  <2>4. UNCHANGED <<execs, answered>>
    BY <1>5 DEF Dispatch, DispatchLong, DispatchShort, histVars
  <2> QED BY <2>3, <2>4, Stutter
<1>6. ASSUME NEW w \in Workers, Take(w)
      PROVE  \/ UNCHANGED <<msg, execs, answered>>
             \/ Head(tasks) \in Commands /\ Service!CarryOut(Head(tasks))
  <2>1. /\ Head(tasks) = tasks[1] /\ Head(tasks) \in Commands
        /\ 1 \in 1..Len(tasks)
    BY <1>6, TailFacts DEF Take, TakeHead, TypeOK
  <2>2. /\ msg[Head(tasks)] # "unsent"
        /\ LongRunning(Head(tasks)) => execs[Head(tasks)] = 0
    BY <2>1 DEF SentInv, RunInv
  <2>3. /\ execs' = [execs EXCEPT ![Head(tasks)] = @ + 1] \/ execs' = execs
        /\ UNCHANGED <<msg, answered>>
    BY <1>6 DEF Take, Enter, ReceiptRaises, queueVars
  <2> QED BY <2>1, <2>2, <2>3 DEF Service!CarryOut
<1>7. ASSUME NEW w \in Workers, Handle(w)
      PROVE  UNCHANGED <<msg, execs, answered>>
  BY <1>7 DEF Handle, queueVars, histVars
<1>8. ASSUME NEW w \in Workers, Publish(w)
      PROVE  \/ UNCHANGED <<msg, execs, answered>>
             \/ job[w] \in Commands /\ Service!Reply(job[w])
  BY <1>8 DEF Publish, WorkerInv, Service!Reply, queueVars
<1>9. ASSUME NEW w \in Workers, AckShort(w)
      PROVE  [Service!Next]_<<{c \in Commands : msg[c] # "unsent"}, execs, answered>>
  <2>1. job[w] \in Commands /\ msg[job[w]] # "unsent"
    BY <1>9 DEF AckShort, WorkerInv
  <2>2. \A c \in Commands : msg'[c] = "unsent" <=> msg[c] = "unsent"
    BY <1>9, <2>1 DEF AckShort, TypeOK
  <2>3. UNCHANGED <<execs, answered>>
    BY <1>9 DEF AckShort, histVars
  <2> QED BY <2>2, <2>3, Stutter
<1>10. ASSUME UNCHANGED <<msg, execs, answered>>
       PROVE  [Service!Next]_<<{c \in Commands : msg[c] # "unsent"}, execs, answered>>
  BY <1>10
<1>11. ASSUME NEW w \in Workers, Pool(w)
       PROVE  [Service!Next]_<<{c \in Commands : msg[c] # "unsent"}, execs, answered>>
  BY <1>6, <1>7, <1>8, <1>9, <1>10, <1>11 DEF Pool, Service!Next
<1> QED
  BY <1>1, <1>2, <1>3, <1>4, <1>5, <1>10, <1>11 DEF Next, MainLoop, Service!Next

\* The daemon, with its queue, its threads and its failures, does for its
\* callers what the CommandService says and nothing else.
THEOREM Refinement == Spec => ImplementsService
<1>1. Init => Service!Init
  BY DEF Init, Service!Init
<1>2. IInv /\ [Next]_vars
      => [Service!Next]_<<{c \in Commands : msg[c] # "unsent"}, execs, answered>>
  BY StepService
<1> QED BY <1>1, <1>2, Invariance, PTL DEF Spec, ImplementsService, Service!Spec
=============================================================================
