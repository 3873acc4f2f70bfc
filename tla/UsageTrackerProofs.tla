-------------------------- MODULE UsageTrackerProofs --------------------------
(***************************************************************************)
(* Proofs about UsageTracker, for any number of publishers, any threshold  *)
(* and any number of months.                                               *)
(*                                                                         *)
(* BlockHolds counts a thread that has loaded the file as still recording, *)
(* also when the month has changed since, and then what it will write      *)
(* counts for nothing.  The inductive invariant therefore counts only the  *)
(* threads whose copy is of this month (Counting), separately for the      *)
(* messages published, and follows the one thread that may be between      *)
(* emptying the file and writing it.                                       *)
(***************************************************************************)
EXTENDS UsageTracker, FiniteSetTheorems, TLAPS

\* The numbers, and the steps of the threads.
Numbers ==
    /\ month \in 0..MaxMonths
    /\ usageStep \in [Recorders -> {"idle", "publish", "record", "loaded", "writing"}]
    /\ fresh \subseteq Recorders
    /\ published \in Nat /\ received \in Nat /\ published + received <= MaxTraffic
    /\ missed \in Nat /\ missed <= usageTroubles
    /\ overlapped \in BOOLEAN
    /\ usageTroubles \in 0..MaxUsageTroubles

Busy == {"record", "loaded", "writing"}
Pending == {a \in Recorders : usageStep[a] \in Busy}
Publishing == {a \in Publishers : usageStep[a] = "publish"}

\* The threads that will add a message to the count of this month.
WillAdd(a) == \/ usageStep[a] = "record"
              \/ usageStep[a] = "loaded" /\ usageCopy[a].month = month
Counting(S) == {a \in S : WillAdd(a)}

\* The messages of all months are at most:
Total == MaxTraffic * month + published + received
Dated == [month : 0..month, bytes : Nat]

\* What is in the file, or will be: every message is written once at most.
UsageRoom == Total - Cardinality(Pending)

UsageFileInv ==
    /\ usageFile \in Dated \cup {Torn}
    /\ usageFile # Torn => usageFile.bytes <= UsageRoom
    /\ 0 <= UsageRoom

CopyInv ==
    /\ usageCopy \in [Recorders -> Dated \cup {Torn}]
    /\ \A a \in fresh : usageStep[a] = "loaded"
    /\ \A a \in Recorders : usageStep[a] \in {"loaded", "writing"} =>
          usageCopy[a] # Torn /\ usageCopy[a].bytes <= UsageRoom
    /\ \A a \in Recorders : usageStep[a] \notin {"loaded", "writing"} => usageCopy[a] = Torn

\* Nobody wrote since a fresh thread has loaded.
FreshInv ==
    \A a \in fresh :
        /\ usageFile # Torn
        /\ \/ usageFile = usageCopy[a]
           \/ usageFile.month < usageCopy[a].month /\ usageCopy[a].bytes = 0

\* One thread at most is between emptying and writing.
WriterInv ==
    \A w \in Recorders : usageStep[w] = "writing" =>
        /\ usageFile = Torn
        /\ \A a \in Recorders : usageStep[a] = "writing" => a = w

Accounted(bytes) ==
    /\ published + received <= bytes + missed + Cardinality(Counting(Recorders))
    /\ published <= bytes + missed + Cardinality(Counting(Publishers))

\* What the file will count of this month when w has written it.
Writing(w) == IF usageCopy[w].month = month THEN usageCopy[w].bytes + 1 ELSE 0

UsageCountInv ==
    /\ usageFile # Torn => Accounted(Loaded.bytes)
    /\ \A w \in Recorders : usageStep[w] = "writing" => Accounted(Writing(w))

BlockInv ==
    /\ published + Cardinality(Publishing) <= BlockAt - 1 + Cardinality(Publishers) - 1 + missed
    /\ Publishing # {} => BlockAt >= 2

Apart == FreshInv /\ WriterInv /\ UsageCountInv /\ BlockInv

UsageInv == Numbers /\ UsageFileInv /\ CopyInv /\ (overlapped \/ Apart)

(* -------------------------------- counting ------------------------------- *)

\* The threads are finitely many, and so are those in any of the sets counted.
LEMMA FiniteThreads ==
    /\ \A S \in SUBSET Recorders : IsFiniteSet(S) /\ Cardinality(S) \in Nat
    /\ Cardinality(Publishers) \in Nat \ {0}
<1>1. IsFiniteSet(Recorders)
  BY FS_AddElement, UsageAssumption DEF Recorders
<1>2. ASSUME NEW S \in SUBSET Recorders PROVE IsFiniteSet(S) /\ Cardinality(S) \in Nat
  BY <1>1, FS_Subset, FS_CardinalityType
<1>3. Cardinality(Publishers) \in Nat \ {0}
  BY <1>2, FS_EmptySet, UsageAssumption DEF Recorders
<1> QED BY <1>2, <1>3

\* One thread more, or one less.
LEMMA OneMore ==
    ASSUME NEW S \in SUBSET Recorders, NEW a \in Recorders, NEW T
    PROVE  /\ T = S \cup {a} /\ a \notin S => Cardinality(T) = Cardinality(S) + 1
           /\ T = S \cup {a} /\ a \in S => Cardinality(T) = Cardinality(S)
           /\ T = S \ {a} /\ a \in S => Cardinality(T) = Cardinality(S) - 1
           /\ T = S \ {a} /\ a \notin S => Cardinality(T) = Cardinality(S)
  BY FiniteThreads, FS_AddElement, FS_RemoveElement

LEMMA Subsets ==
    ASSUME NEW S \in SUBSET Recorders, NEW T \in SUBSET S
    PROVE  Cardinality(T) <= Cardinality(S)
  BY FiniteThreads, FS_Subset

\* The sets that the invariants count, and their sizes.
LEMMA Sets ==
    /\ Pending \in SUBSET Recorders /\ Publishing \in SUBSET Recorders
    /\ Publishing \in SUBSET Publishers
    /\ Counting(Recorders) \in SUBSET Recorders /\ Counting(Publishers) \in SUBSET Recorders
    /\ Cardinality(Pending) \in Nat /\ Cardinality(Publishing) \in Nat
    /\ Cardinality(Counting(Recorders)) \in Nat /\ Cardinality(Counting(Publishers)) \in Nat
    /\ Cardinality(Publishers) \in Nat \ {0}
<1>1. /\ Pending \in SUBSET Recorders /\ Publishing \in SUBSET Recorders
      /\ Publishing \in SUBSET Publishers
      /\ Counting(Recorders) \in SUBSET Recorders /\ Counting(Publishers) \in SUBSET Recorders
  BY DEF Pending, Publishing, Counting, Recorders
<1> QED BY <1>1, FiniteThreads

LEMMA SetsNext ==
    /\ Pending' \in SUBSET Recorders /\ Publishing' \in SUBSET Recorders
    /\ Cardinality(Pending') \in Nat /\ Cardinality(Publishing') \in Nat
    /\ Counting(Recorders)' \in SUBSET Recorders /\ Counting(Publishers)' \in SUBSET Recorders
    /\ Cardinality(Counting(Recorders)') \in Nat /\ Cardinality(Counting(Publishers)') \in Nat
<1>1. /\ Pending' \in SUBSET Recorders /\ Publishing' \in SUBSET Recorders
      /\ Counting(Recorders)' \in SUBSET Recorders /\ Counting(Publishers)' \in SUBSET Recorders
  BY DEF Pending, Publishing, Counting, Recorders
<1> QED BY <1>1, FiniteThreads

\* Two publishers are never counted as recording and as publishing at once.
LEMMA Disjoint ==
    Cardinality(Counting(Publishers)) + Cardinality(Publishing) <= Cardinality(Publishers)
<1>1. /\ IsFiniteSet(Counting(Publishers)) /\ IsFiniteSet(Publishing)
      /\ Counting(Publishers) \cap Publishing = {}
      /\ Counting(Publishers) \cup Publishing \in SUBSET Publishers
      /\ Publishers \in SUBSET Recorders
  BY Sets, FiniteThreads DEF Counting, WillAdd, Publishing, Recorders
<1>2. Cardinality(Counting(Publishers) \cup Publishing)
        = Cardinality(Counting(Publishers)) + Cardinality(Publishing)
  <2>1. Cardinality(Counting(Publishers) \cup Publishing)
          = Cardinality(Counting(Publishers)) + Cardinality(Publishing)
            - Cardinality(Counting(Publishers) \cap Publishing)
    BY <1>1, FS_Union
  <2>2. Cardinality(Counting(Publishers) \cap Publishing) = 0
    BY <1>1, FS_EmptySet
  <2>3. Cardinality(Counting(Publishers)) \in Nat /\ Cardinality(Publishing) \in Nat
    BY Sets
  <2> QED BY <2>1, <2>2, <2>3
<1> QED BY <1>1, <1>2, Subsets

\* How a step of one thread changes the sets.
LEMMA PendingMoves ==
    ASSUME UsageTypeOK, NEW a \in Recorders, NEW s, UsageMoves(a, s)
    PROVE  /\ s \in Busy => Pending' = Pending \cup {a}
           /\ s \notin Busy => Pending' = Pending \ {a}
           /\ a \in Pending <=> usageStep[a] \in Busy
  BY DEF UsageMoves, UsageTypeOK, Pending

LEMMA PublishingMoves ==
    ASSUME UsageTypeOK, NEW a \in Recorders, NEW s, UsageMoves(a, s)
    PROVE  /\ s = "publish" /\ a \in Publishers => Publishing' = Publishing \cup {a}
           /\ s # "publish" => Publishing' = Publishing \ {a}
           /\ a \in Publishing <=> usageStep[a] = "publish" /\ a \in Publishers
  BY DEF UsageMoves, UsageTypeOK, Publishing, Recorders

LEMMA CountingMoves ==
    ASSUME UsageTypeOK, NEW S \in SUBSET Recorders, NEW a \in Recorders, NEW s,
           UsageMoves(a, s), month' = month,
           \A b \in Recorders \ {a} : usageCopy'[b] = usageCopy[b]
    PROVE  /\ a \in S /\ WillAdd(a)' => Counting(S)' = Counting(S) \cup {a}
           /\ a \notin S \/ ~WillAdd(a)' => Counting(S)' = Counting(S) \ {a}
           /\ a \in Counting(S) <=> a \in S /\ WillAdd(a)
<1>1. \A b \in Recorders \ {a} : usageStep'[b] = usageStep[b]
  BY DEF UsageMoves, UsageTypeOK
<1>2. \A b \in Recorders \ {a} : WillAdd(b)' <=> WillAdd(b)
  BY <1>1 DEF WillAdd
<1> HIDE DEF WillAdd
<1> QED BY <1>2 DEF Counting

\* The sizes after a step of one thread.
LEMMA PendingSize ==
    ASSUME UsageTypeOK, NEW a \in Recorders, NEW s, UsageMoves(a, s)
    PROVE  /\ s \in Busy /\ usageStep[a] \notin Busy
                => Cardinality(Pending') = Cardinality(Pending) + 1
           /\ s \notin Busy /\ usageStep[a] \in Busy
                => Cardinality(Pending') = Cardinality(Pending) - 1
           /\ (s \in Busy <=> usageStep[a] \in Busy)
                => Cardinality(Pending') = Cardinality(Pending)
<1>1. Pending \in SUBSET Recorders
  BY Sets
<1>2. /\ s \in Busy => Pending' = Pending \cup {a}
      /\ s \notin Busy => Pending' = Pending \ {a}
      /\ a \in Pending <=> usageStep[a] \in Busy
  BY PendingMoves
<1> QED BY <1>1, <1>2, OneMore

LEMMA PublishingSize ==
    ASSUME UsageTypeOK, NEW a \in Recorders, NEW s, UsageMoves(a, s)
    PROVE  /\ a \in Publishers /\ s = "publish" /\ usageStep[a] # "publish"
                => Cardinality(Publishing') = Cardinality(Publishing) + 1
           /\ a \in Publishers /\ s # "publish" /\ usageStep[a] = "publish"
                => Cardinality(Publishing') = Cardinality(Publishing) - 1
           /\ s # "publish" /\ usageStep[a] # "publish"
                => Cardinality(Publishing') = Cardinality(Publishing)
<1>1. Publishing \in SUBSET Recorders
  BY Sets
<1>2. /\ s = "publish" /\ a \in Publishers => Publishing' = Publishing \cup {a}
      /\ s # "publish" => Publishing' = Publishing \ {a}
      /\ a \in Publishing <=> usageStep[a] = "publish" /\ a \in Publishers
  BY PublishingMoves
<1> QED BY <1>1, <1>2, OneMore

LEMMA CountingSize ==
    ASSUME UsageTypeOK, NEW S \in SUBSET Recorders, NEW a \in Recorders, NEW s,
           UsageMoves(a, s), month' = month,
           \A b \in Recorders \ {a} : usageCopy'[b] = usageCopy[b]
    PROVE  /\ a \in S /\ WillAdd(a)' /\ ~WillAdd(a)
                => Cardinality(Counting(S)') = Cardinality(Counting(S)) + 1
           /\ a \in S /\ ~WillAdd(a)' /\ WillAdd(a)
                => Cardinality(Counting(S)') = Cardinality(Counting(S)) - 1
           /\ a \notin S \/ (WillAdd(a)' <=> WillAdd(a))
                => Cardinality(Counting(S)') = Cardinality(Counting(S))
<1>1. Counting(S) \in SUBSET Recorders
  BY DEF Counting
<1>2. /\ a \in S /\ WillAdd(a)' => Counting(S)' = Counting(S) \cup {a}
      /\ a \notin S \/ ~WillAdd(a)' => Counting(S)' = Counting(S) \ {a}
      /\ a \in Counting(S) <=> a \in S /\ WillAdd(a)
  BY CountingMoves
<1> QED BY <1>1, <1>2, OneMore

(* -------------------------------- the types ------------------------------ *)

LEMMA Sums ==
    ASSUME NEW k \in Int, NEW p \in Nat, NEW q \in Nat, NEW r \in Nat, NEW s \in Nat,
           NEW n \in Nat, p + q = r + s + n
    PROVE  k + p + q = (k + r + s) + n
  OBVIOUS

LEMMA UsageBounds ==
    /\ BlockAt \in Nat /\ MaxTraffic \in Nat /\ MaxMonths \in Nat /\ MaxUsageTroubles \in Nat
    /\ BlockAt >= 1
  BY UsageAssumption

LEMMA NumbersKept ==
    ASSUME Numbers, UsageNext PROVE Numbers'
<1>0. \A a \in Recorders, s \in {"idle", "publish", "record", "loaded", "writing"} :
        UsageMoves(a, s)
          => usageStep' \in [Recorders -> {"idle", "publish", "record", "loaded", "writing"}]
  BY DEF Numbers, UsageMoves
<1>1. ASSUME NEW a \in Publishers,
             CheckBeforePublish(a) \/ PublishGoesOut(a) \/ PublishRaises(a)
      PROVE  Numbers'
  <2>0. a \in Recorders
    BY DEF Recorders
  <2>1. CASE CheckBeforePublish(a)
    <3>1. overlapped' \in BOOLEAN
      BY <2>1 DEF CheckBeforePublish, Numbers
    <3> QED BY <1>0, <2>0, <2>1, <3>1 DEF CheckBeforePublish, Numbers, messages
  <2>2. CASE PublishGoesOut(a)
    BY <1>0, <2>0, <2>2, UsageBounds DEF PublishGoesOut, TrafficLeft, Numbers
  <2>3. CASE PublishRaises(a)
    BY <1>0, <2>0, <2>3, UsageBounds DEF PublishRaises, TrafficLeft, UsageTrouble, Numbers
  <2> QED BY <1>1, <2>1, <2>2, <2>3
<1>2. ASSUME NEW a \in Recorders,
             \/ Receives(a) \/ UsageLoads(a) \/ UsageEmpties(a) \/ UsageWrites(a)
             \/ RecorderDies(a)
      PROVE  Numbers'
  <2>1. CASE Receives(a)
    BY <1>0, <2>1, UsageBounds DEF Receives, TrafficLeft, Numbers
  <2>2. CASE UsageLoads(a)
    <3>1. overlapped' \in BOOLEAN
      BY <2>2 DEF UsageLoads, Numbers
    <3> QED BY <1>0, <2>2, <3>1 DEF UsageLoads, Numbers, messages
  <2>3. CASE UsageEmpties(a)
    <3>1. overlapped' \in BOOLEAN
      BY <2>3 DEF UsageEmpties, Numbers
    <3> QED BY <1>0, <2>3, <3>1 DEF UsageEmpties, Numbers, messages
  <2>4. CASE UsageWrites(a)
    BY <1>0, <2>4 DEF UsageWrites, Numbers, usageHistory
  <2>5. CASE RecorderDies(a)
    <3>1. missed' \in Nat /\ missed' <= usageTroubles'
      BY <2>5, UsageBounds DEF RecorderDies, UsageTrouble, Numbers
    <3> QED BY <1>0, <2>5, <3>1, UsageBounds DEF RecorderDies, UsageTrouble, Numbers
  <2> QED BY <1>2, <2>1, <2>2, <2>3, <2>4, <2>5
<1>3. CASE MonthEnds
  BY <1>3, UsageBounds DEF MonthEnds, Numbers
<1> QED BY <1>1, <1>2, <1>3 DEF UsageNext

\* The parts of the type invariant that bound the bytes follow from the others.
LEMMA BytesBounded ==
    ASSUME Numbers, UsageFileInv, CopyInv
    PROVE  UsageTypeOK
<1>1. MaxTraffic * month \in Nat /\ MaxTraffic * (MaxMonths + 1) \in Nat
  BY UsageBounds DEF Numbers
<1>2. MaxTraffic * month + MaxTraffic <= MaxTraffic * (MaxMonths + 1)
  <2>1. \A m \in 0..MaxMonths : MaxTraffic * m + MaxTraffic <= MaxTraffic * (MaxMonths + 1)
    BY UsageBounds
  <2> QED BY <2>1 DEF Numbers
<1>3. UsageRoom <= MaxTraffic * (MaxMonths + 1)
  BY <1>1, <1>2, Sets, UsageBounds DEF Numbers, UsageRoom, Total
<1>3a. UsageRoom \in Int
  BY <1>1, Sets DEF Numbers, UsageRoom, Total
<1>4. \A u \in Dated : u.bytes <= UsageRoom => u \in Usages
  BY <1>1, <1>3, <1>3a, UsageBounds DEF Dated, Usages, Numbers
<1>5. usageFile \in Usages \cup {Torn}
  BY <1>4 DEF UsageFileInv
<1>6. usageCopy \in [Recorders -> Usages \cup {Torn}]
  BY <1>4 DEF CopyInv
<1>7. {published, received} \subseteq 0..MaxTraffic /\ missed \in 0..MaxUsageTroubles
  BY UsageBounds DEF Numbers
<1> QED BY <1>5, <1>6, <1>7 DEF UsageTypeOK, Numbers

(* --------------------------- the file and the copies --------------------- *)

\* What is being recorded never exceeds the messages there were.
LEMMA UsageRoomKept ==
    ASSUME UsageTypeOK, Numbers, UsageNext, UsageRoom \in Int
    PROVE  /\ UsageRoom' \in Int /\ UsageRoom <= UsageRoom'
           /\ \A a \in Recorders : UsageWrites(a) => UsageRoom + 1 <= UsageRoom'
<1>0. /\ MaxTraffic * month \in Int /\ MaxTraffic * (month + 1) = MaxTraffic * month + MaxTraffic
      /\ Cardinality(Pending) \in Nat /\ Cardinality(Pending') \in Nat
      /\ published \in Nat /\ received \in Nat /\ MaxTraffic \in Nat /\ month \in Nat
      /\ published + received <= MaxTraffic
  BY UsageBounds, Sets, SetsNext DEF Numbers
<1> DEFINE Grows(more) == Total' = Total + more /\ Total \in Int
<1>1. ASSUME month' = month, NEW n \in Nat, published' + received' = published + received + n,
             published' \in Nat, received' \in Nat
      PROVE  Grows(n)
  <2>1. Total' = MaxTraffic * month + published' + received'
    BY <1>1 DEF Total
  <2>2. Total = MaxTraffic * month + published + received
    BY DEF Total
  <2>4. MaxTraffic * month + published' + received' = (MaxTraffic * month + published + received) + n
    <3>1. /\ published \in Nat /\ received \in Nat /\ MaxTraffic * month \in Int
      BY <1>0
    <3>2. published' + received' = published + received + n
      BY <1>1
    <3>3. published' \in Nat /\ received' \in Nat /\ n \in Nat
      BY <1>1
    <3>4. PICK p, q \in Nat : p = published' /\ q = received'
      BY <3>3
    <3>5. p + q = published + received + n
      BY <3>2, <3>4
    <3>6. \A k \in Int : k + p + q = (k + published + received) + n
      BY <3>1, <3>3, <3>5, Sums
    <3>7. MaxTraffic * month + p + q = (MaxTraffic * month + published + received) + n
      BY <3>1, <3>6, Zenon
    <3> QED BY <3>4, <3>7
  <2>5. MaxTraffic * month + published + received \in Int
    BY <1>0
  <2> QED BY <2>1, <2>2, <2>4, <2>5
<1>2. ASSUME NEW a \in Publishers,
             CheckBeforePublish(a) \/ PublishGoesOut(a) \/ PublishRaises(a)
      PROVE  UsageRoom' \in Int /\ UsageRoom <= UsageRoom' /\ usageStep[a] \in {"idle", "publish"}
  <2>0. a \in Recorders
    BY DEF Recorders
  <2>1. CASE CheckBeforePublish(a)
    <3>1. usageStep[a] = "idle" /\ Cardinality(Pending') = Cardinality(Pending)
      BY <2>0, <2>1, PendingSize DEF CheckBeforePublish, Busy
    <3>2. Grows(0)
      BY <1>0, <1>1, <2>1 DEF CheckBeforePublish, messages
    <3> QED BY <1>0, <3>1, <3>2 DEF UsageRoom
  <2>2. CASE PublishGoesOut(a)
    <3>1. usageStep[a] = "publish" /\ Cardinality(Pending') = Cardinality(Pending) + 1
      BY <2>0, <2>2, PendingSize DEF PublishGoesOut, Busy
    <3>2. Grows(1)
      BY <1>0, <1>1, <2>2 DEF PublishGoesOut
    <3> QED BY <1>0, <3>1, <3>2 DEF UsageRoom
  <2>3. CASE PublishRaises(a)
    <3>1. usageStep[a] = "publish" /\ Cardinality(Pending') = Cardinality(Pending)
      BY <2>0, <2>3, PendingSize DEF PublishRaises, Busy
    <3>2. Grows(0) \/ Grows(1)
      BY <1>0, <1>1, <2>3 DEF PublishRaises
    <3> QED BY <1>0, <3>1, <3>2 DEF UsageRoom
  <2> QED BY <1>2, <2>1, <2>2, <2>3
<1>3. ASSUME NEW a \in Recorders, Receives(a)
      PROVE  UsageRoom' \in Int /\ UsageRoom <= UsageRoom'
  <2>1. Cardinality(Pending') = Cardinality(Pending) + 1
    BY <1>3, PendingSize DEF Receives, Busy
  <2>2. Grows(1)
    BY <1>0, <1>1, <1>3 DEF Receives
  <2> QED BY <1>0, <2>1, <2>2 DEF UsageRoom
<1>4. ASSUME NEW a \in Recorders, UsageLoads(a) \/ UsageEmpties(a)
      PROVE  UsageRoom' \in Int /\ UsageRoom <= UsageRoom'
  <2>1. Cardinality(Pending') = Cardinality(Pending)
    BY <1>4, PendingSize DEF UsageLoads, UsageEmpties, Busy
  <2>2. Grows(0)
    BY <1>0, <1>1, <1>4 DEF UsageLoads, UsageEmpties, messages
  <2> QED BY <1>0, <2>1, <2>2 DEF UsageRoom
<1>5. ASSUME NEW a \in Recorders, UsageWrites(a)
      PROVE  UsageRoom' \in Int /\ UsageRoom + 1 <= UsageRoom'
  <2>1. Cardinality(Pending') = Cardinality(Pending) - 1
    BY <1>5, PendingSize DEF UsageWrites, Busy
  <2>2. Grows(0)
    <3>1. month' = month /\ published' = published /\ received' = received
      BY <1>5 DEF UsageWrites, usageHistory
    <3> QED BY <1>0, <1>1, <3>1
  <2> QED BY <1>0, <2>1, <2>2 DEF UsageRoom
<1>6. ASSUME NEW a \in Recorders, RecorderDies(a)
      PROVE  UsageRoom' \in Int /\ UsageRoom <= UsageRoom'
  <2>1. Cardinality(Pending') = Cardinality(Pending) \/ Cardinality(Pending') = Cardinality(Pending) - 1
    BY <1>6, PendingSize DEF RecorderDies, Busy
  <2>2. Grows(0)
    BY <1>0, <1>1, <1>6 DEF RecorderDies
  <2> QED BY <1>0, <2>1, <2>2 DEF UsageRoom
<1>7. ASSUME MonthEnds
      PROVE  UsageRoom' \in Int /\ UsageRoom <= UsageRoom'
  <2>1. Pending' = Pending
    BY <1>7 DEF MonthEnds, Pending
  <2>2. Total' = MaxTraffic * (month + 1) /\ Total \in Int /\ Total <= Total'
    <3>1. Total' = MaxTraffic * month + MaxTraffic + 0 + 0
      BY <1>0, <1>7 DEF MonthEnds, Total
    <3> QED BY <1>0, <1>7, <3>1 DEF MonthEnds, Total
  <2>3. UsageRoom \in Int /\ UsageRoom = Total - Cardinality(Pending)
        /\ UsageRoom' = Total' - Cardinality(Pending)
    BY <2>1 DEF UsageRoom
  <2> QED
    <3>1. \A x, y \in Int, c \in Nat : x <= y => x - c <= y - c
      OBVIOUS
    <3> QED BY <1>0, <2>2, <2>3, <3>1
<1>8. \A a \in Recorders : UsageWrites(a) => UsageRoom + 1 <= UsageRoom'
  BY <1>5
<1> QED BY <1>2, <1>3, <1>4, <1>5, <1>6, <1>7, <1>8 DEF UsageNext

\* The file and the copies are of no month to come, and hold no more than the
\* messages recorded.
LEMMA UsageFilesKept ==
    ASSUME UsageTypeOK, Numbers, UsageFileInv, CopyInv, UsageNext
    PROVE  UsageFileInv' /\ CopyInv'
<1>0. UsageRoom \in Int /\ Torn \notin Dated
  BY UsageBounds, Sets, UsageAssumption DEF Numbers, UsageRoom, Total, Dated
<1>1. /\ UsageRoom' \in Int /\ UsageRoom <= UsageRoom' /\ 0 <= UsageRoom'
      /\ \A a \in Recorders : UsageWrites(a) => UsageRoom + 1 <= UsageRoom'
  BY <1>0, UsageRoomKept DEF UsageFileInv
<1>2. Numbers' /\ Dated \subseteq Dated'
  <2>1. Numbers'
    BY NumbersKept
  <2>2. month' = month \/ month' = month + 1
    BY DEF UsageNext, CheckBeforePublish, PublishGoesOut, PublishRaises, Receives, UsageLoads,
           UsageEmpties, UsageWrites, RecorderDies, MonthEnds
  <2>3. 0..month \subseteq 0..month'
    BY <2>1, <2>2, UsageBounds DEF Numbers
  <2> QED BY <2>1, <2>3 DEF Dated
<1>3. \A u \in Dated : u.bytes <= UsageRoom => u \in Dated' /\ u.bytes <= UsageRoom'
  BY <1>0, <1>1, <1>2 DEF Dated
<1>4. Loaded \in Dated /\ Loaded.bytes <= UsageRoom
  BY <1>0, UsageBounds DEF Loaded, Dated, UsageFileInv, Numbers
<1> DEFINE FileFits == usageFile' = Torn \/ (usageFile' \in Dated' /\ usageFile'.bytes <= UsageRoom')
<1> DEFINE CopyFits(a) ==
      /\ usageCopy'[a] \in Dated' \cup {Torn}
      /\ usageStep'[a] = "loaded" \/ usageStep'[a] = "writing"
           => usageCopy'[a] # Torn /\ usageCopy'[a].bytes <= UsageRoom'
      /\ usageStep'[a] # "loaded" /\ usageStep'[a] # "writing" => usageCopy'[a] = Torn
      /\ a \in fresh' => usageStep'[a] = "loaded"
<1>5. SUFFICES ASSUME TRUE PROVE
        /\ FileFits
        /\ usageCopy' = [a \in Recorders |-> usageCopy'[a]]
        /\ \A a \in Recorders : CopyFits(a)
  BY <1>0, <1>1, <1>2 DEF UsageFileInv, CopyInv, Numbers
<1>6. usageFile' = usageFile => FileFits
  BY <1>3 DEF UsageFileInv
<1>7. \A a \in Recorders :
        /\ usageCopy'[a] = usageCopy[a] /\ usageStep'[a] = usageStep[a]
        /\ a \in fresh' => a \in fresh
        => CopyFits(a)
  BY <1>0, <1>3 DEF CopyInv
<1>8. ASSUME NEW a \in Recorders, NEW s, UsageMoves(a, s), usageCopy' = usageCopy,
             s \notin {"loaded", "writing"}, usageStep[a] \notin {"loaded", "writing"},
             fresh' = fresh
      PROVE  /\ usageCopy' = [b \in Recorders |-> usageCopy'[b]]
             /\ \A b \in Recorders : CopyFits(b)
  <2>1. ASSUME NEW b \in Recorders PROVE CopyFits(b)
    <3>1. CASE b = a
      BY <1>8, <3>1 DEF CopyInv, UsageMoves, UsageTypeOK
    <3>2. CASE b # a
      BY <1>7, <1>8, <3>2 DEF UsageMoves, UsageTypeOK
    <3> QED BY <3>1, <3>2
  <2> QED BY <1>8, <2>1 DEF CopyInv
<1>9. ASSUME NEW a \in Publishers,
             CheckBeforePublish(a) \/ PublishGoesOut(a) \/ PublishRaises(a)
      PROVE  FileFits /\ usageCopy' = [b \in Recorders |-> usageCopy'[b]]
             /\ \A b \in Recorders : CopyFits(b)
  <2>1. /\ a \in Recorders /\ usageFile' = usageFile /\ usageCopy' = usageCopy /\ fresh' = fresh
        /\ usageStep[a] \notin {"loaded", "writing"}
        /\ UsageMoves(a, "publish") \/ UsageMoves(a, "record") \/ UsageMoves(a, "idle")
    BY <1>9 DEF CheckBeforePublish, PublishGoesOut, PublishRaises, Recorders
  <2> QED BY <1>6, <1>8, <2>1
<1>10. ASSUME NEW a \in Recorders, Receives(a)
       PROVE  FileFits /\ usageCopy' = [b \in Recorders |-> usageCopy'[b]]
              /\ \A b \in Recorders : CopyFits(b)
  <2>1. /\ usageFile' = usageFile /\ usageCopy' = usageCopy /\ fresh' = fresh
        /\ usageStep[a] \notin {"loaded", "writing"} /\ UsageMoves(a, "record")
    BY <1>10 DEF Receives
  <2> QED BY <1>6, <1>8, <2>1
<1>11. ASSUME NEW a \in Recorders, UsageLoads(a) \/ UsageEmpties(a) \/ UsageWrites(a)
                                    \/ RecorderDies(a)
       PROVE  FileFits /\ usageCopy' = [b \in Recorders |-> usageCopy'[b]]
              /\ \A b \in Recorders : CopyFits(b)
  <2>1. FileFits
    <3>1. CASE UsageWrites(a)
      <4>1. usageCopy[a] \in Dated /\ usageCopy[a].bytes <= UsageRoom
        BY <3>1 DEF UsageWrites, CopyInv
      <4>2. CASE usageFile' = [usageCopy[a] EXCEPT !.bytes = @ + 1]
        BY <1>0, <1>1, <1>2, <3>1, <4>1, <4>2 DEF Dated
      <4> QED BY <3>1, <4>2 DEF UsageWrites
    <3>2. CASE UsageLoads(a) \/ UsageEmpties(a) \/ RecorderDies(a)
      BY <1>6, <3>2 DEF UsageLoads, UsageEmpties, RecorderDies
    <3> QED BY <1>11, <3>1, <3>2
  <2>2. usageCopy' = [b \in Recorders |-> usageCopy'[b]]
    BY <1>11 DEF UsageLoads, UsageEmpties, UsageWrites, RecorderDies, CopyInv
  <2>3. ASSUME NEW b \in Recorders PROVE CopyFits(b)
    <3>1. CASE b # a
      BY <1>7, <1>11, <3>1
      DEF UsageLoads, UsageEmpties, UsageWrites, RecorderDies, UsageMoves, UsageTypeOK, CopyInv
    <3>2. CASE b = a /\ UsageLoads(a)
      <4>1. usageCopy'[a] = Loaded /\ usageStep'[a] = "loaded"
        BY <3>2 DEF UsageLoads, UsageMoves, UsageTypeOK, CopyInv
      <4> QED BY <1>0, <1>3, <1>4, <3>2, <4>1
    <3>3. CASE b = a /\ UsageEmpties(a)
      <4>1. /\ usageCopy'[a] = usageCopy[a] /\ usageStep'[a] = "writing" /\ fresh' = {}
            /\ usageCopy[a] \in Dated /\ usageCopy[a].bytes <= UsageRoom
        BY <3>3 DEF UsageEmpties, UsageMoves, UsageTypeOK, CopyInv
      <4> QED BY <1>0, <1>3, <3>3, <4>1
    <3>4. CASE b = a /\ (UsageWrites(a) \/ RecorderDies(a))
      BY <3>4 DEF UsageWrites, RecorderDies, UsageMoves, UsageTypeOK, CopyInv
    <3> QED BY <1>11, <3>1, <3>2, <3>3, <3>4
  <2> QED BY <2>1, <2>2, <2>3
<1>12. CASE MonthEnds
  BY <1>6, <1>7, <1>12 DEF MonthEnds, CopyInv
<1> QED BY <1>9, <1>10, <1>11, <1>12 DEF UsageNext

(* ------------------------------- the accounts ---------------------------- *)

\* The steps that change neither the file nor the month, nor begin or end a write.
Elsewhere(a) ==
    \/ a \in Publishers /\ (CheckBeforePublish(a) \/ PublishGoesOut(a) \/ PublishRaises(a))
    \/ Receives(a) \/ UsageLoads(a) \/ RecorderDies(a)

LEMMA ElsewhereIs ==
    ASSUME UsageTypeOK, NEW a \in Recorders, Elsewhere(a)
    PROVE  /\ usageFile' = usageFile /\ month' = month /\ Loaded' = Loaded
           /\ \A b \in Recorders \ {a} : usageCopy'[b] = usageCopy[b] /\ usageStep'[b] = usageStep[b]
           /\ usageStep'[a] # "writing"
           /\ overlapped => overlapped'
<1>1. /\ usageFile' = usageFile /\ month' = month
      /\ \A b \in Recorders \ {a} : usageCopy'[b] = usageCopy[b] /\ usageStep'[b] = usageStep[b]
      /\ usageStep'[a] # "writing"
  BY DEF Elsewhere, CheckBeforePublish, PublishGoesOut, PublishRaises, Receives, UsageLoads,
         RecorderDies, UsageMoves, UsageTypeOK
<1>2. overlapped => overlapped'
  BY DEF Elsewhere, CheckBeforePublish, PublishGoesOut, PublishRaises, Receives, UsageLoads,
         RecorderDies
<1>3. Loaded' = Loaded
  BY <1>1 DEF Loaded
<1> QED BY <1>1, <1>2, <1>3

\* What they do to the number of messages and to those who will add one.
LEMMA ElsewhereCounts ==
    ASSUME UsageTypeOK, Numbers, CopyInv, NEW a \in Recorders, Elsewhere(a),
           NEW S \in SUBSET Recorders
    PROVE  LET now == Cardinality(Counting(S)) IN
           /\ \/ /\ Cardinality(Counting(S)') = now /\ UNCHANGED messages
              \/ /\ Cardinality(Counting(S)') \in {now - 1, now}
                 /\ UNCHANGED <<published, received>> /\ missed' = missed + 1
              \/ /\ Cardinality(Counting(S)') = now /\ a \in Publishers
                 /\ published' = published + 1 /\ received' = received /\ missed' = missed + 1
              \/ /\ Cardinality(Counting(S)') = now + (IF a \in S THEN 1 ELSE 0)
                 /\ a \in Publishers
                 /\ published' = published + 1 /\ received' = received /\ missed' = missed
              \/ /\ Cardinality(Counting(S)') = now + (IF a \in S THEN 1 ELSE 0)
                 /\ published' = published /\ received' = received + 1 /\ missed' = missed
<1>0. Cardinality(Counting(S)) \in Nat
  <2>1. Counting(S) \in SUBSET Recorders
    BY DEF Counting
  <2> QED BY <2>1, FiniteThreads
<1>1. /\ month' = month
      /\ \A b \in Recorders \ {a} : usageCopy'[b] = usageCopy[b]
  BY ElsewhereIs
<1> DEFINE now == Cardinality(Counting(S))
<1> DEFINE next == Cardinality(Counting(S)')
<1>2. ASSUME NEW s, UsageMoves(a, s)
      PROVE  /\ a \in S /\ WillAdd(a)' /\ ~WillAdd(a) => next = now + 1
             /\ a \in S /\ ~WillAdd(a)' /\ WillAdd(a) => next = now - 1
             /\ a \notin S \/ (WillAdd(a)' <=> WillAdd(a)) => next = now
  BY <1>1, <1>2, CountingSize
<1>3. CASE a \in Publishers /\ CheckBeforePublish(a)
  <2>1. UsageMoves(a, "publish") /\ ~WillAdd(a) /\ ~WillAdd(a)'
    BY <1>3 DEF CheckBeforePublish, UsageMoves, WillAdd, UsageTypeOK
  <2> QED BY <1>2, <1>3, <2>1 DEF CheckBeforePublish
<1>4. CASE a \in Publishers /\ PublishGoesOut(a)
  <2>1. UsageMoves(a, "record") /\ ~WillAdd(a) /\ WillAdd(a)'
    BY <1>4 DEF PublishGoesOut, UsageMoves, WillAdd, UsageTypeOK
  <2>2. (a \in S => next = now + 1) /\ (a \notin S => next = now)
    BY <1>2, <2>1
  <2> QED BY <1>0, <1>4, <2>2 DEF PublishGoesOut
<1>5. CASE a \in Publishers /\ PublishRaises(a)
  <2>1. UsageMoves(a, "idle") /\ ~WillAdd(a) /\ ~WillAdd(a)'
    BY <1>5 DEF PublishRaises, UsageMoves, WillAdd, UsageTypeOK
  <2> QED BY <1>2, <1>5, <2>1 DEF PublishRaises, messages
<1>6. CASE Receives(a)
  <2>1. UsageMoves(a, "record") /\ ~WillAdd(a) /\ WillAdd(a)'
    BY <1>6 DEF Receives, UsageMoves, WillAdd, UsageTypeOK
  <2>2. (a \in S => next = now + 1) /\ (a \notin S => next = now)
    BY <1>2, <2>1
  <2> QED BY <1>0, <1>6, <2>2 DEF Receives
<1>7. CASE UsageLoads(a)
  <2>1. UsageMoves(a, "loaded") /\ WillAdd(a)
    BY <1>7 DEF UsageLoads, WillAdd
  <2>2. usageCopy'[a] = Loaded /\ Loaded.month = month
    BY <1>7 DEF UsageLoads, CopyInv, Loaded
  <2>3. WillAdd(a)'
    BY <1>1, <2>1, <2>2 DEF UsageMoves, WillAdd, UsageTypeOK
  <2> QED BY <1>2, <1>7, <2>1, <2>3 DEF UsageLoads
<1>8. CASE RecorderDies(a)
  <2>1. UsageMoves(a, "idle") /\ ~WillAdd(a)'
    BY <1>8 DEF RecorderDies, UsageMoves, WillAdd, UsageTypeOK
  <2>2. next \in {now - 1, now} /\ (~WillAdd(a) => next = now)
    BY <1>2, <2>1
  <2>3. CASE usageStep[a] = "publish"
    <3>1. ~WillAdd(a)
      BY <2>3 DEF WillAdd
    <3> QED BY <1>8, <2>2, <2>3, <3>1 DEF RecorderDies, messages
  <2>4. CASE usageStep[a] # "publish"
    BY <1>8, <2>2, <2>4 DEF RecorderDies
  <2> QED BY <2>3, <2>4
<1> QED BY <1>3, <1>4, <1>5, <1>6, <1>7, <1>8 DEF Elsewhere

\* The steps are those, the two that write the file, and the end of the month.
LEMMA StepIs ==
    ASSUME UsageNext
    PROVE  \/ \E a \in Recorders : Elsewhere(a) \/ UsageEmpties(a) \/ UsageWrites(a)
           \/ MonthEnds
  BY DEF UsageNext, Elsewhere, Recorders

\* Emptying the file while nobody has written since the load.
LEMMA EmptiesFresh ==
    ASSUME UsageTypeOK, NEW a \in Recorders, UsageEmpties(a), ~overlapped'
    PROVE  a \in fresh /\ ~overlapped
  BY DEF UsageEmpties, UsageTypeOK

LEMMA OverlapStays ==
    ASSUME UsageTypeOK, UsageNext, overlapped PROVE overlapped'
<1>1. ASSUME NEW a \in Recorders, Elsewhere(a) \/ UsageEmpties(a) \/ UsageWrites(a)
      PROVE  overlapped'
  BY <1>1, ElsewhereIs DEF UsageEmpties, UsageWrites, usageHistory
<1>2. CASE MonthEnds
  BY <1>2 DEF MonthEnds
<1> QED BY <1>1, <1>2, StepIs

LEMMA FreshKept ==
    ASSUME UsageTypeOK, Numbers, UsageFileInv, CopyInv, FreshInv, UsageNext, ~overlapped'
    PROVE  FreshInv'
<1>1. ASSUME NEW a \in Recorders, Elsewhere(a) PROVE FreshInv'
  <2>1. CASE UsageLoads(a)
    <3>1. usageFile # Torn /\ usageFile \in Dated /\ a \notin fresh /\ usageCopy'[a] = Loaded
      BY <2>1 DEF UsageLoads, UsageTypeOK, UsageFileInv, CopyInv
    <3>2. usageFile = Loaded \/ (usageFile.month < Loaded.month /\ Loaded.bytes = 0)
      BY <3>1, UsageBounds DEF Loaded, Dated, Numbers
    <3>3. fresh' = fresh \cup {a}
      BY <2>1 DEF UsageLoads
    <3>4. usageFile' = usageFile /\ \A b \in fresh : usageCopy'[b] = usageCopy[b]
      BY <1>1, <3>1, ElsewhereIs DEF UsageTypeOK
    <3> QED BY <3>1, <3>2, <3>3, <3>4 DEF FreshInv
  <2>2. CASE ~UsageLoads(a)
    <3>1. fresh' \subseteq fresh \ {a} \/ (fresh' = fresh /\ usageCopy' = usageCopy)
      BY <1>1, <2>2
      DEF Elsewhere, CheckBeforePublish, PublishGoesOut, PublishRaises, Receives, RecorderDies
    <3>2. \A b \in fresh' : b \in fresh /\ usageCopy'[b] = usageCopy[b]
      BY <1>1, <3>1, ElsewhereIs DEF UsageTypeOK
    <3>3. usageFile' = usageFile
      BY <1>1, ElsewhereIs
    <3> QED BY <3>2, <3>3 DEF FreshInv
  <2> QED BY <2>1, <2>2
<1>2. ASSUME NEW a \in Recorders, UsageEmpties(a) \/ UsageWrites(a) PROVE FreshInv'
  BY <1>2 DEF UsageEmpties, UsageWrites, FreshInv
<1>3. CASE MonthEnds
  BY <1>3 DEF MonthEnds, FreshInv
<1> QED BY <1>1, <1>2, <1>3, StepIs

LEMMA WriterKept ==
    ASSUME UsageTypeOK, CopyInv, FreshInv, WriterInv, UsageNext, ~overlapped'
    PROVE  WriterInv'
<1>1. ASSUME NEW a \in Recorders, Elsewhere(a) PROVE WriterInv'
  BY <1>1, ElsewhereIs DEF WriterInv
<1>2. ASSUME NEW a \in Recorders, UsageEmpties(a) PROVE WriterInv'
  <2>1. usageFile # Torn
    BY <1>2, EmptiesFresh DEF FreshInv
  <2>2. \A b \in Recorders : usageStep[b] # "writing"
    BY <2>1 DEF WriterInv
  <2> QED BY <1>2, <2>2 DEF UsageEmpties, UsageMoves, UsageTypeOK, WriterInv
<1>3. ASSUME NEW a \in Recorders, UsageWrites(a) PROVE WriterInv'
  <2>1. \A b \in Recorders \ {a} : usageStep[b] # "writing"
    BY <1>3 DEF UsageWrites, WriterInv
  <2> QED BY <1>3, <2>1 DEF UsageWrites, UsageMoves, UsageTypeOK, WriterInv
<1>4. CASE MonthEnds
  BY <1>4 DEF MonthEnds, WriterInv
<1> QED BY <1>1, <1>2, <1>3, <1>4, StepIs

\* A step elsewhere keeps the accounts.
LEMMA AccountsKept ==
    ASSUME UsageTypeOK, Numbers, CopyInv, NEW a \in Recorders, Elsewhere(a), NEW x \in Nat,
           Accounted(x)
    PROVE  Accounted(x)'
<1>1. /\ Recorders \in SUBSET Recorders /\ Publishers \in SUBSET Recorders
      /\ published \in Nat /\ received \in Nat /\ missed \in Nat
  BY DEF Recorders, Numbers
<1> DEFINE all == Cardinality(Counting(Recorders))
<1> DEFINE some == Cardinality(Counting(Publishers))
<1>2. all \in Nat /\ some \in Nat
  BY Sets
<1>3. PICK p, q, m, na, ns : /\ p = published' /\ q = received' /\ m = missed'
                             /\ na = Cardinality(Counting(Recorders)')
                             /\ ns = Cardinality(Counting(Publishers)')
  OBVIOUS
<1>4. \/ na = all /\ p = published /\ q = received /\ m = missed
      \/ na \in {all - 1, all} /\ p = published /\ q = received /\ m = missed + 1
      \/ na = all /\ p = published + 1 /\ q = received /\ m = missed + 1
      \/ na = all + 1 /\ p = published + 1 /\ q = received /\ m = missed
      \/ na = all + 1 /\ p = published /\ q = received + 1 /\ m = missed
  BY <1>1, <1>2, <1>3, ElsewhereCounts DEF messages
<1>5. \/ ns = some /\ p = published /\ m = missed
      \/ ns \in {some - 1, some} /\ p = published /\ m = missed + 1
      \/ ns = some /\ p = published + 1 /\ m = missed + 1
      \/ ns = some + 1 /\ p = published + 1 /\ m = missed
      \/ ns \in {some, some + 1} /\ p = published /\ m = missed
  BY <1>1, <1>2, <1>3, ElsewhereCounts DEF messages
<1>6. p + q <= x + m + na
  <2>1. published + received <= x + missed + all
    BY DEF Accounted
  <2> QED BY <1>1, <1>2, <1>4, <2>1
<1>7. p <= x + m + ns
  <2>1. published <= x + missed + some
    BY DEF Accounted
  <2> QED BY <1>1, <1>2, <1>5, <2>1
<1> QED BY <1>3, <1>6, <1>7 DEF Accounted

LEMMA UsageCountKept ==
    ASSUME UsageTypeOK, Numbers, UsageFileInv, CopyInv, FreshInv, WriterInv, UsageCountInv, UsageNext,
           ~overlapped'
    PROVE  UsageCountInv'
<1>0. /\ Loaded.bytes \in Nat /\ month \in Nat
      /\ \A w \in Recorders : usageStep[w] = "writing" => Writing(w) \in Nat
      /\ Recorders \in SUBSET Recorders /\ Publishers \in SUBSET Recorders
  BY UsageBounds DEF Loaded, UsageFileInv, CopyInv, Dated, Numbers, Writing, Recorders
<1>1. ASSUME NEW a \in Recorders, Elsewhere(a) PROVE UsageCountInv'
  <2>1. \A x \in Nat : Accounted(x) => Accounted(x)'
    BY <1>1, AccountsKept
  <2>2. usageFile' = usageFile /\ Loaded' = Loaded
    BY <1>1, ElsewhereIs
  <2>3. usageFile' # Torn => Accounted(Loaded.bytes)'
    BY <1>0, <2>1, <2>2 DEF UsageCountInv, Accounted
  <2>4. ASSUME NEW w \in Recorders, usageStep'[w] = "writing" PROVE Accounted(Writing(w))'
    <3>1. usageStep[w] = "writing" /\ Writing(w)' = Writing(w)
      BY <1>1, <2>4, ElsewhereIs DEF Writing
    <3>2. Accounted(Writing(w)) /\ Writing(w) \in Nat
      BY <1>0, <3>1 DEF UsageCountInv
    <3> QED BY <2>1, <3>1, <3>2 DEF Accounted
  <2> QED BY <2>3, <2>4 DEF UsageCountInv
<1>2. ASSUME NEW a \in Recorders, UsageEmpties(a) PROVE UsageCountInv'
  <2>1. /\ usageFile # Torn /\ usageFile \in Dated /\ usageCopy[a] \in Dated
        /\ usageFile = usageCopy[a]
             \/ (usageFile.month < usageCopy[a].month /\ usageCopy[a].bytes = 0)
    BY <1>2, EmptiesFresh DEF FreshInv, UsageFileInv, CopyInv, UsageEmpties
  <2>2. /\ UsageMoves(a, "writing") /\ usageStep[a] = "loaded" /\ usageCopy' = usageCopy
        /\ month' = month /\ UNCHANGED messages /\ usageFile' = Torn
    BY <1>2 DEF UsageEmpties
  <2>3. Accounted(Loaded.bytes)
    BY <2>1 DEF UsageCountInv
  <2>4. ~WillAdd(a)' /\ (WillAdd(a) <=> usageCopy[a].month = month)
    BY <2>2 DEF UsageMoves, UsageTypeOK, WillAdd
  <2>5. ASSUME NEW S \in SUBSET Recorders
        PROVE  /\ a \in S /\ WillAdd(a)
                    => Cardinality(Counting(S)') = Cardinality(Counting(S)) - 1
               /\ ~(a \in S /\ WillAdd(a))
                    => Cardinality(Counting(S)') = Cardinality(Counting(S))
    BY <2>2, <2>4, CountingSize
  <2>6. /\ usageCopy[a].month = month => Writing(a) = Loaded.bytes + 1
        /\ usageCopy[a].month # month => Writing(a) = 0 /\ Loaded.bytes = 0
    BY <1>0, <2>1 DEF Writing, Loaded, Dated
  <2>7. Writing(a)' = Writing(a)
    BY <2>2 DEF Writing
  <2> DEFINE all == Cardinality(Counting(Recorders))
  <2> DEFINE some == Cardinality(Counting(Publishers))
  <2>8. /\ all \in Nat /\ some \in Nat
        /\ published \in Nat /\ received \in Nat /\ missed \in Nat
    BY Sets DEF Numbers
  <2>9. /\ published + received <= Loaded.bytes + missed + all
        /\ published <= Loaded.bytes + missed + some
    BY <2>3 DEF Accounted
  <2>10. PICK na, ns : na = Cardinality(Counting(Recorders)') /\ ns = Cardinality(Counting(Publishers)')
    OBVIOUS
  <2>11. published + received <= Writing(a) + missed + na
    BY <1>0, <2>4, <2>5, <2>6, <2>8, <2>9, <2>10
  <2>12. published <= Writing(a) + missed + ns
    BY <1>0, <2>4, <2>5, <2>6, <2>8, <2>9, <2>10
  <2>13. Accounted(Writing(a))'
    BY <2>2, <2>7, <2>10, <2>11, <2>12 DEF Accounted, messages
  <2>14. \A w \in Recorders : usageStep'[w] = "writing" => w = a
    BY <2>1, <2>2 DEF WriterInv, UsageMoves, UsageTypeOK
  <2> QED BY <2>2, <2>13, <2>14 DEF UsageCountInv
<1>3. ASSUME NEW a \in Recorders, UsageWrites(a) PROVE UsageCountInv'
  <2>1. /\ usageFile = Torn /\ Accounted(Writing(a)) /\ usageCopy[a] \in Dated
        /\ \A w \in Recorders \ {a} : usageStep[w] # "writing"
    BY <1>3 DEF UsageWrites, WriterInv, UsageCountInv, CopyInv
  <2>2. /\ UsageMoves(a, "idle") /\ usageStep[a] = "writing"
        /\ month' = month /\ UNCHANGED messages
        /\ \A b \in Recorders \ {a} : usageCopy'[b] = usageCopy[b]
        /\ usageFile' = [usageCopy[a] EXCEPT !.bytes = @ + 1]
    BY <1>3, <2>1 DEF UsageWrites, usageHistory, messages, UsageTypeOK
  <2>3. ~WillAdd(a)' /\ ~WillAdd(a)
    BY <2>2 DEF UsageMoves, UsageTypeOK, WillAdd
  <2>4. /\ Cardinality(Counting(Recorders)') = Cardinality(Counting(Recorders))
        /\ Cardinality(Counting(Publishers)') = Cardinality(Counting(Publishers))
    BY <1>0, <2>2, <2>3, CountingSize
  <2>5. usageFile' # Torn => Loaded'.bytes = Writing(a)
    BY <2>1, <2>2 DEF Loaded, Writing, Dated
  <2>6. usageFile' # Torn => Accounted(Loaded.bytes)'
    BY <2>1, <2>2, <2>4, <2>5 DEF Accounted, messages
  <2>7. \A w \in Recorders : usageStep'[w] # "writing"
    BY <2>1, <2>2 DEF UsageMoves, UsageTypeOK
  <2> QED BY <2>6, <2>7 DEF UsageCountInv
<1>4. CASE MonthEnds
  <2>1. published' = 0 /\ received' = 0 /\ missed' = 0 /\ usageFile' = usageFile
        /\ usageCopy' = usageCopy /\ usageStep' = usageStep /\ month' = month + 1
    BY <1>4 DEF MonthEnds
  <2>2. ASSUME NEW x \in Nat PROVE 0 <= x + 0 + Cardinality(Counting(Recorders)')
                                   /\ 0 <= x + 0 + Cardinality(Counting(Publishers)')
    BY SetsNext
  <2>3. Loaded'.bytes \in Nat
    BY <1>0, <2>1 DEF Loaded, UsageFileInv, Dated
  <2>4. \A w \in Recorders : usageStep'[w] = "writing" => Writing(w)' \in Nat
    BY <1>0, <2>1 DEF Writing, CopyInv, Dated
  <2> QED BY <2>1, <2>2, <2>3, <2>4 DEF UsageCountInv, Accounted
<1> QED BY <1>1, <1>2, <1>3, <1>4, StepIs

LEMMA DisjointNext ==
    (Cardinality(Counting(Publishers)) + Cardinality(Publishing) <= Cardinality(Publishers))'
  BY Disjoint, PTL

\* Who passes the check finds less in the file than the block allows, and of
\* what is not in the file yet every publisher holds at most one message.
LEMMA BlockKept ==
    ASSUME UsageTypeOK, Numbers, UsageFileInv, CopyInv, UsageCountInv, BlockInv, UsageNext, ~overlapped'
    PROVE  BlockInv'
<1> DEFINE many == Cardinality(Publishers)
<1>0. /\ published \in Nat /\ missed \in Nat /\ BlockAt \in Nat /\ BlockAt >= 1
      /\ many \in Nat \ {0} /\ Cardinality(Publishing) \in Nat /\ Cardinality(Publishing') \in Nat
      /\ published + Cardinality(Publishing) <= BlockAt - 1 + many - 1 + missed
  BY Sets, SetsNext, UsageBounds DEF Numbers, BlockInv
<1>1. PICK p, m, nb : p = published' /\ m = missed' /\ nb = Cardinality(Publishing')
  OBVIOUS
<1>2. SUFFICES (p + nb <= BlockAt - 1 + many - 1 + m) /\ (Publishing' # {} => BlockAt >= 2)
  BY <1>1 DEF BlockInv
<1>3. ASSUME NEW a \in Publishers, CheckBeforePublish(a)
      PROVE  (p + nb <= BlockAt - 1 + many - 1 + m) /\ BlockAt >= 2
  <2>1. /\ a \in Recorders /\ usageFile # Torn /\ Loaded.bytes + 1 < BlockAt
        /\ UsageMoves(a, "publish") /\ usageStep[a] = "idle"
        /\ usageCopy' = usageCopy /\ month' = month /\ p = published /\ m = missed
    BY <1>1, <1>3 DEF CheckBeforePublish, messages, UsageTypeOK, Recorders
  <2>2. Loaded.bytes \in Nat /\ published <= Loaded.bytes + missed + Cardinality(Counting(Publishers))
    BY <2>1, UsageBounds DEF UsageCountInv, Accounted, Loaded, UsageFileInv, Dated, Numbers
  <2>3. Cardinality(Counting(Publishers)') = Cardinality(Counting(Publishers))
    <3>1. ~WillAdd(a) /\ ~WillAdd(a)' /\ Publishers \in SUBSET Recorders
      BY <2>1 DEF UsageMoves, UsageTypeOK, WillAdd, Recorders
    <3> QED BY <2>1, <3>1, CountingSize
  <2>4. Cardinality(Counting(Publishers)) \in Nat
        /\ Cardinality(Counting(Publishers)) + nb <= many
    BY <1>1, <2>3, DisjointNext, Sets
  <2> QED BY <1>0, <1>1, <2>1, <2>2, <2>4
<1>4. ASSUME NEW a \in Publishers, PublishGoesOut(a) \/ PublishRaises(a)
      PROVE  (p + nb <= BlockAt - 1 + many - 1 + m) /\ BlockAt >= 2
  <2>1. a \in Recorders /\ usageStep[a] = "publish" /\ a \in Publishing
    BY <1>4 DEF PublishGoesOut, PublishRaises, Recorders, Publishing
  <2>2. nb = Cardinality(Publishing) - 1
    <3>1. UsageMoves(a, "record") \/ UsageMoves(a, "idle")
      BY <1>4 DEF PublishGoesOut, PublishRaises
    <3> QED BY <1>1, <1>4, <2>1, <3>1, PublishingSize
  <2>3. \/ p = published + 1 /\ m = missed
        \/ p = published + 1 /\ m = missed + 1
        \/ p = published /\ m = missed
    BY <1>1, <1>4 DEF PublishGoesOut, PublishRaises
  <2>4. BlockAt >= 2
    BY <2>1 DEF BlockInv
  <2> QED BY <1>0, <2>2, <2>3, <2>4
<1>5. ASSUME NEW a \in Recorders,
             Receives(a) \/ UsageLoads(a) \/ UsageEmpties(a) \/ UsageWrites(a) \/ RecorderDies(a)
      PROVE  (p + nb <= BlockAt - 1 + many - 1 + m) /\ (Publishing' # {} => BlockAt >= 2)
  <2>1. Publishing' \subseteq Publishing
    <3>1. PICK s \in {"record", "loaded", "writing", "idle"} : UsageMoves(a, s)
      BY <1>5 DEF Receives, UsageLoads, UsageEmpties, UsageWrites, RecorderDies
    <3>2. Publishing' = Publishing \ {a}
      BY <3>1, PublishingMoves
    <3> QED BY <3>2
  <2>2. nb <= Cardinality(Publishing)
    BY <1>1, <2>1, Sets, Subsets
  <2>3. p = published /\ (m = missed \/ m = missed + 1)
    BY <1>1, <1>5
    DEF Receives, UsageLoads, UsageEmpties, UsageWrites, RecorderDies, messages, usageHistory
  <2>4. Publishing' # {} => BlockAt >= 2
    BY <2>1 DEF BlockInv
  <2>5. nb \in Nat
    BY <1>0, <1>1
  <2> QED BY <1>0, <2>2, <2>3, <2>4, <2>5
<1>6. CASE MonthEnds
  <2>1. p = 0 /\ m = 0 /\ Publishing' = Publishing
    BY <1>1, <1>6 DEF MonthEnds, Publishing
  <2>2. Publishing' # {} => BlockAt >= 2
    BY <2>1 DEF BlockInv
  <2>3. nb <= many /\ (Publishing' = {} => nb = 0) /\ nb \in Nat
    <3>1. Publishers \in SUBSET Recorders /\ Publishing' \in SUBSET Publishers
      BY <2>1, Sets DEF Recorders
    <3>2. nb <= many
      BY <1>1, <3>1, Subsets
    <3> QED BY <1>0, <1>1, <3>2, FS_EmptySet
  <2>4. CASE Publishing' = {}
    BY <1>0, <2>1, <2>3, <2>4
  <2>5. CASE Publishing' # {}
    BY <1>0, <2>1, <2>2, <2>3, <2>5
  <2> QED BY <2>4, <2>5
<1> QED BY <1>3, <1>4, <1>5, <1>6 DEF UsageNext

(* -------------------------------- theorems ------------------------------- *)

LEMMA UsageInitInv ==
    ASSUME UsageInit PROVE UsageInv
<1>0. /\ Pending = {} /\ Publishing = {} /\ Counting(Recorders) = {} /\ Counting(Publishers) = {}
      /\ Cardinality({}) = 0
  BY FS_EmptySet DEF UsageInit, Pending, Busy, Publishing, Counting, WillAdd, Recorders
<1>1. Numbers
  <2>1. usageStep \in [Recorders -> {"idle", "publish", "record", "loaded", "writing"}]
    BY DEF UsageInit
  <2>2. month \in 0..MaxMonths /\ usageTroubles \in 0..MaxUsageTroubles
    BY UsageBounds DEF UsageInit
  <2>3. fresh \subseteq Recorders /\ overlapped \in BOOLEAN
    BY DEF UsageInit
  <2>4. /\ published \in Nat /\ received \in Nat /\ missed \in Nat
        /\ published + received <= MaxTraffic /\ missed <= usageTroubles
    BY UsageBounds DEF UsageInit
  <2> QED BY <2>1, <2>2, <2>3, <2>4 DEF Numbers
<1>2. UsageRoom = 0
  BY <1>0, UsageBounds DEF UsageInit, UsageRoom, Total
<1>3. usageFile \in Dated /\ Torn \notin Dated
  BY UsageAssumption, UsageBounds DEF UsageInit, Dated
<1>4. UsageFileInv
  BY <1>1, <1>2, <1>3, UsageBounds DEF UsageInit, UsageFileInv
<1>5. CopyInv
  BY DEF UsageInit, CopyInv
<1>6. FreshInv /\ WriterInv
  BY DEF UsageInit, FreshInv, WriterInv
<1>7. UsageCountInv
  BY <1>0 DEF UsageInit, UsageCountInv, Accounted, Loaded
<1>8. BlockInv
  <2>1. Cardinality(Publishing) = 0 /\ published = 0 /\ missed = 0
    BY <1>0 DEF UsageInit
  <2>2. BlockAt \in Nat /\ BlockAt >= 1 /\ Cardinality(Publishers) \in Nat \ {0}
    BY UsageBounds, Sets
  <2> QED BY <1>0, <2>1, <2>2 DEF BlockInv
<1> QED BY <1>1, <1>4, <1>5, <1>6, <1>7, <1>8 DEF UsageInv, Apart

LEMMA UsageStepInv ==
    ASSUME UsageInv, [UsageNext]_usageVars PROVE UsageInv'
<1>0. UsageTypeOK /\ Numbers /\ UsageFileInv /\ CopyInv
  BY BytesBounded DEF UsageInv
<1>1. CASE UsageNext
  <2>1. Numbers' /\ UsageFileInv' /\ CopyInv'
    BY <1>0, <1>1, NumbersKept, UsageFilesKept
  <2>2. ASSUME ~overlapped' PROVE Apart'
    <3>1. ~overlapped
      BY <1>0, <1>1, <2>2, OverlapStays
    <3>2. FreshInv /\ WriterInv /\ UsageCountInv /\ BlockInv
      BY <3>1 DEF UsageInv, Apart
    <3> QED BY <1>0, <1>1, <2>2, <3>2, FreshKept, WriterKept, UsageCountKept, BlockKept DEF Apart
  <2> QED BY <2>1, <2>2 DEF UsageInv
<1>2. CASE UNCHANGED usageVars
  <2>1. /\ Pending' = Pending /\ Publishing' = Publishing /\ Loaded' = Loaded
        /\ Counting(Recorders)' = Counting(Recorders)
        /\ Counting(Publishers)' = Counting(Publishers) /\ Dated' = Dated
        /\ \A w \in Recorders : Writing(w)' = Writing(w)
    BY <1>2 DEF usageVars, usageHistory, Pending, Publishing, Counting, WillAdd, Loaded, Dated, Writing
  <2>2. UsageRoom' = UsageRoom
    BY <1>2, <2>1 DEF usageVars, usageHistory, UsageRoom, Total
  <2>3. Numbers' /\ UsageFileInv' /\ CopyInv'
    BY <1>0, <1>2, <2>1, <2>2 DEF usageVars, usageHistory, Numbers, UsageFileInv, CopyInv
  <2>4. (overlapped \/ Apart)'
    BY <1>2, <2>1
    DEF UsageInv, usageVars, usageHistory, Apart, FreshInv, WriterInv, UsageCountInv, Accounted, BlockInv
  <2> QED BY <2>3, <2>4 DEF UsageInv
<1> QED BY <1>1, <1>2

LEMMA UsageInvariance == UsageSpec => []UsageInv
  BY UsageInitInv, UsageStepInv, PTL DEF UsageSpec

\* The file and the copies hold no more than the messages of all months, the
\* counters and the steps keep their types.
THEOREM UsageTypeCorrect == UsageSpec => []UsageTypeOK
<1>1. UsageInv => UsageTypeOK
  BY BytesBounded DEF UsageInv
<1> QED BY <1>1, UsageInvariance, PTL

\* As long as no two threads overlapped, the file and the threads that still
\* record account for every message of the month, and the commands that go out
\* exceed the block by at most one for each other publisher.
THEOREM BlockIsHard == UsageSpec => []BlockHolds
<1>1. ASSUME UsageInv PROVE BlockHolds
  <2>0. UsageTypeOK /\ Numbers /\ UsageFileInv /\ CopyInv
    BY <1>1, BytesBounded DEF UsageInv
  <2>1. CASE overlapped
    BY <2>1 DEF BlockHolds
  <2>2. CASE ~overlapped
    <3> DEFINE recording == {a \in Recorders : usageStep[a] \in {"record", "loaded"}}
    <3>1. UsageCountInv /\ BlockInv
      BY <1>1, <2>2 DEF UsageInv, Apart
    <3>2. Cardinality(Counting(Recorders)) <= Cardinality(recording)
          /\ Cardinality(recording) \in Nat
      <4>1. recording \in SUBSET Recorders /\ Counting(Recorders) \in SUBSET recording
        BY DEF Counting, WillAdd
      <4> QED BY <4>1, Subsets, FiniteThreads
    <3>3. ASSUME usageFile # Torn
          PROVE  published + received <= Loaded.bytes + missed + Cardinality(recording)
      <4>1. /\ published + received <= Loaded.bytes + missed + Cardinality(Counting(Recorders))
            /\ Loaded.bytes \in Nat /\ Cardinality(Counting(Recorders)) \in Nat
        BY <2>0, <3>1, <3>3, UsageBounds, Sets
        DEF UsageCountInv, Accounted, Loaded, UsageFileInv, Dated, Numbers
      <4> QED BY <2>0, <3>2, <4>1 DEF Numbers
    <3>4. published <= BlockAt - 1 + Cardinality(Publishers) - 1 + missed
      BY <2>0, <3>1, Sets, UsageBounds DEF BlockInv, Numbers
    <3> QED BY <3>3, <3>4 DEF BlockHolds
  <2> QED BY <2>1, <2>2
<1> QED BY <1>1, UsageInvariance, PTL
===============================================================================
