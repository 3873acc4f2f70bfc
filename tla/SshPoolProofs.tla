--------------------------- MODULE SshPoolProofs ---------------------------
(***************************************************************************)
(* Proofs about SshPool for any callers, operations and bounds: its types, *)
(* that a lock is held exactly in the sections it guards, and that a       *)
(* caller is only ever handed a client that was just tested or just        *)
(* connected, and the one it asked for.                                    *)
(***************************************************************************)
EXTENDS SshPool, TLAPS

\* Not closed, as far as the relay knows.
InUse == {x \in Clients : state[x] \in {"open", "dead"}}

\* Each lock is held by the thread that is in the section it guards, and by
\* nobody else: every way out of the section has released it.
LockInv ==
    \A t \in Threads :
        /\ pc[t] \in {"test", "tested", "connect"} <=> controlLock = t
        /\ pc[t] = "ttest" <=> targetsLock = t

\* A thread knows which operation it is in.
OpInv ==
    \A c \in Callers :
        /\ pc[c] # "idle" => op[c] # "none"
        /\ pc[c] \in {"tlock", "ttest", "tunnel", "tstore", "repop", "pop"} => op[c] = "target"

\* What somebody refers to was opened.
UsedInv ==
    \A x \in {control, target} \cup {held[t] : t \in Threads} :
        x # None => state[x] # "unused"

\* The clients in the two attributes and those about to be stored are
\* different ones, so that closing one does not close another.
ApartInv ==
    /\ control # None => control # target
    /\ \A c \in Callers :
          /\ pc[c] = "tested" => control \in InUse
          /\ pc[c] = "ttest" => held[c] = target /\ target # None
          /\ pc[c] = "tstore" =>
                /\ held[c] \in InUse
                /\ held[c] \notin {control, target}
                /\ \A d \in Callers : d # c /\ pc[d] = "tstore" => held[d] # held[c]

SshInv == SshTypeOK /\ LockInv /\ OpInv /\ UsedInv /\ ApartInv

-----------------------------------------------------------------------------
(* Types and operations.                                                   *)

CallTypeOK ==
    /\ pc \in [Threads -> CallerSteps \cup OtherSteps]
    /\ op \in [Callers -> Ops \cup {"none"}]
    /\ held \in [Threads -> Clients \cup {None}]
    /\ fallbacks \in [Callers -> 0..Primary]
    /\ endless \subseteq Callers

\* A thread takes a step, and keeps its client, lets go of it or takes one that
\* is in an attribute.
Turn(t, step) ==
    /\ pc' = [pc EXCEPT ![t] = step]
    /\ \A u \in Threads : u # t => held'[u] = held[u]
    /\ held'[t] \in {None, held[t], control, target}

\* The call is over.
LEMMA ReturnsTurn ==
    ASSUME CallTypeOK, OpInv, NEW c \in Callers, Returns(c)
    PROVE  CallTypeOK' /\ OpInv' /\ Turn(c, "idle")
<1> USE DEF Returns, Goes, Holds, Threads, CallTypeOK
<1>1. CallTypeOK'
  BY BoundsAssumption DEF Primary, CallerSteps
<1>2. OpInv'
  BY DEF OpInv
<1> QED BY <1>1, <1>2 DEF Turn

\* An exception ends an operation or leads to its except clause.
LEMMA ErrsTurn ==
    ASSUME CallTypeOK, OpInv, NEW c \in Callers, pc[c] # "idle", Errs(c)
    PROVE  CallTypeOK' /\ OpInv' /\ \E step \in {"idle", "drop", "repop", "pop"} : Turn(c, step)
<1>1. CASE op[c] = "sftp"
  BY <1>1, ReturnsTurn DEF Errs
<1>2. CASE op[c] # "sftp"
  <2>1. AfterError(c) \in {"drop", "repop", "pop"} /\ (AfterError(c) # "drop" => op[c] = "target")
    BY <1>2 DEF AfterError, CallTypeOK, OpInv, Ops
  <2>2. pc' = [pc EXCEPT ![c] = AfterError(c)] /\ UNCHANGED <<op, fallbacks, endless, held>>
    BY <1>2 DEF Errs, Goes, call
  <2>3. CallTypeOK'
    BY <2>1, <2>2 DEF CallTypeOK, CallerSteps
  <2>4. OpInv'
    BY <2>1, <2>2 DEF OpInv, CallTypeOK, Threads
  <2>5. Turn(c, AfterError(c))
    BY <2>2 DEF Turn
  <2> QED BY <2>1, <2>3, <2>4, <2>5
<1> QED BY <1>1, <1>2

\* A refused password leads to the fallbacks.
LEMMA FallbacksTurn ==
    ASSUME CallTypeOK, OpInv, NEW c \in Callers, StartsFallbacks(c)
    PROVE  CallTypeOK' /\ OpInv' /\ Turn(c, "repop")
<1> USE DEF StartsFallbacks, Goes, Holds, Threads, CallTypeOK
<1>1. CallTypeOK'
  BY BoundsAssumption DEF Primary, CallerSteps
<1>2. OpInv'
  BY DEF OpInv
<1> QED BY <1>1, <1>2 DEF Turn
\* Steps after which nothing is claimed of a thread's client, as long as it
\* sets out on none of those it is claimed for.
Plain == (CallerSteps \cup OtherSteps) \ {"tested", "ttest", "tstore"}

\* The steps that leave attributes and clients alone.
SshQuiet(t) ==
    /\ \/ \E step \in Plain : Turn(t, step)
       \/ Turn(t, "tested") /\ Works(control)
       \/ Turn(t, "ttest") /\ held'[t] = target /\ target # None
    /\ UNCHANGED <<pool, net>>

\* A simple move of one thread.
LEMMA MoveTurn ==
    ASSUME CallTypeOK, OpInv, NEW t \in Threads, NEW step \in CallerSteps \cup OtherSteps,
           Goes(t, step), UNCHANGED <<call, held>>,
           t \in Callers /\ step # "idle" => op[t] # "none",
           t \in Callers /\ step \in {"tlock", "ttest", "tunnel", "tstore", "repop", "pop"}
              => op[t] = "target"
    PROVE  CallTypeOK' /\ OpInv' /\ Turn(t, step)
<1>1. CallTypeOK'
  BY DEF CallTypeOK, Goes, call
<1>2. OpInv'
  <2>1. UNCHANGED op /\ \A c \in Callers : pc'[c] = IF c = t THEN step ELSE pc[c]
    BY DEF CallTypeOK, Goes, call, Threads
  <2>2. ASSUME NEW c \in Callers
        PROVE  /\ pc'[c] # "idle" => op[c] # "none"
               /\ pc'[c] \in {"tlock", "ttest", "tunnel", "tstore", "repop", "pop"}
                     => op[c] = "target"
    <3>1. CASE c = t
      BY <2>1, <3>1
    <3>2. CASE c # t
      BY <2>1, <3>2 DEF OpInv
    <3> QED BY <3>1, <3>2
  <2> QED BY <2>1, <2>2 DEF OpInv
<1>3. Turn(t, step)
  BY DEF Turn, Goes
<1> QED BY <1>1, <1>2, <1>3

\* The control connection is tested or refused, or found locked.
LEMMA ControlQuiet ==
    ASSUME SshInv, NEW t \in Callers \cup {Keepalive},
           LockControl(t) \/ ControlTestPasses(t) \/ ConnectControlFails(t)
    PROVE  CallTypeOK' /\ OpInv' /\ SshQuiet(t)
<1>0. CallTypeOK /\ OpInv /\ t \in Threads
  BY DEF SshInv, SshTypeOK, CallTypeOK, Threads
<1>1. CASE LockControl(t)
  <2>1. PICK step \in {"sleep", "connect", "test"} :
           Goes(t, step) /\ (step = "sleep" => t = Keepalive)
    BY <1>1 DEF LockControl
  <2>2. t \in Callers => op[t] # "none" /\ t # Keepalive
    BY <1>1, ThreadsAssumption DEF LockControl, SshInv, OpInv
  <2>3. CallTypeOK' /\ OpInv' /\ Turn(t, step)
    BY <1>0, <1>1, <2>1, <2>2, MoveTurn DEF LockControl, CallerSteps, OtherSteps, ConnectSteps
  <2> QED BY <1>1, <2>3 DEF SshQuiet, LockControl, Plain, CallerSteps, OtherSteps, ConnectSteps
<1>2. CASE ControlTestPasses(t)
  <2>1. PICK step \in {"sleep", "tested"} :
           Goes(t, step) /\ (step = "sleep" => t = Keepalive)
    BY <1>2 DEF ControlTestPasses
  <2>2. t \in Callers => op[t] # "none" /\ t # Keepalive
    BY <1>2, ThreadsAssumption DEF ControlTestPasses, SshInv, OpInv
  <2>3. CallTypeOK' /\ OpInv' /\ Turn(t, step)
    BY <1>0, <1>2, <2>1, <2>2, MoveTurn
       DEF ControlTestPasses, CallerSteps, OtherSteps, ConnectSteps
  <2> QED BY <1>2, <2>3 DEF SshQuiet, ControlTestPasses, Plain, CallerSteps, OtherSteps, ConnectSteps
<1>3. CASE ConnectControlFails(t)
  <2>1. CASE t = Keepalive
    <3>1. Goes(t, "sleep") /\ UNCHANGED <<call, held>> /\ t \notin Callers
      BY <1>3, <2>1, ThreadsAssumption DEF ConnectControlFails
    <3>2. CallTypeOK' /\ OpInv' /\ Turn(t, "sleep")
      BY <1>0, <3>1, MoveTurn DEF OtherSteps
    <3> QED BY <1>3, <3>2 DEF SshQuiet, ConnectControlFails, Plain, CallerSteps, OtherSteps
  <2>2. CASE t # Keepalive
    <3>1. t \in Callers /\ pc[t] = "connect" /\ (Errs(t) \/ StartsFallbacks(t))
      BY <1>3, <2>2 DEF ConnectControlFails
    <3>2. /\ CallTypeOK' /\ OpInv'
          /\ \E step \in {"idle", "drop", "repop", "pop"} : Turn(t, step)
      BY <1>0, <3>1, ErrsTurn, FallbacksTurn
    <3> QED BY <1>3, <3>2 DEF SshQuiet, ConnectControlFails, Plain, CallerSteps
  <2> QED BY <2>1, <2>2
<1> QED BY <1>1, <1>2, <1>3

\* The control connection is handed over, the target's looked up.
LEMMA HandsQuiet ==
    ASSUME SshInv, NEW c \in Callers, HandOverControl(c) \/ LockTargets(c)
    PROVE  CallTypeOK' /\ OpInv' /\ SshQuiet(c)
<1>0. /\ CallTypeOK /\ OpInv /\ c \in Threads
      /\ {control, target} \subseteq Clients \cup {None}
  BY DEF SshInv, SshTypeOK, CallTypeOK, Threads
<1>1. PICK step \in {"tunnel", "run", "lock", "ttest"}, x \in {control, target} :
         /\ pc' = [pc EXCEPT ![c] = step] /\ held' = [held EXCEPT ![c] = x]
         /\ pc[c] \in {"tested", "tlock"} /\ UNCHANGED call
         /\ step = "ttest" => x = target /\ target # None /\ pc[c] = "tlock"
         /\ step = "tunnel" => op[c] = "target"
  BY DEF HandOverControl, LockTargets, Holds, Goes, AfterControl
<1>2. CallTypeOK'
  BY <1>0, <1>1 DEF CallTypeOK, call, CallerSteps, ConnectSteps
<1>3. OpInv'
  BY <1>0, <1>1 DEF OpInv, CallTypeOK, call, Threads
<1>4. Turn(c, step) /\ held'[c] = x
  BY <1>0, <1>1 DEF Turn, CallTypeOK
<1>5. UNCHANGED <<pool, net>>
  BY DEF HandOverControl, LockTargets
<1>6. step \in Plain \/ step = "ttest"
  BY DEF Plain, CallerSteps, ConnectSteps
<1> QED BY <1>1, <1>2, <1>3, <1>4, <1>5, <1>6 DEF SshQuiet

\* The steps of an operation.
LEMMA OperationQuiet ==
    ASSUME SshInv, NEW c \in Callers,
           \/ \E o \in Does[c] : Call(c, o)
           \/ TargetTestPasses(c) \/ ConnectTargetFails(c)
           \/ \E never \in BOOLEAN : CommandStarts(c, never)
           \/ CommandRaises(c) \/ CommandReturns(c)
    PROVE  CallTypeOK' /\ OpInv' /\ SshQuiet(c)
<1>0. CallTypeOK /\ OpInv /\ c \in Threads
  BY DEF SshInv, SshTypeOK, CallTypeOK, Threads
<1>1. ASSUME NEW o \in Does[c], Call(c, o) PROVE CallTypeOK' /\ OpInv' /\ SshQuiet(c)
  <2>1. PICK step \in {"tlock", "lock"} :
           /\ pc' = [pc EXCEPT ![c] = step] /\ op' = [op EXCEPT ![c] = o]
           /\ step = "tlock" => o = "target"
           /\ UNCHANGED <<fallbacks, endless, held, pool, net>>
    BY <1>1 DEF Call, Goes
  <2>2. o \in Ops /\ o # "none"
    BY DoesAssumption DEF Ops
  <2>3. CallTypeOK'
    BY <1>0, <2>1, <2>2 DEF CallTypeOK, CallerSteps, ConnectSteps
  <2>4. OpInv'
    BY <1>0, <2>1, <2>2 DEF OpInv, CallTypeOK, Threads
  <2>5. Turn(c, step)
    BY <2>1 DEF Turn
  <2>6. step \in Plain
    BY DEF Plain, CallerSteps, ConnectSteps
  <2> QED BY <2>1, <2>3, <2>4, <2>5, <2>6 DEF SshQuiet
<1>2. CASE TargetTestPasses(c)
  <2>1. Goes(c, "run") /\ UNCHANGED <<call, held, pool, net>> /\ op[c] # "none"
    BY <1>0, <1>2 DEF TargetTestPasses, OpInv
  <2>2. CallTypeOK' /\ OpInv' /\ Turn(c, "run")
    BY <1>0, <2>1, MoveTurn DEF CallerSteps
  <2> QED BY <2>1, <2>2 DEF SshQuiet, Plain, CallerSteps
<1>3. CASE ConnectTargetFails(c)
  <2>1. CASE StartsFallbacks(c)
    <3>1. CallTypeOK' /\ OpInv' /\ Turn(c, "repop")
      BY <1>0, <2>1, FallbacksTurn
    <3> QED BY <1>3, <3>1 DEF SshQuiet, ConnectTargetFails, Plain, CallerSteps
  <2>2. CASE Goes(c, AfterError(c)) /\ Holds(c, None) /\ UNCHANGED call
    <3>1. AfterError(c) \in {"repop", "pop"} /\ op[c] = "target"
      BY <1>0, <1>3 DEF ConnectTargetFails, AfterError, OpInv
    <3>2. CallTypeOK'
      BY <1>0, <2>2, <3>1 DEF CallTypeOK, Goes, Holds, call, CallerSteps
    <3>3. OpInv'
      BY <1>0, <2>2, <3>1 DEF OpInv, CallTypeOK, Goes, call, Threads
    <3>4. Turn(c, AfterError(c)) /\ AfterError(c) \in Plain
      BY <1>0, <2>2, <3>1 DEF Turn, Goes, Holds, CallTypeOK, Plain, CallerSteps
    <3> QED BY <1>3, <3>2, <3>3, <3>4 DEF SshQuiet, ConnectTargetFails
  <2> QED BY <1>3, <2>1, <2>2 DEF ConnectTargetFails
<1>4. ASSUME NEW never \in BOOLEAN, CommandStarts(c, never)
      PROVE  CallTypeOK' /\ OpInv' /\ SshQuiet(c)
  <2>1. /\ pc' = [pc EXCEPT ![c] = "wait"] /\ op[c] # "none"
        /\ endless' \subseteq endless \cup {c}
        /\ UNCHANGED <<op, fallbacks, held, pool, net>>
    BY <1>0, <1>4 DEF CommandStarts, Goes, OpInv
  <2>2. CallTypeOK'
    BY <1>0, <2>1 DEF CallTypeOK, CallerSteps
  <2>3. OpInv'
    BY <1>0, <2>1 DEF OpInv, CallTypeOK, Threads
  <2>4. Turn(c, "wait") /\ "wait" \in Plain
    BY <2>1 DEF Turn, Plain, CallerSteps
  <2> QED BY <2>1, <2>2, <2>3, <2>4 DEF SshQuiet
<1>5. CASE CommandRaises(c)
  <2>1. /\ CallTypeOK' /\ OpInv'
        /\ \E step \in {"idle", "drop", "repop", "pop"} : Turn(c, step)
    BY <1>0, <1>5, ErrsTurn DEF CommandRaises
  <2> QED BY <1>5, <2>1 DEF SshQuiet, CommandRaises, Plain, CallerSteps
<1>6. CASE CommandReturns(c)
  <2>1. CallTypeOK' /\ OpInv' /\ Turn(c, "idle")
    BY <1>0, <1>6, ReturnsTurn DEF CommandReturns
  <2> QED BY <1>6, <2>1 DEF SshQuiet, CommandReturns, Plain, CallerSteps
<1> QED BY <1>1, <1>2, <1>3, <1>4, <1>5, <1>6

\* The keepalive's round and the start of close().
LEMMA OthersQuiet ==
    ASSUME SshInv, KeepaliveRound \/ CloseBegins
    PROVE  CallTypeOK' /\ OpInv' /\ \E t \in Threads : SshQuiet(t)
<1>0. CallTypeOK /\ OpInv
  BY DEF SshInv, SshTypeOK, CallTypeOK
<1>1. PICK t \in {Keepalive, MainThread}, step \in {"lock", "stopped", "closeTargets"} :
         Goes(t, step) /\ UNCHANGED <<call, held, pool, net>>
  BY DEF KeepaliveRound, CloseBegins
<1>2. t \in Threads \ Callers
  BY ThreadsAssumption DEF Threads
<1>3. CallTypeOK' /\ OpInv' /\ Turn(t, step)
  BY <1>0, <1>1, <1>2, MoveTurn DEF OtherSteps, ConnectSteps
<1> QED BY <1>1, <1>2, <1>3 DEF SshQuiet, Plain, OtherSteps, ConnectSteps
-----------------------------------------------------------------------------
(* Clients stay apart.                                                     *)

PoolTypeOK ==
    /\ {control, target} \subseteq Clients \cup {None}
    /\ state \in [Clients -> {"unused", "open", "dead", "closed"}]
    /\ via \in [Clients -> Clients \cup {None}]

\* A quiet step keeps every claim about clients.
LEMMA QuietApart ==
    ASSUME SshInv, NEW t \in Threads, SshQuiet(t) PROVE UsedInv' /\ ApartInv'
<1> USE DEF pool, net
<1>1. PICK step \in CallerSteps \cup OtherSteps :
         /\ Turn(t, step) /\ step # "tstore"
         /\ step = "tested" => Works(control)
         /\ step = "ttest" => held'[t] = target /\ target # None
  BY DEF SshQuiet, Plain, CallerSteps, OtherSteps, ConnectSteps
<1>2. UNCHANGED <<control, target, state>> /\ InUse' = InUse
  BY DEF SshQuiet, InUse
<1>3. UsedInv'
  BY <1>1, <1>2 DEF SshInv, UsedInv, Turn
<1>4. Works(control) => control \in InUse
  BY DEF Works, InUse, SshInv, SshTypeOK
<1>5. \A u \in Threads : pc'[u] = IF u = t THEN step ELSE pc[u]
  BY <1>1 DEF Turn, SshInv, SshTypeOK
<1>6. ApartInv'
  <2>1. ASSUME NEW c \in Callers, c = t
        PROVE  /\ pc'[c] = "tested" => control \in InUse
               /\ pc'[c] = "ttest" => held'[c] = target /\ target # None
               /\ pc'[c] # "tstore"
    BY <1>1, <1>4, <1>5, <2>1
  <2>2. ASSUME NEW c \in Callers, c # t
        PROVE  pc'[c] = pc[c] /\ held'[c] = held[c]
    BY <1>1, <1>5, <2>2 DEF Turn, Threads
  <2> QED BY <1>2, <2>1, <2>2 DEF SshInv, ApartInv
<1> QED BY <1>3, <1>6

\* A client ends; those that lose their tunnel with it are as usable as before,
\* as far as the relay knows.
LEMMA EndsFacts ==
    ASSUME PoolTypeOK, NEW x \in Clients, NEW s \in {"dead", "closed", "unused"},
           state' = Ends(x, s)
    PROVE  /\ state' \in [Clients -> {"unused", "open", "dead", "closed"}]
           /\ state'[x] = s
           /\ \A y \in Clients \ {x} :
                 /\ y \in InUse => y \in InUse'
                 /\ state[y] # "unused" => state'[y] # "unused"
<1>1. \A y \in Clients : y # x => state'[y] = state[y] \/ (state[y] = "open" /\ state'[y] = "dead")
  <2> SUFFICES ASSUME NEW y \in Clients, y # x
               PROVE  state'[y] = state[y] \/ (state[y] = "open" /\ state'[y] = "dead")
    OBVIOUS
  <2>1. state'[y] = CASE y = x -> s
                      [] y # x /\ via[y] = x /\ state[y] = "open" -> "dead"
                      [] OTHER -> state[y]
    BY DEF Ends
  <2>2. CASE via[y] = x /\ state[y] = "open"
    BY <2>1, <2>2
  <2>3. CASE ~(via[y] = x /\ state[y] = "open")
    BY <2>1, <2>3
  <2> QED BY <2>2, <2>3
<1>2. state' \in [Clients -> {"unused", "open", "dead", "closed"}] /\ state'[x] = s
  BY DEF Ends, PoolTypeOK
<1> QED BY <1>1, <1>2 DEF InUse

\* Whoever claims something of its client goes on to claim it.
Steady ==
    /\ \A u \in Threads : held'[u] \in {None, held[u]}
    /\ \A c \in Callers : pc'[c] \in {"tested", "ttest", "tstore"} =>
          pc[c] = pc'[c] /\ held'[c] = held[c]

\* An attribute is cleared while nobody has tested what it refers to, and only
\* the client it referred to may have been closed.
LEMMA DropsApart ==
    ASSUME SshInv, Steady, control' \in {control, None}, target' \in {target, None},
           control' # control => \A c \in Callers : pc'[c] # "tested",
           target' # target => \A c \in Callers : pc'[c] # "ttest",
           \A y \in Clients :
              /\ y \in InUse /\ y \notin {control, target} \ {control', target'} => y \in InUse'
              /\ state[y] # "unused" => state'[y] # "unused"
    PROVE  UsedInv' /\ ApartInv'
<1>1. UsedInv'
  BY DEF SshInv, UsedInv, Steady, SshTypeOK
<1>2. control' # None => control' # target'
  BY DEF SshInv, ApartInv
<1>3. ASSUME NEW c \in Callers
      PROVE  /\ pc'[c] = "tested" => control' \in InUse'
             /\ pc'[c] = "ttest" => held'[c] = target' /\ target' # None
             /\ pc'[c] = "tstore" =>
                   /\ held'[c] \in InUse'
                   /\ held'[c] \notin {control', target'}
                   /\ \A d \in Callers : d # c /\ pc'[d] = "tstore" => held'[d] # held'[c]
  <2>1. CASE pc'[c] = "tested"
    <3>1. control' = control /\ control \in InUse
      BY <2>1 DEF SshInv, ApartInv, Steady
    <3> QED BY <2>1, <3>1 DEF InUse
  <2>2. CASE pc'[c] = "ttest"
    BY <2>2 DEF SshInv, ApartInv, Steady
  <2>3. CASE pc'[c] = "tstore"
    <3>1. /\ held'[c] = held[c] /\ held[c] \in InUse /\ held[c] \notin {control, target}
          /\ held[c] # None
      BY <2>3, NoneAssumption DEF SshInv, ApartInv, Steady, InUse
    <3>2. held'[c] \in InUse' /\ held'[c] \notin {control', target'}
      BY <3>1 DEF InUse
    <3>3. \A d \in Callers : d # c /\ pc'[d] = "tstore" => held'[d] # held'[c]
      BY <2>3, <3>1 DEF SshInv, ApartInv, Steady
    <3> QED BY <2>3, <3>2, <3>3
  <2> QED BY <2>1, <2>2, <2>3
<1> QED BY <1>1, <1>2, <1>3 DEF ApartInv

\* Clearing an attribute, with or without closing its client, takes the lock.
LEMMA DropsStep ==
    ASSUME SshInv,
           \/ \E t \in Callers \cup {Keepalive} : ControlTestFails(t)
           \/ \E c \in Callers : TargetTestFails(c) \/ ForgetControl(c) \/ ForgetTarget(c)
           \/ CloseTargets \/ CloseControl
    PROVE  PoolTypeOK' /\ CallTypeOK' /\ OpInv' /\ UsedInv' /\ ApartInv'
<1>0. PoolTypeOK /\ CallTypeOK /\ OpInv /\ LockInv
  BY DEF SshInv, SshTypeOK, PoolTypeOK, CallTypeOK
<1> USE DEF pool, net, call
<1>1. ASSUME NEW x \in {control, target}, state' = Closed(x),
             \/ x = control /\ control' = None /\ UNCHANGED target
             \/ x = target /\ target' = None /\ UNCHANGED control,
             UNCHANGED via
      PROVE  /\ PoolTypeOK'
             /\ \A y \in Clients :
                  /\ y \in InUse /\ y \notin {control, target} \ {control', target'} => y \in InUse'
                  /\ state[y] # "unused" => state'[y] # "unused"
  <2>1. CASE x = None
    <3>1. UNCHANGED <<state, via>>
      BY <1>1, <2>1 DEF Closed
    <3>2. UNCHANGED <<control, target>>
      BY <1>1, <2>1
    <3>3. PoolTypeOK' /\ InUse' = InUse
      BY <1>0, <3>1, <3>2 DEF PoolTypeOK, InUse
    <3>4. \A y \in Clients :
          /\ y \in InUse => y \in InUse'
          /\ state[y] # "unused" => state'[y] # "unused"
      BY <3>1, <3>3
    <3> QED BY <3>3, <3>4
  <2>2. CASE x # None
    <3>1. x \in Clients /\ state' = Ends(x, "closed")
      BY <1>0, <1>1, <2>2 DEF Closed, PoolTypeOK
    <3>2. /\ state' \in [Clients -> {"unused", "open", "dead", "closed"}]
          /\ state'[x] = "closed"
          /\ \A y \in Clients \ {x} :
                /\ y \in InUse => y \in InUse'
                /\ state[y] # "unused" => state'[y] # "unused"
      BY <1>0, <3>1, EndsFacts
    <3>3. x \in {control, target} \ {control', target'}
      BY <1>1, <2>2 DEF SshInv, ApartInv
    <3>4. PoolTypeOK'
      BY <1>0, <1>1, <3>2 DEF PoolTypeOK
    <3> QED BY <3>2, <3>3, <3>4
  <2> QED BY <2>1, <2>2
<1>2. ASSUME NEW t \in Callers \cup {Keepalive}, ControlTestFails(t)
      PROVE  PoolTypeOK' /\ CallTypeOK' /\ OpInv' /\ UsedInv' /\ ApartInv'
  <2>1. t \in Threads /\ Goes(t, "connect") /\ UNCHANGED <<call, held>>
    BY <1>2 DEF ControlTestFails, Threads
  <2>2. t \in Callers => op[t] # "none"
    BY <1>0, <1>2 DEF ControlTestFails, OpInv
  <2>3. CallTypeOK' /\ OpInv' /\ Turn(t, "connect")
    BY <1>0, <2>1, <2>2, MoveTurn DEF CallerSteps, ConnectSteps
  <2>4. Steady /\ \A c \in Callers : pc'[c] # "tested"
    BY <1>0, <1>2, <2>1 DEF Steady, Goes, LockInv, CallTypeOK, ControlTestFails, Threads
  <2>5. /\ PoolTypeOK'
        /\ \A y \in Clients :
             /\ y \in InUse /\ y \notin {control, target} \ {control', target'} => y \in InUse'
             /\ state[y] # "unused" => state'[y] # "unused"
    BY <1>1, <1>2 DEF ControlTestFails
  <2>6. UsedInv' /\ ApartInv'
    BY <1>2, <2>4, <2>5, DropsApart DEF ControlTestFails
  <2> QED BY <2>3, <2>5, <2>6
<1>3. ASSUME NEW c \in Callers, TargetTestFails(c)
      PROVE  PoolTypeOK' /\ CallTypeOK' /\ OpInv' /\ UsedInv' /\ ApartInv'
  <2>1. /\ pc' = [pc EXCEPT ![c] = "lock"] /\ held' = [held EXCEPT ![c] = None]
        /\ pc[c] = "ttest" /\ UNCHANGED call
    BY <1>3 DEF TargetTestFails, Goes, Holds
  <2>2. CallTypeOK' /\ OpInv'
    BY <1>0, <2>1 DEF CallTypeOK, OpInv, CallerSteps, ConnectSteps, Threads
  <2>3. Steady /\ \A d \in Callers : pc'[d] # "ttest"
    BY <1>0, <2>1 DEF Steady, LockInv, CallTypeOK, Threads
  <2>4. held[c] = target
    BY <2>1 DEF SshInv, ApartInv
  <2>5. /\ PoolTypeOK'
        /\ \A y \in Clients :
             /\ y \in InUse /\ y \notin {control, target} \ {control', target'} => y \in InUse'
             /\ state[y] # "unused" => state'[y] # "unused"
    BY <1>1, <1>3, <2>4 DEF TargetTestFails
  <2>6. UsedInv' /\ ApartInv'
    BY <1>3, <2>3, <2>5, DropsApart DEF TargetTestFails
  <2> QED BY <2>2, <2>5, <2>6
<1>4. ASSUME NEW c \in Callers, ForgetControl(c) \/ ForgetTarget(c)
      PROVE  PoolTypeOK' /\ CallTypeOK' /\ OpInv' /\ UsedInv' /\ ApartInv'
  <2>1. /\ UNCHANGED net
        /\ \/ controlLock = None /\ control' = None /\ UNCHANGED target
           \/ targetsLock = None /\ target' = None /\ UNCHANGED control
    BY <1>4 DEF ForgetControl, ForgetTarget
  <2>2. /\ CallTypeOK' /\ OpInv'
        /\ \E step \in {"idle", "tlock", "pop"} :
              pc' = [pc EXCEPT ![c] = step] /\ held' = [held EXCEPT ![c] = None]
    <3>1. CASE Returns(c)
      BY <1>0, <3>1, ReturnsTurn DEF Returns, Goes, Holds
    <3>2. CASE ForgetTarget(c) /\ ~Returns(c)
      <4>1. PICK step \in {"tlock", "pop"} :
               /\ pc' = [pc EXCEPT ![c] = step] /\ held' = [held EXCEPT ![c] = None]
               /\ fallbacks' \in {fallbacks, [fallbacks EXCEPT ![c] = @ - 1]}
               /\ fallbacks' = fallbacks \/ fallbacks[c] > 0
               /\ UNCHANGED <<op, endless>> /\ op[c] = "target"
        BY <1>0, <3>2 DEF ForgetTarget, Goes, Holds, OpInv
      <4>2. fallbacks' \in [Callers -> 0..Primary]
        BY <1>0, <4>1, BoundsAssumption DEF CallTypeOK, Primary
      <4>3. CallTypeOK'
        BY <1>0, <4>1, <4>2 DEF CallTypeOK, CallerSteps
      <4>4. OpInv'
        BY <1>0, <4>1 DEF CallTypeOK, OpInv, Threads
      <4> QED BY <4>1, <4>3, <4>4
    <3> QED BY <1>4, <3>1, <3>2 DEF ForgetControl
  <2>3. Steady
    BY <1>0, <2>2 DEF Steady, CallTypeOK, Threads
  <2>4. /\ controlLock = None => \A d \in Callers : pc'[d] # "tested"
        /\ targetsLock = None => \A d \in Callers : pc'[d] # "ttest"
    BY <1>0, <2>2, NoneAssumption DEF LockInv, CallTypeOK, Threads
  <2>5. PoolTypeOK'
    BY <1>0, <2>1 DEF PoolTypeOK
  <2>6. UsedInv' /\ ApartInv'
    BY <2>1, <2>3, <2>4, DropsApart DEF InUse
  <2> QED BY <2>2, <2>5, <2>6
<1>5. ASSUME CloseTargets \/ CloseControl
      PROVE  PoolTypeOK' /\ CallTypeOK' /\ OpInv' /\ UsedInv' /\ ApartInv'
  <2>1. PICK step \in {"closeControl", "stopped"} :
           Goes(MainThread, step) /\ UNCHANGED <<call, held>>
    BY <1>5 DEF CloseTargets, CloseControl
  <2>2. CallTypeOK' /\ OpInv'
    BY <1>0, <2>1, MoveTurn, ThreadsAssumption DEF Threads, OtherSteps
  <2>3. Steady
    BY <1>0, <2>1, ThreadsAssumption DEF Steady, Goes, CallTypeOK, Threads
  <2>4. /\ CloseControl => \A d \in Callers : pc'[d] # "tested"
        /\ CloseTargets => \A d \in Callers : pc'[d] # "ttest"
    BY <1>0, <2>3, NoneAssumption DEF LockInv, Threads, Steady, CloseControl, CloseTargets
  <2>5. /\ PoolTypeOK'
        /\ \A y \in Clients :
             /\ y \in InUse /\ y \notin {control, target} \ {control', target'} => y \in InUse'
             /\ state[y] # "unused" => state'[y] # "unused"
    BY <1>1, <1>5 DEF CloseTargets, CloseControl
  <2>6. UsedInv' /\ ApartInv'
    BY <1>5, <2>3, <2>4, <2>5, DropsApart DEF CloseTargets, CloseControl
  <2> QED BY <2>2, <2>5, <2>6
<1> QED BY <1>2, <1>3, <1>4, <1>5
\* A new client is none of those anybody refers to.
LEMMA ConnectControlStep ==
    ASSUME SshInv, NEW t \in Callers \cup {Keepalive}, ConnectControl(t)
    PROVE  PoolTypeOK' /\ CallTypeOK' /\ OpInv' /\ UsedInv' /\ ApartInv'
<1>0. PoolTypeOK /\ CallTypeOK /\ OpInv /\ LockInv /\ t \in Threads
  BY DEF SshInv, SshTypeOK, PoolTypeOK, CallTypeOK, Threads
<1>1. PICK x \in Fresh :
         /\ state' = [state EXCEPT ![x] = "open"] /\ via' = [via EXCEPT ![x] = None]
         /\ control' = x
         /\ held' = IF t = Keepalive THEN held ELSE [held EXCEPT ![t] = x]
  BY DEF ConnectControl, Opens
<1>2. PICK step \in {"sleep", "tunnel", "run"} :
         /\ pc' = [pc EXCEPT ![t] = step] /\ pc[t] = "connect"
         /\ step = "sleep" => t = Keepalive
         /\ step = "tunnel" => t # Keepalive /\ op[t] = "target"
  BY DEF ConnectControl, Goes, AfterControl
<1>3. UNCHANGED <<target, call>> /\ x \in Clients /\ state[x] = "unused" /\ x # None
  BY NoneAssumption DEF ConnectControl, Fresh
<1>4. PoolTypeOK'
  BY <1>0, <1>1, <1>3 DEF PoolTypeOK
<1>5. CallTypeOK'
  BY <1>0, <1>1, <1>2, <1>3 DEF CallTypeOK, call, CallerSteps, OtherSteps
<1>6. \A u \in Threads : pc'[u] = (IF u = t THEN step ELSE pc[u]) /\ held'[u] \in {held[u], x}
  BY <1>0, <1>1, <1>2 DEF CallTypeOK
<1>7. OpInv'
  <2>1. ASSUME NEW c \in Callers
        PROVE  /\ pc'[c] # "idle" => op[c] # "none"
               /\ pc'[c] \in {"tlock", "ttest", "tunnel", "tstore", "repop", "pop"}
                     => op[c] = "target"
    <3>1. CASE c = t
      BY <1>0, <1>2, <1>6, <3>1, ThreadsAssumption DEF OpInv
    <3>2. CASE c # t
      BY <1>0, <1>6, <3>2 DEF OpInv, Threads
    <3> QED BY <3>1, <3>2
  <2> QED BY <1>3, <2>1 DEF OpInv, call
<1>8. \A y \in Clients : y # x => (y \in InUse' <=> y \in InUse) /\ state'[y] = state[y]
  BY <1>0, <1>1 DEF InUse, PoolTypeOK
<1>9. UsedInv'
  <2> SUFFICES ASSUME NEW y \in {control, target}' \cup {held'[u] : u \in Threads}, y # None
               PROVE  state'[y] # "unused"
    BY DEF UsedInv
  <2>1. CASE y = x
    BY <1>0, <1>1, <1>3, <2>1 DEF PoolTypeOK
  <2>2. CASE y # x
    <3>1. y \in {target} \cup {held[u] : u \in Threads}
      BY <1>1, <1>3, <1>6, <2>2
    <3>2. y \in Clients /\ state[y] # "unused"
      BY <1>0, <3>1 DEF SshInv, UsedInv, PoolTypeOK, CallTypeOK
    <3> QED BY <1>8, <2>2, <3>2
  <2> QED BY <2>1, <2>2
<1>10. ApartInv'
  <2>1. x # target
    BY <1>3 DEF SshInv, UsedInv
  <2>2. ASSUME NEW c \in Callers
        PROVE  /\ pc'[c] # "tested"
               /\ pc'[c] \in {"ttest", "tstore"} =>
                     c # t /\ pc[c] = pc'[c] /\ held'[c] = held[c]
    <3>1. c \in Threads
      BY DEF Threads
    <3>2. pc'[c] # "tested"
      BY <1>0, <1>2, <1>6, <3>1 DEF LockInv
    <3>3. CASE c # t
      BY <1>0, <1>1, <1>6, <3>1, <3>2, <3>3 DEF CallTypeOK
    <3>4. CASE c = t
      BY <1>2, <1>6, <3>1, <3>2, <3>4
    <3> QED BY <3>3, <3>4, <3>2
  <2>3. ASSUME NEW c \in Callers, pc'[c] = "tstore"
        PROVE  held'[c] \in InUse' /\ held'[c] \notin {control', target'}
    <3>1. held'[c] = held[c] /\ held[c] \in InUse /\ held[c] \notin {control, target}
      BY <2>2, <2>3 DEF SshInv, ApartInv
    <3>2. held[c] # x /\ held[c] \in Clients
      BY <1>3, <3>1 DEF InUse
    <3> QED BY <1>1, <1>3, <1>8, <3>1, <3>2
  <2>4. ASSUME NEW c \in Callers, NEW d \in Callers, d # c, pc'[c] = "tstore", pc'[d] = "tstore"
        PROVE  held'[d] # held'[c]
    BY <2>2, <2>4 DEF SshInv, ApartInv
  <2>5. ASSUME NEW c \in Callers, pc'[c] = "ttest"
        PROVE  held'[c] = target' /\ target' # None
    BY <1>3, <2>2, <2>5 DEF SshInv, ApartInv
  <2> QED BY <1>1, <1>3, <2>1, <2>2, <2>3, <2>4, <2>5 DEF ApartInv
<1> QED BY <1>4, <1>5, <1>7, <1>9, <1>10
LEMMA ConnectTargetStep ==
    ASSUME SshInv, NEW t \in Callers, ConnectTarget(t)
    PROVE  PoolTypeOK' /\ CallTypeOK' /\ OpInv' /\ UsedInv' /\ ApartInv'
<1>0. PoolTypeOK /\ CallTypeOK /\ OpInv /\ t \in Threads
  BY DEF SshInv, SshTypeOK, PoolTypeOK, CallTypeOK, Threads
<1>1. PICK x \in Fresh :
         /\ state' = [state EXCEPT ![x] = "open"] /\ via' = [via EXCEPT ![x] = held[t]]
         /\ held' = [held EXCEPT ![t] = x]
  BY DEF ConnectTarget, Opens, Holds
<1>2. pc' = [pc EXCEPT ![t] = "tstore"] /\ pc[t] = "tunnel"
  BY DEF ConnectTarget, Goes
<1>3. UNCHANGED <<control, target, call>> /\ x \in Clients /\ state[x] = "unused" /\ x # None
  BY NoneAssumption DEF ConnectTarget, Fresh, pool
<1>4. PoolTypeOK'
  BY <1>0, <1>1, <1>3 DEF PoolTypeOK, CallTypeOK
<1>5. CallTypeOK'
  BY <1>0, <1>1, <1>2, <1>3 DEF CallTypeOK, call, CallerSteps
<1>6. \A u \in Threads : /\ pc'[u] = IF u = t THEN "tstore" ELSE pc[u]
                         /\ held'[u] = IF u = t THEN x ELSE held[u]
  BY <1>0, <1>1, <1>2 DEF CallTypeOK
<1>7. OpInv'
  BY <1>0, <1>2, <1>3, <1>6 DEF OpInv, call, Threads
<1>8. /\ \A y \in Clients : y # x => (y \in InUse' <=> y \in InUse) /\ state'[y] = state[y]
      /\ state'[x] = "open" /\ x \in InUse'
  BY <1>0, <1>1, <1>3 DEF InUse, PoolTypeOK
<1>9. UsedInv'
  <2> SUFFICES ASSUME NEW y \in {control, target}' \cup {held'[u] : u \in Threads}, y # None
               PROVE  state'[y] # "unused"
    BY DEF UsedInv
  <2>1. CASE y = x
    BY <1>8, <2>1
  <2>2. CASE y # x
    <3>1. y \in {control, target} \cup {held[u] : u \in Threads}
      BY <1>3, <1>6, <2>2
    <3>2. y \in Clients /\ state[y] # "unused"
      BY <1>0, <3>1 DEF SshInv, UsedInv, PoolTypeOK, CallTypeOK
    <3> QED BY <1>8, <2>2, <3>2
  <2> QED BY <2>1, <2>2
<1>10. ApartInv'
  <2>1. x \notin {control, target} /\ x \notin InUse
    BY <1>3 DEF SshInv, UsedInv, InUse
  <2>2. \A c \in Callers : c # t => pc'[c] = pc[c] /\ held'[c] = held[c]
    BY <1>6 DEF Threads
  <2>3. ASSUME NEW c \in Callers, c # t
        PROVE  /\ pc'[c] = "tested" => control' \in InUse'
               /\ pc'[c] = "ttest" => held'[c] = target' /\ target' # None
               /\ pc'[c] = "tstore" => held'[c] \in InUse' /\ held'[c] \notin {control', target'}
    <3>1. pc[c] = "tested" => control \in InUse'
      BY <1>8, <2>1 DEF SshInv, ApartInv, InUse
    <3>2. pc[c] = "tstore" => held[c] \in InUse' /\ held[c] \notin {control, target}
      BY <1>8, <2>1 DEF SshInv, ApartInv, InUse
    <3> QED BY <1>3, <2>2, <2>3, <3>1, <3>2 DEF SshInv, ApartInv
  <2>4. pc'[t] = "tstore" /\ held'[t] = x
    BY <1>0, <1>6
  <2>5. ASSUME NEW c \in Callers, NEW d \in Callers, d # c, pc'[c] = "tstore", pc'[d] = "tstore"
        PROVE  held'[d] # held'[c]
    <3>1. \A e \in Callers : e # t /\ pc'[e] = "tstore" => held'[e] \in InUse
      BY <2>2 DEF SshInv, ApartInv
    <3>2. CASE c # t /\ d # t
      BY <2>2, <2>5, <3>2 DEF SshInv, ApartInv
    <3>3. CASE c = t \/ d = t
      BY <2>1, <2>4, <2>5, <3>1, <3>3
    <3> QED BY <3>2, <3>3
  <2>6. control' # None => control' # target'
    BY <1>3 DEF SshInv, ApartInv
  <2> QED BY <1>3, <1>8, <2>1, <2>3, <2>4, <2>5, <2>6 DEF ApartInv
<1> QED BY <1>4, <1>5, <1>7, <1>9, <1>10

\* The new connection is stored while nobody tests the one it replaces.
LEMMA StoreTargetStep ==
    ASSUME SshInv, NEW t \in Callers, StoreTarget(t)
    PROVE  PoolTypeOK' /\ CallTypeOK' /\ OpInv' /\ UsedInv' /\ ApartInv'
<1>0. PoolTypeOK /\ CallTypeOK /\ OpInv /\ LockInv /\ t \in Threads
  BY DEF SshInv, SshTypeOK, PoolTypeOK, CallTypeOK, Threads
<1>1. /\ pc[t] = "tstore" /\ targetsLock = None /\ target' = held[t]
      /\ Goes(t, "run") /\ UNCHANGED <<control, net, call, held>>
  BY DEF StoreTarget
<1>2. held[t] \in InUse /\ held[t] # control /\ op[t] # "none"
  BY <1>0, <1>1 DEF SshInv, ApartInv, OpInv
<1>3. CallTypeOK' /\ OpInv'
  BY <1>0, <1>1, <1>2, MoveTurn DEF CallerSteps
<1>4. PoolTypeOK' /\ InUse' = InUse
  BY <1>0, <1>1, <1>2 DEF PoolTypeOK, InUse, net
<1>5. UsedInv'
  BY <1>0, <1>1 DEF SshInv, UsedInv, net
<1>6. \A c \in Callers : /\ pc'[c] = IF c = t THEN "run" ELSE pc[c]
                         /\ pc[c] # "ttest"
  BY <1>0, <1>1, NoneAssumption DEF Goes, CallTypeOK, LockInv, Threads
<1>7. ApartInv'
  <2>1. ASSUME NEW c \in Callers
        PROVE  /\ pc'[c] = "tested" => control' \in InUse'
               /\ pc'[c] # "ttest"
               /\ pc'[c] = "tstore" =>
                     /\ c # t /\ held'[c] \in InUse' /\ held'[c] \notin {control', target'}
                     /\ \A d \in Callers : d # c /\ pc'[d] = "tstore" => held'[d] # held'[c]
    BY <1>1, <1>4, <1>6 DEF SshInv, ApartInv
  <2> QED BY <1>1, <1>2, <2>1 DEF ApartInv
<1> QED BY <1>3, <1>4, <1>5, <1>7

\* The network breaks a connection; nobody knows yet.
LEMMA DiesStep ==
    ASSUME SshInv, NEW x \in Clients, ConnectionDies(x)
    PROVE  PoolTypeOK' /\ CallTypeOK' /\ OpInv' /\ UsedInv' /\ ApartInv'
<1>0. PoolTypeOK /\ CallTypeOK /\ OpInv
  BY DEF SshInv, SshTypeOK, PoolTypeOK, CallTypeOK
<1>1. UNCHANGED <<control, target, via, pc, call, held>> /\ state' = Ends(x, "dead")
  BY DEF ConnectionDies, pool
<1>2. /\ state' \in [Clients -> {"unused", "open", "dead", "closed"}]
      /\ state'[x] = "dead"
      /\ \A y \in Clients \ {x} :
            /\ y \in InUse => y \in InUse'
            /\ state[y] # "unused" => state'[y] # "unused"
  BY <1>0, <1>1, EndsFacts
<1>3. \A y \in Clients :
         /\ y \in InUse => y \in InUse'
         /\ state[y] # "unused" => state'[y] # "unused"
  BY <1>2 DEF InUse
<1>4. PoolTypeOK' /\ CallTypeOK' /\ OpInv'
  BY <1>0, <1>1, <1>2 DEF PoolTypeOK, CallTypeOK, OpInv, call
<1>5. UsedInv' /\ ApartInv'
  BY <1>1, <1>3, DropsApart DEF Steady
<1> QED BY <1>4, <1>5

\* What is collected is none of those anybody refers to.
LEMMA CollectedStep ==
    ASSUME SshInv, NEW x \in Clients, ClientCollected(x)
    PROVE  PoolTypeOK' /\ CallTypeOK' /\ OpInv' /\ UsedInv' /\ ApartInv'
<1>0. PoolTypeOK /\ CallTypeOK /\ OpInv
  BY DEF SshInv, SshTypeOK, PoolTypeOK, CallTypeOK
<1>1. /\ UNCHANGED <<control, target, pc, call, held>> /\ state' = Ends(x, "unused")
      /\ via' = [y \in Clients |-> IF y = x \/ via[y] = x THEN None ELSE via[y]]
      /\ x \notin {control, target} \cup {held[t] : t \in Threads}
  BY DEF ClientCollected, pool, Garbage, Referenced
<1>2. /\ state' \in [Clients -> {"unused", "open", "dead", "closed"}]
      /\ \A y \in Clients \ {x} :
            /\ y \in InUse => y \in InUse'
            /\ state[y] # "unused" => state'[y] # "unused"
  BY <1>0, <1>1, EndsFacts
<1>3. PoolTypeOK' /\ CallTypeOK' /\ OpInv'
  BY <1>0, <1>1, <1>2 DEF PoolTypeOK, CallTypeOK, OpInv, call
<1>4. UsedInv'
  <2> SUFFICES ASSUME NEW y \in {control, target} \cup {held[t] : t \in Threads}, y # None
               PROVE  state'[y] # "unused"
    BY <1>1 DEF UsedInv
  <2>1. y \in Clients /\ y # x /\ state[y] # "unused"
    BY <1>0, <1>1 DEF SshInv, UsedInv, PoolTypeOK, CallTypeOK
  <2> QED BY <1>2, <2>1
<1>5. ApartInv'
  <2>1. \A c \in Callers : held[c] # x
    BY <1>1 DEF Threads
  <2>2. \A y \in InUse : y # x => y \in InUse'
    BY <1>2 DEF InUse
  <2>3. control # x
    BY <1>1
  <2> QED BY <1>1, <2>1, <2>2, <2>3 DEF SshInv, ApartInv
<1> QED BY <1>3, <1>4, <1>5

-----------------------------------------------------------------------------
(* The locks, and the invariant.                                           *)

LocksTypeOK ==
    {controlLock, targetsLock} \subseteq Threads \cup {None} /\ sshTroubles \in 0..MaxTroubles

\* A thread enters a section with its lock and leaves it without, and only a
\* lock that is free or its own changes hands.
LEMMA LockFrame ==
    ASSUME SshInv, NEW t \in Threads, NEW step, pc' = [pc EXCEPT ![t] = step],
           controlLock' \in {controlLock, t, None}, targetsLock' \in {targetsLock, t, None},
           step \in {"test", "tested", "connect"} <=> controlLock' = t,
           step = "ttest" <=> targetsLock' = t,
           controlLock' # controlLock => controlLock \in {t, None},
           targetsLock' # targetsLock => targetsLock \in {t, None}
    PROVE  LockInv' /\ {controlLock, targetsLock}' \subseteq Threads \cup {None}
<1>1. {controlLock, targetsLock}' \subseteq Threads \cup {None}
  BY DEF SshInv, SshTypeOK
<1>2. ASSUME NEW u \in Threads
      PROVE  /\ pc'[u] \in {"test", "tested", "connect"} <=> controlLock' = u
             /\ pc'[u] = "ttest" <=> targetsLock' = u
  <2>1. CASE u = t
    <3>1. pc'[u] = step
      BY <2>1 DEF SshInv, SshTypeOK
    <3> QED BY <2>1, <3>1
  <2>2. CASE u # t
    BY <2>2, NoneAssumption DEF SshInv, SshTypeOK, LockInv
  <2> QED BY <2>1, <2>2
<1> QED BY <1>1, <1>2 DEF LockInv

\* A failed connection lets go of the lock.
LEMMA LockTurn ==
    ASSUME SshInv, NEW t \in Threads, NEW step \in {"idle", "drop", "repop", "pop"}, Turn(t, step),
           pc[t] = "connect", controlLock = t, controlLock' = None, UNCHANGED targetsLock
    PROVE  LockInv' /\ {controlLock, targetsLock}' \subseteq Threads \cup {None}
<1>1. targetsLock' # t /\ controlLock' # t
  BY NoneAssumption DEF SshInv, LockInv
<1> QED BY <1>1, LockFrame DEF Turn

LEMMA LockStep ==
    ASSUME SshInv, SshNext PROVE LockInv' /\ LocksTypeOK'
<1> USE DEF locks
<1>1. Trouble \/ UNCHANGED sshTroubles
  BY DEF SshNext, Step, Collects, CallerMoves, Locks, Proceeds, TestsOrConnects,
         LockControl, LockTargets, StoreTarget, ForgetControl, ForgetTarget,
         HandOverControl, ControlTestPasses, ControlTestFails, ConnectControl,
         ConnectControlFails, TargetTestPasses, TargetTestFails, ConnectTarget,
         ConnectTargetFails, CommandStarts, CommandRaises, CommandReturns, Call,
         KeepaliveRound, CloseBegins, CloseTargets, CloseControl, ConnectionDies,
         ClientCollected
<1>2. sshTroubles' \in 0..MaxTroubles
  BY <1>1, BoundsAssumption DEF Trouble, SshInv, SshTypeOK
<1> SUFFICES LockInv' /\ {controlLock, targetsLock}' \subseteq Threads \cup {None}
  BY <1>2 DEF LocksTypeOK
<1>0. CallTypeOK /\ OpInv /\ LockInv
  BY DEF SshInv, SshTypeOK, CallTypeOK
<1>3. ASSUME NEW t \in Callers \cup {Keepalive}, LockControl(t) \/ TestsOrConnects(t)
      PROVE  LockInv' /\ {controlLock, targetsLock}' \subseteq Threads \cup {None}
  <2>0. t \in Threads
    BY DEF Threads
  <2>1. CASE LockControl(t)
    <3>1. PICK step \in {"sleep", "connect", "test"} : pc' = [pc EXCEPT ![t] = step]
      BY <2>1 DEF LockControl, Goes
    <3>2. controlLock = None /\ UNCHANGED targetsLock /\ (controlLock' = t \/ step = "sleep")
          /\ controlLock' = IF step = "sleep" THEN controlLock ELSE t
      BY <2>0, <2>1, <3>1, <1>0 DEF LockControl, Goes, CallTypeOK
    <3>3. targetsLock # t /\ t # None
      BY <1>0, <2>0, <2>1, NoneAssumption DEF LockControl, LockInv
    <3> QED BY <2>0, <3>1, <3>2, <3>3, LockFrame
  <2>2. CASE ControlTestPasses(t) \/ ControlTestFails(t) \/ ConnectControl(t)
    <3>1. controlLock = t /\ targetsLock # t /\ t # None
      BY <1>0, <2>0, <2>2, NoneAssumption
         DEF LockInv, ControlTestPasses, ControlTestFails, ConnectControl
    <3>2. PICK step \in {"sleep", "tested", "connect", "tunnel", "run"} :
             /\ pc' = [pc EXCEPT ![t] = step]
             /\ UNCHANGED targetsLock /\ controlLock' \in {t, None}
             /\ step \in {"tested", "connect"} <=> controlLock' = t
      BY <1>0, <2>0, <2>2, <3>1, NoneAssumption
         DEF ControlTestPasses, ControlTestFails, ConnectControl, Goes, AfterControl, locks
    <3> QED BY <2>0, <3>1, <3>2, LockFrame
  <2>3. CASE ConnectControlFails(t)
    <3>1. /\ pc[t] = "connect" /\ controlLock = t /\ controlLock' = None
          /\ UNCHANGED targetsLock /\ targetsLock # t /\ t # None
      BY <1>0, <2>0, <2>3, NoneAssumption DEF LockInv, ConnectControlFails
    <3>2. CASE t = Keepalive
      BY <2>0, <2>3, <3>1, <3>2, LockFrame DEF ConnectControlFails, Goes
    <3>3. CASE t # Keepalive
      <4>1. t \in Callers /\ pc[t] = "connect" /\ (Errs(t) \/ StartsFallbacks(t))
        BY <2>3, <3>3 DEF ConnectControlFails
      <4>2. \E step \in {"idle", "drop", "repop", "pop"} : Turn(t, step)
        BY <1>0, <4>1, ErrsTurn, FallbacksTurn
      <4> QED BY <2>0, <3>1, <4>2, LockTurn
    <3> QED BY <3>2, <3>3
  <2> QED BY <1>3, <2>1, <2>2, <2>3 DEF TestsOrConnects
<1>4. ASSUME NEW c \in Callers,
             LockTargets(c) \/ TargetTestPasses(c) \/ TargetTestFails(c) \/ HandOverControl(c)
      PROVE  LockInv' /\ {controlLock, targetsLock}' \subseteq Threads \cup {None}
  <2>0. c \in Threads
    BY DEF Threads
  <2>1. CASE LockTargets(c)
    <3>1. PICK step \in {"lock", "ttest"} : pc' = [pc EXCEPT ![c] = step]
                                         /\ (step = "lock" <=> target = None)
      BY <2>1 DEF LockTargets, Goes
    <3>2. /\ targetsLock = None /\ UNCHANGED controlLock /\ controlLock # c /\ c # None
          /\ targetsLock' = IF target = None THEN None ELSE c
      BY <1>0, <2>0, <2>1, NoneAssumption DEF LockTargets, LockInv
    <3> QED BY <2>0, <3>1, <3>2, LockFrame
  <2>2. CASE TargetTestPasses(c) \/ TargetTestFails(c)
    <3>1. /\ targetsLock = c /\ targetsLock' = None
          /\ UNCHANGED controlLock /\ controlLock # c /\ c # None
      BY <1>0, <2>0, <2>2, NoneAssumption DEF LockInv, TargetTestPasses, TargetTestFails
    <3>2. PICK step \in {"run", "lock"} : pc' = [pc EXCEPT ![c] = step]
      BY <2>2 DEF TargetTestPasses, TargetTestFails, Goes
    <3> QED BY <2>0, <3>1, <3>2, LockFrame
  <2>3. CASE HandOverControl(c)
    <3>1. /\ controlLock = c /\ controlLock' = None
          /\ UNCHANGED targetsLock /\ targetsLock # c /\ c # None
      BY <1>0, <2>0, <2>3, NoneAssumption DEF LockInv, HandOverControl
    <3>2. PICK step \in {"tunnel", "run"} : pc' = [pc EXCEPT ![c] = step]
      BY <2>3 DEF HandOverControl, Goes, AfterControl
    <3> QED BY <2>0, <3>1, <3>2, LockFrame
  <2> QED BY <1>4, <2>1, <2>2, <2>3
<1>5. ASSUME NEW c \in Callers,
             \/ \E o \in Does[c] : Call(c, o)
             \/ StoreTarget(c) \/ ForgetControl(c) \/ ForgetTarget(c)
             \/ ConnectTarget(c) \/ ConnectTargetFails(c)
             \/ \E never \in BOOLEAN : CommandStarts(c, never)
             \/ CommandRaises(c) \/ CommandReturns(c)
      PROVE  LockInv' /\ {controlLock, targetsLock}' \subseteq Threads \cup {None}
  <2>0. c \in Threads
    BY DEF Threads
  <2>1. UNCHANGED <<controlLock, targetsLock>> /\ controlLock # c /\ targetsLock # c
    <3>1. /\ UNCHANGED <<controlLock, targetsLock>>
          /\ pc[c] \notin {"test", "tested", "connect", "ttest"}
      BY <1>5 DEF Call, StoreTarget, ForgetControl, ForgetTarget, ConnectTarget,
                  ConnectTargetFails, CommandStarts, CommandRaises, CommandReturns
    <3> QED BY <1>0, <2>0, <3>1 DEF LockInv
  <2>2. \E step : /\ pc' = [pc EXCEPT ![c] = step]
                  /\ step \notin {"test", "tested", "connect", "ttest"}
    <3>1. CASE CommandRaises(c)
      <4>1. \E step \in {"idle", "drop", "repop", "pop"} : Turn(c, step)
        BY <1>0, <3>1, ErrsTurn DEF CommandRaises
      <4> QED BY <4>1 DEF Turn
    <3>2. CASE ConnectTargetFails(c)
      <4>1. AfterError(c) \in {"repop", "pop"}
        BY <1>0, <3>2 DEF ConnectTargetFails, AfterError, OpInv
      <4> QED BY <3>2, <4>1 DEF ConnectTargetFails, StartsFallbacks, Goes
    <3>3. CASE ForgetTarget(c) \/ ForgetControl(c) \/ CommandReturns(c)
      BY <3>3 DEF ForgetTarget, ForgetControl, CommandReturns, Returns, Goes
    <3>4. CASE \/ \E o \in Does[c] : Call(c, o)
               \/ StoreTarget(c) \/ ConnectTarget(c)
               \/ \E never \in BOOLEAN : CommandStarts(c, never)
      BY <3>4 DEF Call, StoreTarget, ConnectTarget, CommandStarts, Goes
    <3> QED BY <1>5, <3>1, <3>2, <3>3, <3>4
  <2> QED BY <2>0, <2>1, <2>2, LockFrame
<1>6. ASSUME KeepaliveRound \/ CloseBegins \/ CloseTargets \/ CloseControl
      PROVE  LockInv' /\ {controlLock, targetsLock}' \subseteq Threads \cup {None}
  <2>1. PICK t \in {Keepalive, MainThread}, step \in {"lock", "stopped", "closeTargets", "closeControl"} :
           pc' = [pc EXCEPT ![t] = step]
    BY <1>6 DEF KeepaliveRound, CloseBegins, CloseTargets, CloseControl, Goes
  <2>2. UNCHANGED <<controlLock, targetsLock>> /\ t \in Threads
    BY <1>6 DEF KeepaliveRound, CloseBegins, CloseTargets, CloseControl, Threads
  <2>3. pc[t] \notin {"test", "tested", "connect", "ttest"}
    BY <1>6, <2>1, <2>2, <1>0, ThreadsAssumption
       DEF KeepaliveRound, CloseBegins, CloseTargets, CloseControl, Goes, CallTypeOK
  <2>4. controlLock # t /\ targetsLock # t
    BY <1>0, <2>2, <2>3 DEF LockInv
  <2> QED BY <2>1, <2>2, <2>4, LockFrame
<1>7. ASSUME NEW x \in Clients, ConnectionDies(x) \/ ClientCollected(x)
      PROVE  LockInv' /\ {controlLock, targetsLock}' \subseteq Threads \cup {None}
  <2>1. UNCHANGED <<pc, controlLock, targetsLock>>
    BY <1>7 DEF ConnectionDies, ClientCollected
  <2> QED BY <2>1 DEF SshInv, SshTypeOK, LockInv
<1> QED BY <1>3, <1>4, <1>5, <1>6, <1>7
        DEF SshNext, Step, Collects, CallerMoves, Locks, Proceeds

LEMMA SshInitInv == SshInit => SshInv
<1> SUFFICES ASSUME SshInit PROVE SshInv
  OBVIOUS
<1> USE DEF SshInit
<1>1. SshTypeOK
  BY BoundsAssumption DEF SshTypeOK, CallerSteps, OtherSteps, Ops, Primary
<1>2. LockInv /\ OpInv /\ UsedInv /\ ApartInv
  BY NoneAssumption DEF LockInv, OpInv, UsedInv, ApartInv, Threads
<1> QED BY <1>1, <1>2 DEF SshInv

\* Every step but the handing over keeps what is claimed of clients and calls.
LEMMA RestStep ==
    ASSUME SshInv, SshNext PROVE PoolTypeOK' /\ CallTypeOK' /\ OpInv' /\ UsedInv' /\ ApartInv'
<1>1. ASSUME NEW t \in Threads, SshQuiet(t) PROVE PoolTypeOK' /\ UsedInv' /\ ApartInv'
  <2>1. PoolTypeOK'
    BY <1>1 DEF SshQuiet, pool, net, SshInv, SshTypeOK, PoolTypeOK
  <2> QED BY <1>1, <2>1, QuietApart
<1>2. ASSUME NEW t \in Callers \cup {Keepalive}, LockControl(t) \/ TestsOrConnects(t)
      PROVE  PoolTypeOK' /\ CallTypeOK' /\ OpInv' /\ UsedInv' /\ ApartInv'
  <2>1. t \in Threads
    BY DEF Threads
  <2> QED BY <1>1, <1>2, <2>1, ControlQuiet, DropsStep, ConnectControlStep DEF TestsOrConnects
<1>3. ASSUME NEW c \in Callers, \/ \E o \in Does[c] : Call(c, o)
                                \/ CallerMoves(c)
      PROVE  PoolTypeOK' /\ CallTypeOK' /\ OpInv' /\ UsedInv' /\ ApartInv'
  <2>1. c \in Threads
    BY DEF Threads
  <2> QED BY <1>1, <1>2, <1>3, <2>1, HandsQuiet, OperationQuiet, DropsStep, ConnectTargetStep,
             StoreTargetStep DEF CallerMoves, Locks, Proceeds
<1>4. CASE KeepaliveRound \/ CloseBegins
  BY <1>1, <1>4, OthersQuiet
<1>5. CASE CloseTargets \/ CloseControl
  BY <1>5, DropsStep
<1> QED BY <1>2, <1>3, <1>4, <1>5, DiesStep, CollectedStep DEF SshNext, Step, Collects

LEMMA SshStepInv == SshInv /\ [SshNext]_sshVars => SshInv'
<1> SUFFICES ASSUME SshInv, [SshNext]_sshVars PROVE SshInv'
  OBVIOUS
<1>1. CASE SshNext
  <2>1. PoolTypeOK' /\ CallTypeOK' /\ OpInv' /\ UsedInv' /\ ApartInv'
    BY <1>1, RestStep
  <2>2. LockInv' /\ LocksTypeOK'
    BY <1>1, LockStep
  <2>3. SshTypeOK'
    BY <2>1, <2>2 DEF SshTypeOK, PoolTypeOK, CallTypeOK, LocksTypeOK
  <2> QED BY <2>1, <2>2, <2>3 DEF SshInv
<1>2. CASE UNCHANGED sshVars
  BY <1>2 DEF sshVars, pool, locks, net, call, SshInv, SshTypeOK, LockInv, OpInv, UsedInv,
              ApartInv, InUse
<1> QED BY <1>1, <1>2

\* No proof here needs the fairness.
SshSafety == SshInit /\ [][SshNext]_sshVars

\* SshInv holds throughout: it is what the theorems read their claims off.
LEMMA SshInvariance == SshSafety => []SshInv
<1> QED BY SshInitInv, SshStepInv, PTL DEF SshSafety

-----------------------------------------------------------------------------

\* There are four steps after which a caller goes on with a client it was given.
LEMMA Obtaining ==
    ASSUME SshInv, SshNext, NEW c \in Callers, c \in Threads,
           pc[c] \notin {"tunnel", "run"}, pc'[c] \in {"tunnel", "run"},
           \A t \in Threads : \A step : pc' = [pc EXCEPT ![t] = step] => t = c /\ step = pc'[c]
    PROVE  \/ HandOverControl(c) \/ ConnectControl(c)
           \/ TargetTestPasses(c) \/ StoreTarget(c)
<1> DEFINE Obtains == \/ HandOverControl(c) \/ ConnectControl(c)
                      \/ TargetTestPasses(c) \/ StoreTarget(c)
<1>0. CallTypeOK /\ OpInv
  BY DEF SshInv, SshTypeOK, CallTypeOK
<1>1. \A t \in Threads : \A step : pc' = [pc EXCEPT ![t] = step] => t = c /\ step \in {"tunnel", "run"}
  OBVIOUS
<1>2. \A t \in Threads : \A step \in {"idle", "drop", "repop", "pop"} : ~Turn(t, step)
  BY <1>1 DEF Turn
<1>3. ASSUME NEW t \in Callers \cup {Keepalive}, LockControl(t) \/ TestsOrConnects(t)
      PROVE  Obtains
  <2>0. t \in Threads
    BY DEF Threads
  <2>1. CASE LockControl(t) \/ ControlTestPasses(t) \/ ControlTestFails(t)
    <3>1. \E step \in {"sleep", "connect", "test", "tested"} : pc' = [pc EXCEPT ![t] = step]
      BY <2>1 DEF LockControl, ControlTestPasses, ControlTestFails, Goes
    <3> QED BY <1>1, <2>0, <3>1
  <2>2. CASE ConnectControl(t)
    <3>1. \E step : pc' = [pc EXCEPT ![t] = step]
      BY <2>2 DEF ConnectControl, Goes
    <3> QED BY <1>1, <2>0, <2>2, <3>1
  <2>3. CASE ConnectControlFails(t)
    <3>1. CASE t = Keepalive
      BY <1>1, <2>0, <2>3, <3>1 DEF ConnectControlFails, Goes
    <3>2. CASE t # Keepalive
      <4>1. t \in Callers /\ pc[t] = "connect" /\ (Errs(t) \/ StartsFallbacks(t))
        BY <2>3, <3>2 DEF ConnectControlFails
      <4> QED BY <1>0, <1>2, <2>0, <4>1, ErrsTurn, FallbacksTurn
    <3> QED BY <3>1, <3>2
  <2> QED BY <1>3, <2>1, <2>2, <2>3 DEF TestsOrConnects
<1>4. ASSUME NEW d \in Callers,
             \/ \E o \in Does[d] : Call(d, o)
             \/ LockTargets(d) \/ TargetTestFails(d) \/ ConnectTarget(d)
             \/ \E never \in BOOLEAN : CommandStarts(d, never)
             \/ ForgetControl(d) \/ ForgetTarget(d) \/ CommandReturns(d)
      PROVE  Obtains
  <2>1. \E step \in {"tlock", "lock", "ttest", "tstore", "wait", "idle", "pop"} :
           pc' = [pc EXCEPT ![d] = step]
    BY <1>4 DEF Call, LockTargets, TargetTestFails, ConnectTarget, CommandStarts,
                ForgetControl, ForgetTarget, CommandReturns, Returns, Goes
  <2> QED BY <1>1, <2>1 DEF Threads
<1>5. ASSUME NEW d \in Callers, HandOverControl(d) \/ TargetTestPasses(d) \/ StoreTarget(d)
      PROVE  Obtains
  <2>1. \E step : pc' = [pc EXCEPT ![d] = step]
    BY <1>5 DEF HandOverControl, TargetTestPasses, StoreTarget, Goes
  <2>2. d = c
    BY <1>1, <2>1 DEF Threads
  <2> QED BY <1>5, <2>2
<1>6. ASSUME NEW d \in Callers, CommandRaises(d) \/ ConnectTargetFails(d) PROVE Obtains
  <2>0. d \in Threads
    BY DEF Threads
  <2>1. CASE CommandRaises(d)
    BY <1>0, <1>2, <2>0, <2>1, ErrsTurn DEF CommandRaises
  <2>2. CASE ConnectTargetFails(d)
    <3>1. AfterError(d) \in {"repop", "pop"}
      BY <1>0, <2>2 DEF ConnectTargetFails, AfterError, OpInv
    <3>2. \E step \in {"repop", "pop"} : pc' = [pc EXCEPT ![d] = step]
      BY <2>2, <3>1 DEF ConnectTargetFails, StartsFallbacks, Goes
    <3> QED BY <1>1, <2>0, <3>2
  <2> QED BY <1>6, <2>1, <2>2
<1>7. ASSUME KeepaliveRound \/ CloseBegins \/ CloseTargets \/ CloseControl PROVE Obtains
  <2>1. \E t \in {Keepalive, MainThread} : \E step : pc' = [pc EXCEPT ![t] = step]
    BY <1>7 DEF KeepaliveRound, CloseBegins, CloseTargets, CloseControl, Goes
  <2> QED BY <1>1, <2>1, ThreadsAssumption DEF Threads
<1>8. ASSUME NEW x \in Clients, ConnectionDies(x) \/ ClientCollected(x) PROVE Obtains
  BY <1>8 DEF ConnectionDies, ClientCollected
<1> QED BY <1>3, <1>4, <1>5, <1>6, <1>7, <1>8
        DEF SshNext, Step, Collects, CallerMoves, Locks, Proceeds

\* The attributes, locks and threads of the connection pool keep their types.
THEOREM SshTypeCorrect == SshSpec => []SshTypeOK
<1>1. SshInv => SshTypeOK
  BY DEF SshInv
<1> QED BY <1>1, SshInvariance, PTL DEF SshSpec, SshSafety

\* The control lock is held exactly while its holder tests or connects the control
\* client, the targets lock exactly while its holder tests a target's: no two
\* threads are in the sections of one lock, no refused connection, failed test or
\* exception leaves a lock behind, and who waits for one lock holds neither.
THEOREM LocksReleased == SshSpec => []LockInv
<1>1. SshInv => LockInv
  BY DEF SshInv
<1> QED BY <1>1, SshInvariance, PTL DEF SshSpec, SshSafety

LEMMA HandedOutSafe == SshSafety => HandedOutIsUsable
<1>1. SshInv /\ SshInv' /\ [SshNext]_sshVars =>
         [\A c \in Callers :
          pc[c] \notin {"tunnel", "run"} /\ pc'[c] \in {"tunnel", "run"}
             => /\ held'[c] \in Clients
                /\ state'[held'[c]] \in {"open", "dead"}
                /\ held'[c] = IF pc'[c] = "tunnel" \/ op[c] # "target" THEN control' ELSE target']_sshVars
  <2> SUFFICES ASSUME SshInv, SshInv', SshNext, NEW c \in Callers,
                      pc[c] \notin {"tunnel", "run"}, pc'[c] \in {"tunnel", "run"}
               PROVE  /\ held'[c] \in Clients
                      /\ state'[held'[c]] \in {"open", "dead"}
                      /\ held'[c] = IF pc'[c] = "tunnel" \/ op[c] # "target" THEN control' ELSE target'
    OBVIOUS
  <2>0. CallTypeOK /\ OpInv /\ c \in Threads
    BY DEF SshInv, SshTypeOK, CallTypeOK, Threads
  <2>1. \A t \in Threads : \A step : pc' = [pc EXCEPT ![t] = step] => t = c /\ step = pc'[c]
    BY <2>0 DEF CallTypeOK
  <2>2. \/ HandOverControl(c) \/ ConnectControl(c)
        \/ TargetTestPasses(c) \/ StoreTarget(c)
    BY <2>0, <2>1, Obtaining
  <2>3. CASE HandOverControl(c)
    <3>1. /\ control \in InUse /\ UNCHANGED <<control, state>>
          /\ held'[c] = control /\ pc'[c] = AfterControl(c)
      BY <2>0, <2>3 DEF HandOverControl, Holds, Goes, pool, net, SshInv, ApartInv, CallTypeOK
    <3> QED BY <3>1 DEF InUse, AfterControl
  <2>4. CASE ConnectControl(c)
    <3>1. PICK x \in Fresh :
             /\ state' = [state EXCEPT ![x] = "open"] /\ control' = x
             /\ held' = [held EXCEPT ![c] = x]
      BY <2>4, ThreadsAssumption DEF ConnectControl, Opens
    <3>2. pc'[c] = AfterControl(c)
      BY <2>0, <2>4, ThreadsAssumption DEF ConnectControl, Goes, CallTypeOK
    <3>3. held'[c] = x /\ state'[x] = "open" /\ x \in Clients
      BY <2>0, <3>1 DEF Fresh, CallTypeOK, SshInv, SshTypeOK
    <3> QED BY <3>1, <3>2, <3>3 DEF AfterControl
  <2>5. CASE TargetTestPasses(c)
    <3>1. /\ pc'[c] = "run" /\ held' = held /\ UNCHANGED <<target, state>>
          /\ held[c] = target /\ op[c] = "target" /\ Works(held[c])
      BY <2>0, <2>5
         DEF TargetTestPasses, Goes, pool, net, SshInv, ApartInv, OpInv, CallTypeOK
    <3> QED BY <2>0, <3>1 DEF Works, CallTypeOK
  <2>6. CASE StoreTarget(c)
    <3>1. /\ pc'[c] = "run" /\ held' = held /\ target' = held[c] /\ UNCHANGED state
          /\ held[c] \in InUse /\ op[c] = "target"
      BY <2>0, <2>6 DEF StoreTarget, Goes, net, SshInv, ApartInv, OpInv, CallTypeOK
    <3> QED BY <3>1 DEF InUse
  <2> QED BY <2>2, <2>3, <2>4, <2>5, <2>6
<1> QED BY <1>1, SshInvariance, PTL DEF SshSafety, HandedOutIsUsable

\* A caller is never handed None, a closed client or somebody else's: what
\* _connect_jumpbox_control and _connect_target return has just been tested or
\* connected, whatever the other threads do to the attributes meanwhile.
THEOREM HandedOut == SshSpec => HandedOutIsUsable
  BY HandedOutSafe, PTL DEF SshSpec, SshSafety

=============================================================================
