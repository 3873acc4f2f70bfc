------------------------------- MODULE SshPool -------------------------------
(***************************************************************************)
(* relay/ssh_manager.py: the control connection to the jumpbox, shared by  *)
(* every short command, by the keepalive thread and by the connection to a *)
(* target, which is tunnelled through it; and the cached connection to one *)
(* target.  Two locks protect the two attributes, not the clients: a       *)
(* command uses the client it was handed after it has let go of the lock.  *)
(*                                                                         *)
(* Paramiko and the machines are external.  A client is open, dead (the    *)
(* network or its tunnel broke, nobody knows yet) or closed; one that      *)
(* nothing refers to any more is closed at once, by the reference counts   *)
(* of CPython, and its identifier is used again; that the exception of a   *)
(* refused password keeps the jumpbox client a little longer is left out.  *)
(* A test of a client may fail although the client is open (5 s timeout,   *)
(* no free session on the server).  One target.                            *)
(***************************************************************************)
EXTENDS Naturals, FiniteSets

CONSTANTS
    Callers,         \* threads that run commands
    Does,            \* the operations each of them calls
    Keepalive,       \* the keepalive thread
    MainThread,      \* the thread that calls close()
    None,            \* no client, no thread
    MaxClients,      \* bound: clients that exist at one time
    MaxFallbacks,    \* length of FALLBACK_PASSWORDS
    MaxTroubles      \* bound: connections that break and steps that fail

ASSUME ThreadsAssumption == /\ Keepalive \notin Callers
                            /\ MainThread \notin Callers
                            /\ MainThread # Keepalive
ASSUME DoesAssumption == Does \in [Callers -> SUBSET {"exec", "sftp", "target"}]
ASSUME BoundsAssumption == {MaxClients, MaxFallbacks, MaxTroubles} \subseteq Nat

Primary == MaxFallbacks + 1     \* the configured password is in use
Threads == Callers \cup {Keepalive, MainThread}
Clients == 1..MaxClients

ASSUME NoneAssumption == None \notin Clients /\ None \notin Threads

VARIABLES
    control,         \* _jumpbox_control
    target,          \* the entry of the target in _targets
    controlLock, targetsLock,       \* who holds them
    state, via,      \* of each client: its state, the client it is tunnelled through
    pc,              \* where each thread is
    op,              \* the operation each caller is in
    held,            \* the client each thread refers to in a local variable
    fallbacks,       \* fallback passwords each caller has still to try, or Primary
    endless,         \* callers whose remote command never ends
    sshTroubles

pool == <<control, target>>
locks == <<controlLock, targetsLock>>
net == <<state, via>>
call == <<op, fallbacks, endless>>
sshVars == <<pool, locks, net, pc, call, held, sshTroubles>>

Ops == {"exec", "sftp", "target"}
ConnectSteps == {"lock", "test", "tested", "connect"}
CallerSteps == {"idle", "tlock", "ttest", "tunnel", "tstore", "run", "wait",
                "drop", "repop", "pop"} \cup ConnectSteps
OtherSteps == {"sleep", "stopped", "closeTargets", "closeControl"} \cup ConnectSteps

SshTypeOK ==
    /\ {control, target} \subseteq Clients \cup {None}
    /\ {controlLock, targetsLock} \subseteq Threads \cup {None}
    /\ state \in [Clients -> {"unused", "open", "dead", "closed"}]
    /\ via \in [Clients -> Clients \cup {None}]
    /\ pc \in [Threads -> CallerSteps \cup OtherSteps]
    /\ op \in [Callers -> Ops \cup {"none"}]
    /\ held \in [Threads -> Clients \cup {None}]
    /\ fallbacks \in [Callers -> 0..Primary]
    /\ endless \subseteq Callers
    /\ sshTroubles \in 0..MaxTroubles

SshInit ==
    /\ control = None /\ target = None
    /\ controlLock = None /\ targetsLock = None
    /\ state = [x \in Clients |-> "unused"]
    /\ via = [x \in Clients |-> None]
    /\ pc = [t \in Threads |-> IF t \in Callers THEN "idle" ELSE "sleep"]
    /\ op = [c \in Callers |-> "none"]
    /\ held = [t \in Threads |-> None]
    /\ fallbacks = [c \in Callers |-> Primary]
    /\ endless = {}
    /\ sshTroubles = 0

(* ------------------------- clients (external) --------------------------- *)

Works(x) == x # None /\ state[x] = "open"

\* x becomes s, and what is tunnelled through it is cut off.
Ends(x, s) ==
    [y \in Clients |-> CASE y = x -> s
                         [] y # x /\ via[y] = x /\ state[y] = "open" -> "dead"
                         [] OTHER -> state[y]]

Closed(x) == IF x = None THEN state ELSE Ends(x, "closed")

Fresh == {x \in Clients : state[x] = "unused"}

\* A client is opened, through x or directly.
Opens(x, through) ==
    /\ x = CHOOSE y \in Fresh : \A z \in Fresh : y <= z
    /\ state' = [state EXCEPT ![x] = "open"]
    /\ via' = [via EXCEPT ![x] = through]

Trouble == sshTroubles < MaxTroubles /\ sshTroubles' = sshTroubles + 1

\* The network breaks a connection.
ConnectionDies(x) ==
    /\ state[x] = "open"
    /\ Trouble
    /\ state' = Ends(x, "dead")
    /\ UNCHANGED <<pool, locks, via, pc, call, held>>

\* Who connects to a target refers to the jumpbox client until it has stored
\* the new connection.
Referenced ==
    {control, target} \cup {held[t] : t \in Threads}
        \cup {via[held[c]] : c \in {d \in Callers : pc[d] = "tstore"}}

Garbage == {x \in Clients \ Referenced : state[x] # "unused"}

\* Nothing refers to the client: it is closed.
ClientCollected(x) ==
    /\ x \in Garbage
    /\ state' = Ends(x, "unused")
    /\ via' = [y \in Clients |-> IF y = x \/ via[y] = x THEN None ELSE via[y]]
    /\ UNCHANGED <<pool, locks, pc, call, held, sshTroubles>>

(* -------------- _connect_jumpbox_control and its keepalive -------------- *)

Goes(t, step) == pc' = [pc EXCEPT ![t] = step]
Holds(t, x) == held' = [held EXCEPT ![t] = x]

\* What a caller does with the control connection it asked for.
AfterControl(c) == IF op[c] = "target" THEN "tunnel" ELSE "run"

\* How an operation takes an exception: an exec forgets the control client, a
\* command on a target forgets the target's, an SFTP operation lets it pass.
AfterError(c) ==
    CASE op[c] = "exec" -> "drop"
      [] op[c] = "target" -> IF fallbacks[c] = Primary THEN "pop" ELSE "repop"

\* The call is over: its local variables are gone.
Returns(c) ==
    /\ Goes(c, "idle")
    /\ Holds(c, None)
    /\ op' = [op EXCEPT ![c] = "none"]
    /\ fallbacks' = [fallbacks EXCEPT ![c] = Primary]
    /\ endless' = endless \ {c}

Errs(c) ==
    IF op[c] = "sftp" THEN Returns(c)
    ELSE Goes(c, AfterError(c)) /\ UNCHANGED <<call, held>>

\* The configured password, of the target or of the jumpbox, is refused: the
\* fallback passwords of the target are tried.
StartsFallbacks(c) ==
    /\ op[c] = "target" /\ fallbacks[c] = Primary
    /\ fallbacks' = [fallbacks EXCEPT ![c] = MaxFallbacks]
    /\ Goes(c, "repop")
    /\ Holds(c, None)
    /\ UNCHANGED <<op, endless>>

\* A caller finds no control client and connects; the keepalive leaves it so.
LockControl(t) ==
    /\ pc[t] = "lock"
    /\ controlLock = None
    /\ IF control = None /\ t = Keepalive
         THEN Goes(t, "sleep") /\ UNCHANGED controlLock
         ELSE /\ Goes(t, IF control = None THEN "connect" ELSE "test")
              /\ controlLock' = t
    /\ UNCHANGED <<pool, targetsLock, net, call, held, sshTroubles>>

\* "echo ok" went through.
ControlTestPasses(t) ==
    /\ pc[t] = "test"
    /\ Works(control)
    /\ IF t = Keepalive
         THEN Goes(t, "sleep") /\ controlLock' = None
         ELSE Goes(t, "tested") /\ UNCHANGED controlLock
    /\ UNCHANGED <<pool, targetsLock, net, call, held, sshTroubles>>

\* It did not: the client is closed, also under those that use it.
ControlTestFails(t) ==
    /\ pc[t] = "test"
    /\ IF Works(control) THEN Trouble ELSE UNCHANGED sshTroubles
    /\ state' = Closed(control)
    /\ control' = None
    /\ Goes(t, "connect")
    /\ UNCHANGED <<target, locks, via, call, held>>

\* return self._jumpbox_control, still under the lock.
HandOverControl(c) ==
    /\ pc[c] = "tested"
    /\ Holds(c, control)
    /\ Goes(c, AfterControl(c))
    /\ controlLock' = None
    /\ UNCHANGED <<pool, targetsLock, net, call, sshTroubles>>

ConnectControl(t) ==
    /\ pc[t] = "connect"
    /\ \E x \in Fresh :
         /\ Opens(x, None)
         /\ control' = x
         /\ held' = IF t = Keepalive THEN held ELSE [held EXCEPT ![t] = x]
    /\ Goes(t, IF t = Keepalive THEN "sleep" ELSE AfterControl(t))
    /\ controlLock' = None
    /\ UNCHANGED <<target, targetsLock, call, sshTroubles>>

\* Mutant: the lock is not released.
ConnectControlFails_KeepsLock(t) ==
    /\ pc[t] = "connect"
    /\ Trouble
    /\ IF t = Keepalive THEN Goes(t, "sleep") /\ UNCHANGED <<call, held>>
                         ELSE Errs(t) \/ StartsFallbacks(t)
    /\ UNCHANGED <<pool, locks, net>>

\* The connection is refused or times out: the exception leaves the lock.
ConnectControlFails(t) ==
    /\ pc[t] = "connect"
    /\ Trouble
    /\ IF t = Keepalive THEN Goes(t, "sleep") /\ UNCHANGED <<call, held>>
                         ELSE Errs(t) \/ StartsFallbacks(t)
    /\ controlLock' = None
    /\ UNCHANGED <<pool, targetsLock, net>>

\* The wait between two rounds is over, or close() has ended it.
KeepaliveRound ==
    /\ pc[Keepalive] = "sleep"
    /\ Goes(Keepalive, IF pc[MainThread] = "sleep" THEN "lock" ELSE "stopped")
    /\ UNCHANGED <<pool, locks, net, call, held, sshTroubles>>

(* ---------------------------- _connect_target --------------------------- *)

LockTargets(c) ==
    /\ pc[c] = "tlock"
    /\ targetsLock = None
    /\ Holds(c, target)
    /\ Goes(c, IF target = None THEN "lock" ELSE "ttest")
    /\ targetsLock' = IF target = None THEN None ELSE c
    /\ UNCHANGED <<pool, controlLock, net, call, sshTroubles>>

TargetTestPasses(c) ==
    /\ pc[c] = "ttest"
    /\ Works(held[c])
    /\ Goes(c, "run")
    /\ targetsLock' = None
    /\ UNCHANGED <<pool, controlLock, net, call, held, sshTroubles>>

TargetTestFails(c) ==
    /\ pc[c] = "ttest"
    /\ IF Works(held[c]) THEN Trouble ELSE UNCHANGED sshTroubles
    /\ state' = Closed(held[c])
    /\ target' = None
    /\ Holds(c, None)
    /\ Goes(c, "lock")
    /\ targetsLock' = None
    /\ UNCHANGED <<control, controlLock, via, call>>

\* The channel is opened through the control client handed over before.
ConnectTarget(c) ==
    /\ pc[c] = "tunnel"
    /\ Works(held[c])
    /\ \E x \in Fresh : Opens(x, held[c]) /\ Holds(c, x)
    /\ Goes(c, "tstore")
    /\ UNCHANGED <<pool, locks, call, sshTroubles>>

\* No channel, no connection, or the password is refused.
ConnectTargetFails(c) ==
    /\ pc[c] = "tunnel"
    /\ IF Works(held[c]) THEN Trouble ELSE UNCHANGED sshTroubles
    /\ \/ Goes(c, AfterError(c)) /\ Holds(c, None) /\ UNCHANGED call
       \/ Works(held[c]) /\ StartsFallbacks(c)
    /\ UNCHANGED <<pool, locks, net>>

\* The last to connect is the one the cache keeps.
StoreTarget(c) ==
    /\ pc[c] = "tstore"
    /\ targetsLock = None
    /\ target' = held[c]
    /\ Goes(c, "run")
    /\ UNCHANGED <<control, locks, net, call, held, sshTroubles>>

(* ------------------------------ operations ------------------------------ *)

\* exec_on_jumpbox, the SFTP operations, exec_on_target.
Call(c, o) ==
    /\ pc[c] = "idle"
    /\ op' = [op EXCEPT ![c] = o]
    /\ Goes(c, IF o = "target" THEN "tlock" ELSE "lock")
    /\ UNCHANGED <<pool, locks, net, fallbacks, endless, held, sshTroubles>>

CommandStarts(c, never) ==
    /\ pc[c] = "run"
    /\ Works(held[c])
    /\ Goes(c, "wait")
    /\ endless' = IF never THEN endless \cup {c} ELSE endless
    /\ UNCHANGED <<pool, locks, net, op, fallbacks, held, sshTroubles>>

\* exec_command raises, or what follows the exit status does (a read times out).
CommandRaises(c) ==
    /\ pc[c] \in {"run", "wait"}
    /\ pc[c] = "wait" => c \notin endless
    /\ IF Works(held[c]) THEN Trouble ELSE UNCHANGED sshTroubles
    /\ Errs(c)
    /\ UNCHANGED <<pool, locks, net>>

\* The command ends, or its connection does: recv_exit_status is then -1.
CommandReturns(c) ==
    /\ pc[c] = "wait"
    /\ c \in endless => ~Works(held[c])
    /\ Returns(c)
    /\ UNCHANGED <<pool, locks, net, sshTroubles>>

\* Mutant: outside the lock.
ForgetControl_NoLock(c) ==
    /\ pc[c] = "drop"
    /\ control' = None
    /\ Returns(c)
    /\ UNCHANGED <<target, locks, net, sshTroubles>>

\* The except of exec_on_jumpbox forgets the control client, whichever it is
\* by now, and does not close it.
ForgetControl(c) ==
    /\ pc[c] = "drop"
    /\ controlLock = None
    /\ control' = None
    /\ Returns(c)
    /\ UNCHANGED <<target, locks, net, sshTroubles>>

\* The except of exec_on_target: the entry is popped before each fallback
\* password and once more when none is left.
ForgetTarget(c) ==
    /\ pc[c] \in {"repop", "pop"}
    /\ targetsLock = None
    /\ target' = None
    /\ \/ /\ pc[c] = "repop" /\ fallbacks[c] > 0
          /\ fallbacks' = [fallbacks EXCEPT ![c] = @ - 1]
          /\ Goes(c, "tlock")
          /\ Holds(c, None)
          /\ UNCHANGED <<op, endless>>
       \/ /\ pc[c] = "repop" /\ fallbacks[c] = 0
          /\ Goes(c, "pop")
          /\ Holds(c, None)
          /\ UNCHANGED call
       \/ /\ pc[c] = "pop"
          /\ Returns(c)
    /\ UNCHANGED <<control, locks, net, sshTroubles>>

(* -------------------------------- close() ------------------------------- *)

\* The keepalive is told to stop and waited for, at most 5 s.
CloseBegins ==
    /\ pc[MainThread] = "sleep"
    /\ Goes(MainThread, "closeTargets")
    /\ UNCHANGED <<pool, locks, net, call, held, sshTroubles>>

CloseTargets ==
    /\ pc[MainThread] = "closeTargets"
    /\ targetsLock = None
    /\ state' = Closed(target)
    /\ target' = None
    /\ Goes(MainThread, "closeControl")
    /\ UNCHANGED <<control, locks, via, call, held, sshTroubles>>

CloseControl ==
    /\ pc[MainThread] = "closeControl"
    /\ controlLock = None
    /\ state' = Closed(control)
    /\ control' = None
    /\ Goes(MainThread, "stopped")
    /\ UNCHANGED <<target, locks, via, call, held, sshTroubles>>

(* ---------------------------- specification ----------------------------- *)

TestsOrConnects(t) ==
    \/ ControlTestPasses(t)
    \/ ControlTestFails(t)
    \/ ConnectControl(t)
    \/ ConnectControlFails(t)

Locks(c) ==
    \/ LockControl(c)
    \/ LockTargets(c)
    \/ StoreTarget(c)
    \/ ForgetControl(c)
    \/ ForgetTarget(c)

Proceeds(c) ==
    \/ TestsOrConnects(c)
    \/ HandOverControl(c)
    \/ TargetTestPasses(c)
    \/ TargetTestFails(c)
    \/ ConnectTarget(c)
    \/ ConnectTargetFails(c)
    \/ \E never \in BOOLEAN : CommandStarts(c, never)
    \/ CommandRaises(c)
    \/ CommandReturns(c)

\* What its thread does once an operation was called.
CallerMoves(c) == Locks(c) \/ Proceeds(c)

Step ==
    \/ \E c \in Callers : \/ \E o \in Does[c] : Call(c, o)
                         \/ CallerMoves(c)
    \/ KeepaliveRound
    \/ LockControl(Keepalive)
    \/ TestsOrConnects(Keepalive)
    \/ CloseBegins
    \/ CloseTargets
    \/ CloseControl
    \/ \E x \in Clients : ConnectionDies(x)

Collects == \E x \in Clients : ClientCollected(x)

SshNext ==
    \/ Garbage = {} /\ Step
    \/ Collects

\* A lock that is let go again and again is got; a test, a connection and a
\* command that does end take a bounded time; the collector runs.
SshFairness ==
    /\ \A c \in Callers : SF_sshVars(Garbage = {} /\ CallerMoves(c))
    /\ SF_sshVars(Garbage = {} /\ TestsOrConnects(Keepalive))
    /\ WF_sshVars(Collects)

SshSpec == SshInit /\ [][SshNext]_sshVars /\ SshFairness

(* ------------------------------ properties ------------------------------ *)

\* A caller is never handed None, a client already closed or the client of
\* another: what _connect_jumpbox_control and _connect_target return has just
\* been tested or just been connected, whatever the keepalive, the failing
\* commands of the others and close() do to the attributes meanwhile.
HandedOutIsUsable ==
    [][\A c \in Callers :
          pc[c] \notin {"tunnel", "run"} /\ pc'[c] \in {"tunnel", "run"}
             => /\ held'[c] \in Clients
                /\ state'[held'[c]] \in {"open", "dead"}
                /\ held'[c] = IF pc'[c] = "tunnel" \/ op[c] # "target" THEN control' ELSE target']_sshVars

\* A short command returns, unless the remote command itself never ends: no
\* thread keeps a lock, whatever fails under it, and a command that hangs on
\* the jumpbox does not hold up the others.
CommandsReturn ==
    \A c \in Callers : pc[c] # "idle" ~> (pc[c] = "idle" \/ c \in endless)

=============================================================================
