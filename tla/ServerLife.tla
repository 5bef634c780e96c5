----------------------------- MODULE ServerLife ----------------------------
(***************************************************************************)
(* The life of a server process: the hooks of IOCPServiceMode and of       *)
(* RIOServiceMode on top of ServiceMode, with the parts they start and     *)
(* stop: IOSocketAcceptor and its IOService workers, RIOService and its    *)
(* worker, SessionIdleChecker and StatsSampler on the timer queue, and the *)
(* admin handler that sessions reach through a global pointer.             *)
(*                                                                         *)
(* hook (ServiceMode) names the running hook and at its next statement.    *)
(* Workers take packets from the completion port one at a time: accepts,   *)
(* shutdown keys and, in the IOCP server, packets of sessions.  Sessions   *)
(* are counted only; IOSession and RIOSession model what they do.          *)
(***************************************************************************)
EXTENDS ServiceMode

CONSTANTS
    Modes,            \* the servers to start: subset of {"IOCP", "RIO"}
    Workers,          \* threads of the acceptor's IOService
    RioWorker,        \* the one thread of RIOService
    BeginAcceptCount,
    MaxConns,         \* bound: connection attempts
    MaxAdmin,         \* bound: admin requests
    MaxThrows         \* bound: hooks that throw

ASSUME LifeBounds ==
    /\ Modes \subseteq {"IOCP", "RIO"} /\ Modes # {}
    /\ IsFiniteSet(Workers) /\ RioWorker \notin Workers
    /\ {BeginAcceptCount, MaxConns, MaxAdmin, MaxThrows} \subseteq Nat

VARIABLES
    mode, at,
    has,              \* what the service mode owns (its non-null shared_ptrs)
    g_pAdminHandler,  \* the global pointer is set
    m_bExecuted, listening,
    m_Workers,        \* the threads IOService has to join
    tries,            \* initial accepts still to post
    posted, port,     \* AcceptEx calls in the kernel; the completion port
    lost,             \* accept slots that were not posted again
    m_bIsRunning,     \* of RIOService
    rioPackets,       \* admin packets in the RIO completion queue
    timers, ticking,  \* owners of armed timers; owners whose OnTick runs
    pc,               \* per worker
    sessions, conns, requests, throws,
    failure           \* how the process died

accVars  == <<m_bExecuted, listening, m_Workers, tries, posted, port, lost>>
rioVars  == <<m_bIsRunning, rioPackets>>
timeVars == <<timers, ticking>>
counts   == <<sessions, conns, requests>>
lifeVars == <<mode, has, g_pAdminHandler, accVars, rioVars, timeVars, pc, counts>>
vars     == <<svcVars, lifeVars, at, throws, failure>>

Threads == Workers \cup {RioWorker}

Init ==
    /\ SvcInit
    /\ mode \in Modes /\ at = "none" /\ has = {} /\ g_pAdminHandler = FALSE
    /\ m_bExecuted = FALSE /\ listening = FALSE /\ m_Workers = {}
    /\ tries = 0 /\ posted = 0 /\ port = <<>> /\ lost = 0
    /\ m_bIsRunning = FALSE /\ rioPackets = 0
    /\ timers = {} /\ ticking = {}
    /\ pc = [t \in Threads |-> "off"]
    /\ sessions = 0 /\ conns = 0 /\ requests = 0 /\ throws = 0
    /\ failure = "none"

Alive == failure = "none" /\ main # "exited"

(* The next statement of the running hook is l. *)
Step(l) == Alive /\ at = l
Then(l) == at' = l /\ UNCHANGED <<svcVars, mode, throws, failure, counts>>
OneOf(ok, bad) == IF Faults THEN {ok, bad} ELSE {ok}

-----------------------------------------------------------------------------
(* OnStarted.                                                              *)

(* RIO: extension table, completion queue, buffer pool; an early return    *)
(* leaves what was made so far.                                            *)
StartRio ==
    /\ Step("rio_init")
    /\ \E n \in IF Faults THEN 0..3 ELSE {3} :
          /\ has' = has \cup (IF n > 0 THEN {"rio"} ELSE {})
                        \cup (IF n > 1 THEN {"pool"} ELSE {})
          /\ Then(IF n = 3 THEN "service" ELSE "end")
    /\ UNCHANGED <<g_pAdminHandler, accVars, rioVars, timeVars, pc>>

AfterAcceptor == IF mode = "RIO" THEN "rio_start" ELSE "idle_start"

(* IOSocketAcceptor::Create, Start: the completion port and its workers.   *)
(* Without a port m_pService stays null and Create returns null.           *)
StartService ==
    /\ Step("service")
    /\ \/ /\ m_Workers' = Workers
          /\ pc' = [t \in Threads |-> IF t \in Workers THEN "wait" ELSE pc[t]]
          /\ Then("listen")
       \/ Faults /\ Then(AfterAcceptor) /\ UNCHANGED <<m_Workers, pc>>
    /\ UNCHANGED <<has, g_pAdminHandler, m_bExecuted, listening, tries, posted, port,
                   lost, rioVars, timeVars>>

(* ListenSocket; its failures end in Shutdown, of which the second of two  *)
(* calls finds nothing to do.                                              *)
ListenSocket ==
    /\ Step("listen")
    /\ \/ /\ listening' = TRUE /\ m_bExecuted' = TRUE /\ tries' = BeginAcceptCount
          /\ Then("accepts")
       \/ Faults /\ Then("stop") /\ UNCHANGED <<listening, m_bExecuted, tries>>
    /\ UNCHANGED <<has, g_pAdminHandler, m_Workers, posted, port, lost, rioVars,
                   timeVars, pc>>

(* BeginAcceptEx posts one more accept, or fails. *)
BeginAcceptEx ==
    \/ listening /\ posted' = posted + 1 /\ UNCHANGED lost
    \/ (~listening \/ Faults) /\ lost' = lost + 1 /\ UNCHANGED posted

PostInitial ==
    /\ Step("accepts") /\ tries > 0
    /\ BeginAcceptEx
    /\ tries' = tries - 1
    /\ Then("accepts")
    /\ UNCHANGED <<has, g_pAdminHandler, m_bExecuted, listening, m_Workers, port,
                   rioVars, timeVars, pc>>

StartAcceptor ==
    /\ Step("accepts") /\ tries = 0
    /\ has' = has \cup {"acceptor"}
    /\ Then(AfterAcceptor)
    /\ UNCHANGED <<g_pAdminHandler, accVars, rioVars, timeVars, pc>>

(* RIOService::Start(1). *)
RioStart ==
    /\ Step("rio_start")
    /\ m_bIsRunning' = TRUE
    /\ pc' = [pc EXCEPT ![RioWorker] = "wait"]
    /\ Then("sampler_start")
    /\ UNCHANGED <<has, g_pAdminHandler, accVars, rioPackets, timeVars>>

(* SessionIdleChecker::Start and StatsSampler::Start: m_Running, the timer, *)
(* m_TimerId; without a timer m_TimerId stays invalid.                      *)
StartTicks(l, owner, next) ==
    /\ Step(l)
    /\ has' = has \cup {owner}
    /\ timers' \in OneOf(timers \cup {owner}, timers)
    /\ Then(next)
    /\ UNCHANGED <<g_pAdminHandler, accVars, rioVars, ticking, pc>>

IdleStart == StartTicks("idle_start", "idle", "sampler_start")
SamplerStart == StartTicks("sampler_start", "sampler", "admin")

(* Collector and handler, then the global pointer. *)
StartAdmin ==
    /\ Step("admin")
    /\ has' = has \cup {"collector", "admin"}
    /\ g_pAdminHandler' = TRUE
    /\ Then("end")
    /\ UNCHANGED <<accVars, rioVars, timeVars, pc>>

-----------------------------------------------------------------------------
(* OnStopped and OnShutdown.                                               *)

ClearAdminNot ==
    /\ Step("clear")
    /\ Then("idle_stop")
    /\ UNCHANGED <<g_pAdminHandler, has, accVars, rioVars, timeVars, pc>>

ClearAdmin ==
    /\ Step("clear")
    /\ g_pAdminHandler' = FALSE
    /\ Then("idle_stop")
    /\ UNCHANGED <<has, accVars, rioVars, timeVars, pc>>

(* Stop of a checker or sampler: m_Running is cleared and the timer        *)
(* cancelled; Cancel returns when no callback of the timer runs any more.  *)
StopTicks(l, owner, next) ==
    /\ Step(l)
    /\ timers' = timers \ {owner}
    /\ Then(next)
    /\ UNCHANGED <<has, g_pAdminHandler, accVars, rioVars, ticking, pc>>

NotAwaited(owner) == TRUE

Awaited(owner) == owner \notin ticking

StopWait(l, owner, next, gone) ==
    /\ Step(l) /\ Awaited(owner)
    /\ has' = has \ gone
    /\ Then(next)
    /\ UNCHANGED <<g_pAdminHandler, accVars, rioVars, timeVars, pc>>

IdleStop == StopTicks("idle_stop", "idle", "idle_wait")
IdleReset == StopWait("idle_wait", "idle", "sampler_stop", {"idle"})
SamplerStop == StopTicks("sampler_stop", "sampler", "sampler_wait")
SamplerStopped == StopWait("sampler_wait", "sampler", "reset", {})

(* Handler, collector and sampler are released; then the two hooks of the  *)
(* two servers part.                                                       *)
ResetAdmin ==
    /\ Step("reset")
    /\ has' = has \ {"admin", "collector", "sampler"}
    /\ Then(CASE hook = "OnShutdown" /\ "acceptor" \in has -> "stop"
              [] hook = "OnStopped" /\ "rio" \in has -> "rio_stop"
              [] OTHER -> "end")
    /\ UNCHANGED <<g_pAdminHandler, accVars, rioVars, timeVars, pc>>

(* RIOService::Stop joins its worker; m_RioService.reset(). *)
RioStop ==
    /\ Step("rio_stop")
    /\ m_bIsRunning' = FALSE
    /\ Then("rio_join")
    /\ UNCHANGED <<has, g_pAdminHandler, accVars, rioPackets, timeVars, pc>>

RioJoin ==
    /\ Step("rio_join") /\ pc[RioWorker] = "off"
    /\ has' = has \ {"rio"}
    /\ Then("end")
    /\ UNCHANGED <<g_pAdminHandler, accVars, rioVars, timeVars, pc>>

(* IOSocketAcceptor::Shutdown: m_bExecuted, then IOService::Stop (one key  *)
(* per worker, join all), then the listener.                               *)
AcceptorStop ==
    /\ Step("stop")
    /\ m_bExecuted' = FALSE
    /\ Then("keys")
    /\ UNCHANGED <<has, g_pAdminHandler, listening, m_Workers, tries, posted, port,
                   lost, rioVars, timeVars, pc>>

OneKey == <<"key">>

Keys == [i \in 1..Cardinality(m_Workers) |-> "key"]

(* IOService::Stop ignores the result of PostQueuedCompletionStatus; here  *)
(* the call does not fail.                                                 *)
PostKeys ==
    /\ Step("keys")
    /\ port' = port \o Keys
    /\ Then("join")
    /\ UNCHANGED <<has, g_pAdminHandler, m_bExecuted, listening, m_Workers, tries,
                   posted, lost, rioVars, timeVars, pc>>

NotJoined == TRUE

Joined == \A t \in m_Workers : pc[t] = "off"

(* After the join the listener is closed (its accepts are aborted, nobody  *)
(* takes their completions) and the acceptor released.                     *)
JoinWorkers ==
    /\ Step("join") /\ Joined
    /\ m_Workers' = {} /\ listening' = FALSE /\ posted' = 0
    /\ has' = has \ {"acceptor"}
    /\ Then(IF hook = "OnStarted" THEN AfterAcceptor ELSE "end")
    /\ UNCHANGED <<g_pAdminHandler, m_bExecuted, tries, port, lost, rioVars, timeVars, pc>>

HookStep ==
    \/ StartRio \/ StartService \/ ListenSocket \/ PostInitial \/ StartAcceptor
    \/ RioStart \/ IdleStart \/ SamplerStart \/ StartAdmin
    \/ ClearAdmin \/ IdleStop \/ IdleReset \/ SamplerStop \/ SamplerStopped \/ ResetAdmin
    \/ RioStop \/ RioJoin \/ AcceptorStop \/ PostKeys \/ JoinWorkers

-----------------------------------------------------------------------------
(* The workers.                                                            *)

Goto(t, l) == pc' = [pc EXCEPT ![t] = l]
WorkerOnly == UNCHANGED <<svcVars, at, mode, has, g_pAdminHandler, m_bExecuted,
                          listening, m_Workers, tries, timeVars, throws, conns, requests>>

(* What a worker does with a packet.  IOService ends the worker on a       *)
(* connection-aborted completion as it does on a key; OnIOCompleted closes *)
(* the socket of a failed accept and goes on to the next accept.           *)
TakenReturns(k) ==
    CASE k \in {"key", "aborted"} -> "off" [] k = "accepted" -> "create"
      [] k = "failed" -> "wait" [] OTHER -> "load"

Taken(k) ==
    CASE k \in {"key", "aborted"} -> "off" [] k = "accepted" -> "create"
      [] k = "failed" -> "again" [] OTHER -> "load"

Dequeue(t) ==
    /\ Alive /\ pc[t] = "wait" /\ t \in Workers /\ port # <<>>
    /\ port' = Tail(port)
    /\ Goto(t, Taken(Head(port)))
    /\ lost' = IF Head(port) = "aborted" THEN lost + 1 ELSE lost
    /\ WorkerOnly /\ UNCHANGED <<posted, rioVars, sessions, failure>>

(* A context that cannot be updated ends the handler without a new accept. *)
UpdateAcceptContextFailed(t) ==
    /\ Alive /\ pc[t] = "create" /\ Faults
    /\ lost' = lost + 1
    /\ Goto(t, "wait")
    /\ WorkerOnly /\ UNCHANGED <<posted, port, rioVars, sessions, failure>>

(* The create callback (the one of the RIO server goes through             *)
(* m_RioService), Associate and OnAccepted.                                *)
CreateSession(t) ==
    /\ Alive /\ pc[t] = "create"
    /\ IF mode = "RIO" /\ "rio" \notin has
       THEN failure' = "null_RIOService" /\ UNCHANGED sessions
       ELSE sessions' = sessions + 1 /\ UNCHANGED failure
    /\ Goto(t, "again")
    /\ WorkerOnly /\ UNCHANGED <<posted, port, lost, rioVars>>

AcceptAgain(t) ==
    /\ Alive /\ pc[t] = "again"
    /\ IF m_bExecuted THEN BeginAcceptEx ELSE UNCHANGED <<posted, lost>>
    /\ Goto(t, "wait")
    /\ WorkerOnly /\ UNCHANGED <<port, rioVars, sessions, failure>>

(* OnPacketReceived loads the global pointer before it calls the handler. *)
LoadAdmin(t) ==
    /\ Alive /\ pc[t] = "load"
    /\ Goto(t, IF g_pAdminHandler THEN "handle" ELSE "wait")
    /\ WorkerOnly /\ UNCHANGED <<posted, port, lost, rioVars, sessions, failure>>

(* HandlePacket: a snapshot of the collector, then SendMessage. *)
HandleAdmin(t) ==
    /\ Alive /\ pc[t] = "handle"
    /\ failure' = IF "admin" \in has THEN failure ELSE "freed_handler"
    /\ Goto(t, "wait")
    /\ WorkerOnly /\ UNCHANGED <<posted, port, lost, rioVars, sessions>>

(* RIOService::WorkerLoop. *)
RioPoll ==
    /\ Alive /\ pc[RioWorker] = "wait"
    /\ IF ~m_bIsRunning THEN Goto(RioWorker, "off") /\ UNCHANGED rioPackets
       ELSE rioPackets > 0 /\ Goto(RioWorker, "load") /\ rioPackets' = rioPackets - 1
    /\ WorkerOnly /\ UNCHANGED <<posted, port, lost, m_bIsRunning, sessions, failure>>

Work(t) ==
    \/ Dequeue(t) \/ UpdateAcceptContextFailed(t) \/ CreateSession(t)
    \/ AcceptAgain(t) \/ LoadAdmin(t) \/ HandleAdmin(t)

-----------------------------------------------------------------------------
(* Timer callbacks, the network and the process.                           *)

TickBegin(c) ==
    /\ Alive /\ c \in timers \ ticking
    /\ ticking' = ticking \cup {c}
    /\ UNCHANGED <<svcVars, at, mode, has, g_pAdminHandler, accVars, rioVars, timers,
                   pc, counts, throws, failure>>

TickEnd(c) ==
    /\ Alive /\ c \in ticking
    /\ ticking' = ticking \ {c}
    /\ UNCHANGED <<svcVars, at, mode, has, g_pAdminHandler, accVars, rioVars, timers,
                   pc, counts, throws, failure>>

(* An AcceptEx completes: with a client, with an error, or aborted. *)
Connect ==
    /\ Alive /\ posted > 0 /\ conns < MaxConns
    /\ \E k \in {"accepted", "failed"} \cup (IF Faults THEN {"aborted"} ELSE {}) :
          port' = Append(port, k)
    /\ posted' = posted - 1
    /\ conns' = conns + 1
    /\ UNCHANGED <<svcVars, at, mode, has, g_pAdminHandler, m_bExecuted, listening,
                   m_Workers, tries, lost, rioVars, timeVars, pc, sessions, requests,
                   throws, failure>>

AdminRequest ==
    /\ Alive /\ sessions > 0 /\ requests < MaxAdmin
    /\ requests' = requests + 1
    /\ IF mode = "RIO" THEN rioPackets' = rioPackets + 1 /\ UNCHANGED port
       ELSE port' = Append(port, "admin") /\ UNCHANGED rioPackets
    /\ UNCHANGED <<svcVars, at, mode, has, g_pAdminHandler, m_bExecuted, listening,
                   m_Workers, tries, posted, lost, m_bIsRunning, timeVars, pc, sessions,
                   conns, throws, failure>>

FirstStep(h) ==
    CASE h = "OnStarted" -> (IF mode = "RIO" THEN "rio_init" ELSE "service")
      [] h \in {"OnStopped", "OnShutdown"} -> "clear"
      [] OTHER -> "end"

HookBegins(act) ==
    /\ Alive /\ act
    /\ at' = IF hook' = hook THEN at ELSE FirstStep(hook')
    /\ UNCHANGED <<lifeVars, throws, failure>>

StartOrControl ==
    \/ HookBegins(ServiceMain)
    \/ \E c \in {"STOP", "SHUTDOWN", "PAUSE", "CONTINUE"} : HookBegins(Control(c))

HookEnds ==
    /\ Step("end") /\ HookReturns
    /\ at' = "none"
    /\ UNCHANGED <<lifeVars, throws, failure>>

(* A throw inside the acceptor would destroy unjoined threads; it is left  *)
(* to the other statements.                                                *)
HookFails ==
    /\ Alive /\ throws < MaxThrows /\ HookThrows
    /\ at \notin {"listen", "accepts", "stop", "keys", "join", "rio_join"}
    /\ throws' = throws + 1
    /\ at' = "none"
    /\ UNCHANGED <<lifeVars, failure>>

Returns ==
    /\ Alive /\ DispatcherReturns
    /\ UNCHANGED <<lifeVars, at, throws, failure>>

(* The end of main: destructors stop the timers and RIOService; that of    *)
(* IOService has no Stop, and a joinable std::thread ends the process.     *)
ProcessExit ==
    /\ Alive /\ main = "returned" /\ ticking = {}
    /\ failure' = IF m_Workers = {} THEN failure ELSE "joinable_worker"
    /\ main' = "exited"
    /\ UNCHANGED <<installed, m_Status, dwOriginalState, hook, toolVars, at, lifeVars,
                   throws>>

Next ==
    \/ StartOrControl \/ HookStep \/ HookEnds \/ HookFails \/ Returns \/ ProcessExit
    \/ \E t \in Threads : Work(t)
    \/ RioPoll
    \/ \E c \in {"idle", "sampler"} : TickBegin(c) \/ TickEnd(c)
    \/ Connect \/ AdminRequest

Spec == Init /\ [][Next]_vars

(* The threads of the process run, and a timer callback ends.  Controls,   *)
(* clients and faults owe nothing.                                         *)
FairSpec ==
    /\ Spec
    /\ WF_vars(HookStep) /\ WF_vars(HookEnds)
    /\ WF_vars(Returns) /\ WF_vars(ProcessExit)
    /\ \A t \in Threads : WF_vars(Work(t))
    /\ WF_vars(RioPoll)
    /\ \A c \in {"idle", "sampler"} : WF_vars(TickEnd(c))

-----------------------------------------------------------------------------
TypeOK ==
    /\ m_Status \in Stable \cup Moving \cup {"STOPPED"} /\ hook \in Hooks \cup {"none"}
    /\ has \subseteq {"rio", "pool", "acceptor", "idle", "sampler", "collector", "admin"}
    /\ m_Workers \in {{}, Workers} /\ tries \in 0..BeginAcceptCount
    /\ posted \in 0..BeginAcceptCount /\ lost \in 0..BeginAcceptCount
    /\ timers \cup ticking \subseteq {"idle", "sampler"}
    /\ pc \in [Threads -> {"off", "wait", "create", "again", "load", "handle"}]

Accepting ==
    Cardinality({i \in DOMAIN port : port[i] \in {"accepted", "failed", "aborted"}})
      + Cardinality({t \in Workers : pc[t] \in {"create", "again"}})

(* The accept slots are conserved while the acceptor runs: each of the     *)
(* BeginAcceptCount is posted, completed and on its way to the next        *)
(* BeginAcceptEx, or was given up by one of the three failures the code    *)
(* logs.  A client that fails to connect costs no slot.                    *)
AcceptPool ==
    m_bExecuted => posted + Accepting + tries + lost = BeginAcceptCount

(* No worker outlives its acceptor: after a Start that failed half-way and *)
(* after Shutdown, every thread of the IOService has ended, whatever was   *)
(* queued at the port before the keys.                                     *)
WorkersOwned ==
    ("acceptor" \notin has /\ at \notin {"listen", "accepts", "stop", "keys", "join"})
        => \A t \in Workers : pc[t] = "off"

(* The global pointer is set only while the handler, the collector it      *)
(* refers to and the sampler the collector points to exist; also when a    *)
(* hook throws between two of its statements.                              *)
PointerValid ==
    g_pAdminHandler => {"admin", "collector", "sampler"} \subseteq has

(* OnTick runs only on a checker or sampler that still exists: Stop waits  *)
(* for the callback, and destruction follows Stop.                         *)
TickAlive == ticking \subseteq has

(* Every start and every control is answered: the hook ends with all       *)
(* threads it joins and all callbacks it waits for, and the service leaves *)
(* its pending state, unless the process dies.                             *)
Answered ==
    []<>((hook = "none" /\ m_Status \in Stable \cup {"STOPPED"}) \/ failure # "none")
=============================================================================
