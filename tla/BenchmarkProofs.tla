-------------------------- MODULE BenchmarkProofs --------------------------
(***************************************************************************)
(* Proofs about the sessions of Benchmark, for every number of sessions,   *)
(* iterations and warm-up iterations, every subset of the modes, with and  *)
(* without faults.                                                         *)
(*                                                                         *)
(* Neither PendingHeld nor NoZombie is inductive: who holds a session      *)
(* depends on how far its connect and its receives are.  Core says so: the *)
(* outstanding count is what is pending plus the handlers that have not    *)
(* passed their guard, one handler at most has seen zero and then it stays *)
(* zero, and from the completion of the connect until then the application *)
(* holds the session.  A process that has died takes no step.              *)
(***************************************************************************)
EXTENDS Benchmark, FiniteSetTheorems, TLAPS

CLabels == {"idle", "connected", "activate", "app", "guard", "fire", "handler"}
RLabels == {"idle", "packet", "sampled", "warm", "counted", "rearm", "guard", "fire", "handler"}

(* A handler is busy while it counts as an outstanding operation, and ends  *)
(* when it has seen the count at zero.                                      *)
Busy(t)   == pc[t] \notin {"idle", "fire", "handler"}
Ending(t) == pc[t] \in {"fire", "handler"}

One(b) == IF b THEN 1 ELSE 0

CoreType ==
    /\ m_pSession \subseteq Sessions /\ m_pLifecycleHold \subseteq Sessions
    /\ connectors \subseteq Sessions /\ user \subseteq Sessions
    /\ kernel \in [Sessions -> SUBSET {"connect", "recv"}]
    /\ m_OutstandingIoCount \in [Sessions -> Nat]
    /\ fired \subseteq Sessions /\ drained \subseteq Sessions /\ container \subseteq Sessions
    /\ todo \subseteq Used
    /\ mode \in {"seq", "multi", "rio", "client"}
    /\ how \in {"none", "early", "clean", "drain_timeout"}
    /\ pc \in [Threads -> CLabels \cup RLabels]
    /\ \A s \in Sessions : pc[<<s, "c">>] \in CLabels /\ pc[<<s, "r">>] \in RLabels

(* m_OutstandingIoCount counts what is pending and the handlers that have   *)
(* not passed their guard.                                                  *)
CountOf(s) ==
    m_OutstandingIoCount[s] = One("connect" \in kernel[s]) + One("recv" \in kernel[s])
                              + One(Busy(<<s, "c">>)) + One(Busy(<<s, "r">>))

(* Nothing is pending and nothing runs for a session; it is fresh as long   *)
(* as nothing has happened to it.                                           *)
Still(s) ==
    /\ kernel[s] = {} /\ m_OutstandingIoCount[s] = 0 /\ s \notin container
    /\ pc[<<s, "c">>] = "idle" /\ pc[<<s, "r">>] = "idle"

Fresh(s) == Still(s) /\ s \notin fired

(* The stages of a session: connect pending, OnConnected, receiving. *)
StageOf(s) ==
    /\ "connect" \in kernel[s] =>
         /\ kernel[s] = {"connect"} /\ s \in m_pSession /\ s \in m_pLifecycleHold
         /\ pc[<<s, "c">>] = "idle" /\ pc[<<s, "r">>] = "idle"
    /\ pc[<<s, "c">>] = "connected" => kernel[s] = {} /\ pc[<<s, "r">>] = "idle"
    /\ Busy(<<s, "r">>) /\ pc[<<s, "r">>] # "guard" => "recv" \notin kernel[s]

(* The end of a session: one thread has seen zero, and it stays zero. *)
EndOf(s) ==
    /\ Ending(<<s, "c">>) => m_OutstandingIoCount[s] = 0 /\ pc[<<s, "r">>] = "idle"
    /\ Ending(<<s, "r">>) => m_OutstandingIoCount[s] = 0 /\ pc[<<s, "c">>] = "idle"
    /\ s \in fired => m_OutstandingIoCount[s] = 0
    /\ pc[<<s, "c">>] = "handler" \/ pc[<<s, "r">>] = "handler" => s \in fired
    /\ s \in drained => s \in fired

(* The runner: sessions it has not reached are fresh; a clean return has    *)
(* drained them all.                                                        *)
RunInv ==
    /\ \A s \in Sessions : run \in {"off", "begin"} \/ s \notin Used => Fresh(s)
    /\ \A s \in Sessions : mode = "rio" => Still(s)
    /\ \A s \in todo : run = "connect" => Fresh(s)
    /\ run \in {"off", "begin"} => todo = {}
    /\ main = "start" => run = "off"
    /\ how # "none" => run = "returned"
    /\ how = "clean" => Used \subseteq drained
    /\ mode = "client" => how = "none"
    /\ mode = "client" => run \in {"off", "begin", "connect"}
    /\ mode # "client" => container = {}

(* Who holds a session whose connect has completed. *)
HolderOf(s) ==
    /\ mode \in {"seq", "multi"} /\ m_OutstandingIoCount[s] > 0 =>
         s \in user \/ (mode = "seq" /\ how # "none")
    /\ mode = "client" /\ ("recv" \in kernel[s] \/ Busy(<<s, "r">>))
                       /\ pc[<<s, "c">>] \notin {"activate", "app"} => s \in user
    /\ mode = "client" /\ s \in container /\ s \in fired =>
         pc[<<s, "c">>] = "handler" \/ pc[<<s, "r">>] = "handler"
    /\ mode = "client" /\ (pc[<<s, "c">>] = "fire" \/ pc[<<s, "r">>] = "fire") => s \notin fired

SessionInv(s) == CountOf(s) /\ StageOf(s) /\ EndOf(s) /\ HolderOf(s)

Core == CoreType /\ RunInv /\ \A s \in Sessions : SessionInv(s)

(* The inductive invariant: a process that has died takes no step, and what *)
(* its sessions promise has held up to then.                                *)
CoreInv == (failure = "none" => Core) /\ PendingHeld /\ NoZombie

USE DEF Threads, CLabels, RLabels

(* A thread is a session and a kind. *)
LEMMA ThreadPair ==
    ASSUME NEW t \in Threads
    PROVE  \E s \in Sessions, k \in {"c", "r"} : t = <<s, k>> /\ t[1] = s
OBVIOUS

(* The runner uses sessions of the service. *)
LEMMA UsedSessions == Used \subseteq Sessions
BY BenchmarkAssumption DEF Used

(* What a step leaves alone of a session. *)
SameSession(u) ==
    /\ kernel'[u] = kernel[u] /\ m_OutstandingIoCount'[u] = m_OutstandingIoCount[u]
    /\ pc'[<<u, "c">>] = pc[<<u, "c">>] /\ pc'[<<u, "r">>] = pc[<<u, "r">>]
    /\ u \in fired' <=> u \in fired
    /\ u \in drained' <=> u \in drained
    /\ u \in container' <=> u \in container
    /\ u \in m_pSession' <=> u \in m_pSession
    /\ u \in m_pLifecycleHold' <=> u \in m_pLifecycleHold
    /\ u \in user => u \in user'

(* A session nothing has happened to keeps its invariant.                   *)
LEMMA SameKeeps ==
    ASSUME NEW u \in Sessions, SameSession(u), mode' = mode, how' = how
    PROVE  (SessionInv(u) => SessionInv(u)') /\ (Fresh(u) => Fresh(u)') /\ (Still(u) => Still(u)')
<1> USE DEF SameSession
<1>1. Busy(<<u, "c">>)' = Busy(<<u, "c">>) /\ Busy(<<u, "r">>)' = Busy(<<u, "r">>)
  BY DEF Busy
<1>2. CountOf(u) => CountOf(u)'
  BY <1>1 DEF CountOf
<1>3. StageOf(u) => StageOf(u)'
  BY <1>1 DEF StageOf
<1>4. EndOf(u) => EndOf(u)'
  BY DEF EndOf, Ending
<1>5. HolderOf(u) => HolderOf(u)'
  BY <1>1 DEF HolderOf
<1>6. (Fresh(u) => Fresh(u)') /\ (Still(u) => Still(u)')
  BY DEF Fresh, Still
<1> QED
  BY <1>2, <1>3, <1>4, <1>5, <1>6 DEF SessionInv

(* A step of one session that Connect has reached. *)
LEMMA SessionStep ==
    ASSUME Core, NEW s \in Sessions, ~Still(s), CoreType', SessionInv(s)',
           \A u \in Sessions \ {s} : SameSession(u),
           UNCHANGED <<run, todo, how, mode, main>>, drained \subseteq drained',
           mode # "client" => container' = container
    PROVE  Core'
<1>1. \A u \in Sessions \ {s} : SessionInv(u)'
  BY SameKeeps DEF Core
<1>2. \A u \in Sessions \ {s} : (Fresh(u) => Fresh(u)') /\ (Still(u) => Still(u)')
  BY SameKeeps
<1>3. Used' = Used
  BY DEF Used, Multi
<1>4. RunInv'
  <2>1. RunInv /\ CoreType /\ ~Fresh(s)
    BY DEF Core, Fresh
  <2>2. /\ \A u \in Sessions : run \in {"off", "begin"} \/ u \notin Used => Fresh(u)'
        /\ \A u \in Sessions : mode = "rio" => Still(u)'
    BY <1>2, <2>1 DEF RunInv
  <2>3. \A u \in todo : run = "connect" => Fresh(u)'
    BY <1>2, <2>1, UsedSessions DEF RunInv, CoreType
  <2>4. run \in {"off", "begin"} => todo = {}
    BY <2>1 DEF RunInv
  <2> QED
    BY <1>3, <2>1, <2>2, <2>3, <2>4 DEF RunInv
<1> QED
  BY <1>1, <1>4 DEF Core

(* A step that leaves every session alone and moves the runner on. *)
LEMMA QuietStep ==
    ASSUME Core, UNCHANGED <<connVars, appHolds, ioVars, fired, pc, container, drained, mode>>,
           \/ UNCHANGED <<run, todo, how>>
           \/ /\ run \notin {"off", "begin", "returned"} /\ mode # "client" /\ how' = how
              /\ run' \notin {"off", "begin", "connect", "returned"} /\ todo' \subseteq Used,
           main' # "start" \/ (main' = main /\ run' = run)
    PROVE  Core'
<1> USE DEF connVars, appHolds, ioVars
<1>1. how' = how /\ Used' = Used
  BY DEF Used, Multi
<1>2. \A u \in Sessions : SameSession(u)
  BY DEF SameSession
<1>3. \A u \in Sessions : SessionInv(u)' /\ (Fresh(u) => Fresh(u)') /\ (Still(u) => Still(u)')
  BY <1>1, <1>2, SameKeeps DEF Core
<1>4. CoreType'
  BY <1>1 DEF Core, CoreType
<1>5. main' = "start" => main = "start" /\ run' = run
  OBVIOUS
<1>6. RunInv /\ mode' = mode /\ container' = container /\ drained' = drained
  BY DEF Core
<1>7. ASSUME UNCHANGED <<run, todo, how>> PROVE RunInv'
  <2>0. run' = run /\ todo' = todo /\ how' = how
    BY <1>7
  <2>1. /\ \A s \in Sessions : run' \in {"off", "begin"} \/ s \notin Used' => Fresh(s)'
        /\ \A s \in Sessions : mode' = "rio" => Still(s)'
    BY <1>1, <1>3, <1>6, <2>0 DEF RunInv
  <2>2. \A s \in todo : run = "connect" => Fresh(s)'
    <3>1. todo \subseteq Sessions
      BY UsedSessions DEF Core, CoreType
    <3> QED
      BY <1>3, <1>6, <3>1 DEF RunInv
  <2> QED
    BY <1>1, <1>5, <1>6, <2>0, <2>1, <2>2 DEF RunInv
<1>8. ASSUME run \notin {"off", "begin", "returned"}, mode # "client",
             run' \notin {"off", "begin", "connect", "returned"}
      PROVE  RunInv'
  BY <1>1, <1>3, <1>5, <1>6, <1>8 DEF RunInv
<1>9. RunInv'
  BY <1>7, <1>8
<1> QED
  BY <1>3, <1>4, <1>9 DEF Core

(* A step of one thread of a session: the other sessions stay as they are. *)
LEMMA OthersSame ==
    ASSUME CoreType, NEW s \in Sessions, NEW k \in {"c", "r"},
           NEW l, pc' = [pc EXCEPT ![<<s, k>>] = l],
           NEW u \in Sessions \ {s}
    PROVE  pc'[<<u, "c">>] = pc[<<u, "c">>] /\ pc'[<<u, "r">>] = pc[<<u, "r">>]
BY DEF CoreType

(* The packet handlers move a receiving thread on. *)
LEMMA PacketStep ==
    ASSUME Core, NEW s \in Sessions, NEW l \in {"sampled", "warm", "counted", "rearm"},
           pc[<<s, "r">>] \in {"packet", "sampled", "warm", "counted"},
           pc' = [pc EXCEPT ![<<s, "r">>] = l],
           UNCHANGED <<connVars, appHolds, ioVars, fired, container, drained, mode, run, todo, how, main>>
    PROVE  Core'
<1> USE DEF connVars, appHolds, ioVars
<1>0. CoreType /\ RunInv /\ SessionInv(s)
  BY DEF Core
<1>1. CoreType'
  BY <1>0 DEF CoreType, Used, Multi
<1>2. ~Still(s)
  BY DEF Still
<1>3. \A u \in Sessions \ {s} : SameSession(u)
  BY <1>0, OthersSame DEF SameSession
<1>4. pc'[<<s, "r">>] = l /\ pc'[<<s, "c">>] = pc[<<s, "c">>]
  BY <1>0 DEF CoreType
<1>5. SessionInv(s)'
  BY <1>0, <1>4 DEF SessionInv, CountOf, StageOf, EndOf, HolderOf, Busy, Ending
<1> QED
  BY <1>1, <1>2, <1>3, <1>5, SessionStep

(* ConnectEx has completed on a session that is held. *)
LEMMA ConnectDoneStep ==
    ASSUME Core, NEW s \in Sessions, ConnectDone(s), Held(s),
           UNCHANGED <<container, drained, mode, run, todo, how, main>>
    PROVE  Core'
<1> USE DEF connVars, appHolds
<1>0. CoreType /\ RunInv /\ SessionInv(s)
  BY DEF Core
<1>1. PICK l \in {"connected", "guard"} : pc' = [pc EXCEPT ![<<s, "c">>] = l]
  BY DEF ConnectDone, Goto
<1>2. /\ "connect" \in kernel[s] /\ kernel' = [kernel EXCEPT ![s] = @ \ {"connect"}]
      /\ UNCHANGED <<connVars, appHolds, m_OutstandingIoCount, fired>>
  BY DEF ConnectDone
<1>3. CoreType'
  BY <1>0, <1>1, <1>2 DEF CoreType, Used, Multi
<1>4. ~Still(s)
  BY <1>2 DEF Still
<1>5. \A u \in Sessions \ {s} : SameSession(u)
  BY <1>0, <1>1, <1>2, OthersSame DEF SameSession, CoreType
<1>6. /\ pc'[<<s, "c">>] = l /\ pc'[<<s, "r">>] = pc[<<s, "r">>]
      /\ kernel[s] = {"connect"} /\ kernel'[s] = {}
      /\ pc[<<s, "c">>] = "idle" /\ pc[<<s, "r">>] = "idle"
  BY <1>0, <1>1, <1>2 DEF CoreType, SessionInv, StageOf
<1>7. SessionInv(s)'
  BY <1>0, <1>2, <1>6 DEF SessionInv, CountOf, StageOf, EndOf, HolderOf, Busy, Ending, One
<1> QED
  BY <1>2, <1>3, <1>4, <1>5, <1>7, SessionStep

(* A receive has completed on a session that is held. *)
LEMMA RecvStep ==
    ASSUME Core, NEW s \in Sessions, NEW l \in {"packet", "guard"},
           "recv" \in kernel[s], pc[<<s, "r">>] = "idle",
           kernel' = [kernel EXCEPT ![s] = @ \ {"recv"}],
           pc' = [pc EXCEPT ![<<s, "r">>] = l],
           UNCHANGED <<connVars, appHolds, m_OutstandingIoCount, fired>>,
           UNCHANGED <<container, drained, mode, run, todo, how, main>>
    PROVE  Core'
<1> USE DEF connVars, appHolds
<1>0. CoreType /\ RunInv /\ SessionInv(s)
  BY DEF Core
<1>3. CoreType'
  BY <1>0 DEF CoreType, Used, Multi
<1>4. ~Still(s)
  BY DEF Still
<1>5. \A u \in Sessions \ {s} : SameSession(u)
  BY <1>0, OthersSame DEF SameSession, CoreType
<1>6. /\ pc'[<<s, "r">>] = l /\ pc'[<<s, "c">>] = pc[<<s, "c">>]
      /\ kernel[s] = {"recv"} /\ kernel'[s] = {}
  BY <1>0 DEF CoreType, SessionInv, StageOf
<1>7. SessionInv(s)'
  BY <1>0, <1>6 DEF SessionInv, CountOf, StageOf, EndOf, HolderOf, Busy, Ending, One
<1> QED
  BY <1>3, <1>4, <1>5, <1>7, SessionStep

(* OnConnected or the receive handler posts the next receive, or requests   *)
(* the disconnect.                                                          *)
LEMMA PostRecvStep ==
    ASSUME Core, NEW t \in Threads, PostRecv(t),
           UNCHANGED <<container, drained, mode, run, todo, how, main>>
    PROVE  Core'
<1> USE DEF connVars, appHolds, ioVars
<1>a. PICK s \in Sessions, k \in {"c", "r"} : t = <<s, k>> /\ t[1] = s
  BY ThreadPair
<1>0. CoreType /\ RunInv /\ SessionInv(s)
  BY DEF Core
<1>1. \/ k = "c" /\ pc[<<s, k>>] = "connected" /\ pc' = [pc EXCEPT ![<<s, k>>] = "activate"]
      \/ k = "r" /\ pc[<<s, k>>] = "rearm" /\ pc' = [pc EXCEPT ![<<s, k>>] = "guard"]
  BY <1>0, <1>a DEF PostRecv, Goto, CoreType
<1>2. /\ \/ /\ kernel' = [kernel EXCEPT ![s] = @ \cup {"recv"}]
            /\ m_OutstandingIoCount' = [m_OutstandingIoCount EXCEPT ![s] = @ + 1]
         \/ UNCHANGED ioVars
      /\ UNCHANGED <<connVars, appHolds, fired>>
  BY <1>a DEF PostRecv
<1>3. CoreType'
  <2>1. /\ kernel' \in [Sessions -> SUBSET {"connect", "recv"}]
        /\ m_OutstandingIoCount' \in [Sessions -> Nat]
    BY <1>0, <1>2 DEF CoreType
  <2>2. /\ pc' \in [Threads -> CLabels \cup RLabels]
        /\ \A u \in Sessions : pc'[<<u, "c">>] \in CLabels /\ pc'[<<u, "r">>] \in RLabels
    BY <1>0, <1>1 DEF CoreType
  <2> QED
    BY <1>0, <1>2, <2>1, <2>2 DEF CoreType, Used, Multi
<1>4. ~Still(s)
  BY <1>1 DEF Still
<1>5. \A u \in Sessions \ {s} : SameSession(u)
  <2> SUFFICES ASSUME NEW u \in Sessions \ {s} PROVE SameSession(u)
    OBVIOUS
  <2>1. pc'[<<u, "c">>] = pc[<<u, "c">>] /\ pc'[<<u, "r">>] = pc[<<u, "r">>]
    BY <1>0, <1>1, OthersSame
  <2>2. kernel'[u] = kernel[u] /\ m_OutstandingIoCount'[u] = m_OutstandingIoCount[u]
    BY <1>0, <1>2 DEF CoreType
  <2> QED
    BY <1>2, <2>1, <2>2 DEF SameSession
<1>6. "recv" \notin kernel[s] /\ "connect" \notin kernel[s]
  BY <1>0, <1>1 DEF SessionInv, StageOf, Busy
<1>7. /\ \/ "recv" \in kernel'[s] /\ m_OutstandingIoCount'[s] = m_OutstandingIoCount[s] + 1
         \/ "recv" \notin kernel'[s] /\ m_OutstandingIoCount'[s] = m_OutstandingIoCount[s]
      /\ "connect" \notin kernel'[s] /\ m_OutstandingIoCount[s] > 0
      /\ m_OutstandingIoCount'[s] > 0 /\ s \notin fired /\ ~Ending(<<s, "c">>) /\ ~Ending(<<s, "r">>)
  <2>1. m_OutstandingIoCount[s] \in Nat
    BY <1>0 DEF CoreType
  <2>2. m_OutstandingIoCount[s] > 0
    BY <1>0, <1>1, <1>6 DEF SessionInv, CountOf, One, Busy
  <2>3. s \notin fired /\ ~Ending(<<s, "c">>) /\ ~Ending(<<s, "r">>)
    BY <1>0, <2>2 DEF SessionInv, EndOf
  <2> QED
    BY <1>0, <1>2, <1>6, <2>1, <2>2, <2>3 DEF CoreType
<1>8. ASSUME k = "c" PROVE SessionInv(s)'
  <2>1. /\ pc[<<s, "c">>] = "connected" /\ pc'[<<s, "c">>] = "activate"
        /\ pc[<<s, "r">>] = "idle" /\ pc'[<<s, "r">>] = "idle"
    BY <1>0, <1>1, <1>8 DEF CoreType, SessionInv, StageOf
  <2> QED
    BY <1>0, <1>2, <1>6, <1>7, <2>1
       DEF SessionInv, CountOf, StageOf, EndOf, HolderOf, Busy, Ending, One
<1>9. ASSUME k = "r" PROVE SessionInv(s)'
  <2>1. /\ pc[<<s, "r">>] = "rearm" /\ pc'[<<s, "r">>] = "guard"
        /\ pc'[<<s, "c">>] = pc[<<s, "c">>] /\ pc[<<s, "c">>] # "connected"
    BY <1>0, <1>1, <1>9 DEF CoreType, SessionInv, StageOf
  <2> QED
    BY <1>0, <1>2, <1>6, <1>7, <2>1
       DEF SessionInv, CountOf, StageOf, EndOf, HolderOf, Busy, Ending, One
<1>10. SessionInv(s)'
  BY <1>8, <1>9
<1> QED
  BY <1>3, <1>4, <1>5, <1>10, SessionStep

(* NotifyActivationObserver: the connector lets the session go. *)
LEMMA ActivateStep ==
    ASSUME Core, NEW t \in Threads, Activate(t),
           UNCHANGED <<container, drained, mode, run, todo, how, main>>
    PROVE  Core'
<1> USE DEF connVars, appHolds, ioVars
<1>a. PICK s \in Sessions, k \in {"c", "r"} : t = <<s, k>> /\ t[1] = s
  BY ThreadPair
<1>0. CoreType /\ RunInv /\ SessionInv(s)
  BY DEF Core
<1>1. /\ k = "c" /\ pc[<<s, "c">>] = "activate"
      /\ pc' = [pc EXCEPT ![<<s, "c">>] = "app"]
  BY <1>0, <1>a DEF Activate, Goto, CoreType
<1>2. /\ m_pSession' = m_pSession \ {s} /\ m_pLifecycleHold' = m_pLifecycleHold \ {s}
      /\ UNCHANGED <<appHolds, ioVars, fired>>
  BY <1>a DEF Activate
<1>3. CoreType'
  BY <1>0, <1>1, <1>2 DEF CoreType, Used, Multi
<1>4. ~Still(s)
  BY <1>1 DEF Still
<1>5. \A u \in Sessions \ {s} : SameSession(u)
  BY <1>0, <1>1, <1>2, OthersSame DEF SameSession
<1>6. pc'[<<s, "c">>] = "app" /\ pc'[<<s, "r">>] = pc[<<s, "r">>] /\ "connect" \notin kernel[s]
  BY <1>0, <1>1 DEF CoreType, SessionInv, StageOf
<1>7. SessionInv(s)'
  BY <1>0, <1>1, <1>2, <1>6 DEF SessionInv, CountOf, StageOf, EndOf, HolderOf, Busy, Ending
<1> QED
  BY <1>2, <1>3, <1>4, <1>5, <1>7, SessionStep

(* ~IoCompletionGuard: the handler stops counting, and the last one of a    *)
(* requested disconnect goes on to fire.                                    *)
LEMMA GuardStep ==
    ASSUME Core, NEW t \in Threads, Guard(t),
           UNCHANGED <<container, drained, mode, run, todo, how, main>>
    PROVE  Core'
<1> USE DEF connVars, appHolds, ioVars
<1>a. PICK s \in Sessions, k \in {"c", "r"} : t = <<s, k>> /\ t[1] = s
  BY ThreadPair
<1>0. CoreType /\ RunInv /\ SessionInv(s)
  BY DEF Core
<1>1. PICK l \in {"idle", "fire"} : /\ pc[<<s, k>>] = "guard" /\ pc' = [pc EXCEPT ![<<s, k>>] = l]
                                    /\ l = "fire" => m_OutstandingIoCount[s] = 1
  BY <1>a DEF Guard, Goto
<1>2. /\ m_OutstandingIoCount' = [m_OutstandingIoCount EXCEPT ![s] = @ - 1]
      /\ UNCHANGED <<connVars, appHolds, kernel, fired>>
  BY <1>a DEF Guard
<1>3. m_OutstandingIoCount[s] \in Nat /\ m_OutstandingIoCount[s] > 0
  BY <1>0, <1>1 DEF CoreType, SessionInv, CountOf, Busy, One
<1>4. CoreType'
  <2>1. m_OutstandingIoCount' \in [Sessions -> Nat]
    BY <1>0, <1>2, <1>3 DEF CoreType
  <2>2. /\ pc' \in [Threads -> CLabels \cup RLabels]
        /\ \A u \in Sessions : pc'[<<u, "c">>] \in CLabels /\ pc'[<<u, "r">>] \in RLabels
    BY <1>0, <1>1 DEF CoreType
  <2> QED
    BY <1>0, <1>2, <2>1, <2>2 DEF CoreType, Used, Multi
<1>5. ~Still(s)
  BY <1>1 DEF Still
<1>6. \A u \in Sessions \ {s} : SameSession(u)
  <2> SUFFICES ASSUME NEW u \in Sessions \ {s} PROVE SameSession(u)
    OBVIOUS
  <2>1. pc'[<<u, "c">>] = pc[<<u, "c">>] /\ pc'[<<u, "r">>] = pc[<<u, "r">>]
    BY <1>0, <1>1, OthersSame
  <2>2. m_OutstandingIoCount'[u] = m_OutstandingIoCount[u]
    BY <1>0, <1>2 DEF CoreType
  <2> QED
    BY <1>2, <2>1, <2>2 DEF SameSession
<1>7. /\ m_OutstandingIoCount'[s] = m_OutstandingIoCount[s] - 1
      /\ s \notin fired /\ ~Ending(<<s, "c">>) /\ ~Ending(<<s, "r">>)
  BY <1>0, <1>2, <1>3 DEF SessionInv, EndOf, CoreType
<1>8. ASSUME k = "c" PROVE SessionInv(s)'
  <2>1. /\ pc[<<s, "c">>] = "guard" /\ pc'[<<s, "c">>] = l /\ pc'[<<s, "r">>] = pc[<<s, "r">>]
    BY <1>0, <1>1, <1>8 DEF CoreType
  <2>2. CountOf(s)' /\ StageOf(s)' /\ HolderOf(s)'
    BY <1>0, <1>2, <1>3, <1>7, <2>1
       DEF SessionInv, CountOf, StageOf, HolderOf, Busy, Ending, One
  <2>3. l = "fire" => pc[<<s, "r">>] = "idle"
    BY <1>0, <1>1, <1>7, <2>1 DEF SessionInv, CountOf, Busy, Ending, One
  <2>4. EndOf(s)'
    BY <1>0, <1>1, <1>2, <1>3, <1>7, <2>1, <2>3 DEF SessionInv, EndOf, Ending
  <2> QED
    BY <2>2, <2>4 DEF SessionInv
<1>9. ASSUME k = "r" PROVE SessionInv(s)'
  <2>1. /\ pc[<<s, "r">>] = "guard" /\ pc'[<<s, "r">>] = l /\ pc'[<<s, "c">>] = pc[<<s, "c">>]
    BY <1>0, <1>1, <1>9 DEF CoreType
  <2>2. CountOf(s)' /\ StageOf(s)' /\ HolderOf(s)'
    BY <1>0, <1>2, <1>3, <1>7, <2>1
       DEF SessionInv, CountOf, StageOf, HolderOf, Busy, Ending, One
  <2>3. l = "fire" => pc[<<s, "c">>] = "idle"
    BY <1>0, <1>1, <1>7, <2>1 DEF SessionInv, CountOf, Busy, Ending, One
  <2>4. EndOf(s)'
    BY <1>0, <1>1, <1>2, <1>3, <1>7, <2>1, <2>3 DEF SessionInv, EndOf, Ending
  <2> QED
    BY <2>2, <2>4 DEF SessionInv
<1>10. SessionInv(s)'
  BY <1>8, <1>9
<1> QED
  BY <1>2, <1>4, <1>5, <1>6, <1>10, SessionStep

(* TryFireOnDisconnected: the thread that saw the count at zero calls       *)
(* OnDisconnected, once.                                                    *)
LEMMA FireStep ==
    ASSUME Core, NEW t \in Threads, Fire(t),
           UNCHANGED <<container, drained, mode, run, todo, how, main>>
    PROVE  Core'
<1> USE DEF connVars, appHolds, ioVars
<1>a. PICK s \in Sessions, k \in {"c", "r"} : t = <<s, k>> /\ t[1] = s
  BY ThreadPair
<1>0. CoreType /\ RunInv /\ SessionInv(s)
  BY DEF Core
<1>1. PICK l \in {"idle", "handler"} : /\ pc[<<s, k>>] = "fire" /\ pc' = [pc EXCEPT ![<<s, k>>] = l]
                                       /\ s \notin fired => l = "handler"
  BY <1>a DEF Fire, Goto
<1>2. /\ m_pSession' = m_pSession \ {s} /\ m_pLifecycleHold' = m_pLifecycleHold \ {s}
      /\ fired' = fired \cup {s} /\ UNCHANGED <<appHolds, ioVars>>
  BY <1>a DEF Fire
<1>3. CoreType'
  <2>2. /\ pc' \in [Threads -> CLabels \cup RLabels]
        /\ \A u \in Sessions : pc'[<<u, "c">>] \in CLabels /\ pc'[<<u, "r">>] \in RLabels
    BY <1>0, <1>1 DEF CoreType
  <2> QED
    BY <1>0, <1>2, <2>2 DEF CoreType, Used, Multi
<1>4. ~Still(s)
  BY <1>1 DEF Still
<1>5. \A u \in Sessions \ {s} : SameSession(u)
  BY <1>0, <1>1, <1>2, OthersSame DEF SameSession
<1>6. m_OutstandingIoCount[s] = 0
  BY <1>0, <1>1 DEF SessionInv, EndOf, Ending
<1>7. "connect" \notin kernel[s]
  BY <1>0, <1>1 DEF SessionInv, StageOf
<1>8. ASSUME k = "c" PROVE SessionInv(s)'
  <2>1. /\ pc[<<s, "c">>] = "fire" /\ pc'[<<s, "c">>] = l
        /\ pc[<<s, "r">>] = "idle" /\ pc'[<<s, "r">>] = "idle"
    BY <1>0, <1>1, <1>8 DEF CoreType, SessionInv, EndOf, Ending
  <2> QED
    BY <1>0, <1>1, <1>2, <1>6, <1>7, <2>1
       DEF SessionInv, CountOf, StageOf, EndOf, HolderOf, Busy, Ending
<1>9. ASSUME k = "r" PROVE SessionInv(s)'
  <2>1. /\ pc[<<s, "r">>] = "fire" /\ pc'[<<s, "r">>] = l
        /\ pc[<<s, "c">>] = "idle" /\ pc'[<<s, "c">>] = "idle"
    BY <1>0, <1>1, <1>9 DEF CoreType, SessionInv, EndOf, Ending
  <2> QED
    BY <1>0, <1>1, <1>2, <1>6, <1>7, <2>1
       DEF SessionInv, CountOf, StageOf, EndOf, HolderOf, Busy, Ending
<1>10. SessionInv(s)'
  BY <1>8, <1>9
<1> QED
  BY <1>2, <1>3, <1>4, <1>5, <1>10, SessionStep

(* The rest of OnConnected: FastPortClient takes hold of the session, in    *)
(* its container, while the handler still counts.                           *)
LEMMA OnConnectedStep ==
    ASSUME Core, NEW t \in Threads, OnConnected(t)
    PROVE  Core'
<1> USE DEF connVars, appHolds, ioVars, mainVars, runVars
<1>a. PICK s \in Sessions, k \in {"c", "r"} : t = <<s, k>> /\ t[1] = s
  BY ThreadPair
<1>0. CoreType /\ RunInv /\ SessionInv(s)
  BY DEF Core
<1>1. /\ k = "c" /\ pc[<<s, "c">>] = "app"
      /\ pc' = [pc EXCEPT ![<<s, "c">>] = "guard"]
  BY <1>0, <1>a DEF OnConnected, Goto, CoreType
<1>2. /\ UNCHANGED <<connVars, connectors, ioVars, fired, drained, mode, run, todo, how, main>>
      /\ \/ mode = "client" /\ container' = container \cup {s} /\ user' = user \cup {s}
         \/ mode # "client" /\ UNCHANGED <<container, user>>
  BY <1>a DEF OnConnected
<1>3. CoreType'
  <2>1. /\ pc' \in [Threads -> CLabels \cup RLabels]
        /\ \A u \in Sessions : pc'[<<u, "c">>] \in CLabels /\ pc'[<<u, "r">>] \in RLabels
    BY <1>0, <1>1 DEF CoreType
  <2>2. container' \subseteq Sessions /\ user' \subseteq Sessions
    BY <1>0, <1>2 DEF CoreType
  <2> QED
    BY <1>0, <1>2, <2>1, <2>2 DEF CoreType, Used, Multi
<1>4. ~Still(s)
  BY <1>1 DEF Still
<1>5. \A u \in Sessions \ {s} : SameSession(u)
  BY <1>0, <1>1, <1>2, OthersSame DEF SameSession
<1>6. pc'[<<s, "c">>] = "guard" /\ pc'[<<s, "r">>] = pc[<<s, "r">>] /\ "connect" \notin kernel[s]
  BY <1>0, <1>1 DEF CoreType, SessionInv, StageOf
<1>7. m_OutstandingIoCount[s] > 0 /\ s \notin fired /\ ~Ending(<<s, "r">>)
  <2>1. m_OutstandingIoCount[s] > 0
    BY <1>0, <1>1 DEF SessionInv, CountOf, Busy, One
  <2> QED
    BY <1>0, <2>1 DEF SessionInv, EndOf
<1>8. SessionInv(s)'
  <2>1. CountOf(s)' /\ StageOf(s)' /\ EndOf(s)'
    BY <1>0, <1>1, <1>2, <1>6, <1>7 DEF SessionInv, CountOf, StageOf, EndOf, Busy, Ending
  <2>2. mode = "client" => s \in user'
    BY <1>2
  <2>3. HolderOf(s)'
    BY <1>0, <1>1, <1>2, <1>6, <1>7, <2>2 DEF SessionInv, HolderOf, Busy
  <2> QED
    BY <2>1, <2>3 DEF SessionInv
<1> QED
  BY <1>2, <1>3, <1>4, <1>5, <1>8, SessionStep

(* The rest of OnDisconnected: the count is zero, FastPortClient lets the   *)
(* session go.                                                              *)
LEMMA OnDisconnectedStep ==
    ASSUME Core, NEW t \in Threads, OnDisconnected(t)
    PROVE  Core'
<1> USE DEF connVars, appHolds, ioVars, mainVars, runVars
<1>a. PICK s \in Sessions, k \in {"c", "r"} : t = <<s, k>> /\ t[1] = s
  BY ThreadPair
<1>0. CoreType /\ RunInv /\ SessionInv(s)
  BY DEF Core
<1>1. pc[<<s, k>>] = "handler" /\ pc' = [pc EXCEPT ![<<s, k>>] = "idle"]
  BY <1>a DEF OnDisconnected, Goto
<1>2. /\ UNCHANGED <<connVars, connectors, ioVars, fired, mode, run, todo, how, main>>
      /\ \/ /\ mode = "client" /\ container' = container \ {s} /\ user' = user \ {s}
            /\ drained' = drained
         \/ /\ mode # "client" /\ UNCHANGED <<container, user>>
            /\ drained' = drained \/ drained' = drained \cup {s}
  BY <1>a DEF OnDisconnected
<1>3. CoreType'
  <2>1. /\ pc' \in [Threads -> CLabels \cup RLabels]
        /\ \A u \in Sessions : pc'[<<u, "c">>] \in CLabels /\ pc'[<<u, "r">>] \in RLabels
    BY <1>0, <1>1 DEF CoreType
  <2>2. container' \subseteq Sessions /\ user' \subseteq Sessions /\ drained' \subseteq Sessions
    BY <1>0, <1>2 DEF CoreType
  <2> QED
    BY <1>0, <1>2, <2>1, <2>2 DEF CoreType, Used, Multi
<1>4. ~Still(s)
  BY <1>1 DEF Still
<1>5. \A u \in Sessions \ {s} : SameSession(u)
  <2> SUFFICES ASSUME NEW u \in Sessions \ {s} PROVE SameSession(u)
    OBVIOUS
  <2>1. pc'[<<u, "c">>] = pc[<<u, "c">>] /\ pc'[<<u, "r">>] = pc[<<u, "r">>]
    BY <1>0, <1>1, OthersSame
  <2>2. /\ u \in drained' <=> u \in drained
        /\ u \in container' <=> u \in container
        /\ u \in user => u \in user'
    BY <1>2
  <2> QED
    BY <1>2, <2>1, <2>2 DEF SameSession
<1>6. /\ m_OutstandingIoCount[s] = 0 /\ s \in fired
      /\ pc'[<<s, "c">>] = "idle" /\ pc'[<<s, "r">>] = "idle"
      /\ ~Busy(<<s, "c">>) /\ ~Busy(<<s, "r">>)
  BY <1>0, <1>1 DEF CoreType, SessionInv, EndOf, Ending, Busy
<1>7. kernel[s] = {}
  BY <1>0, <1>6 DEF CoreType, SessionInv, CountOf, One
<1>8. SessionInv(s)'
  <2>1. CountOf(s)' /\ StageOf(s)'
    BY <1>0, <1>2, <1>6, <1>7 DEF SessionInv, CountOf, StageOf, Busy
  <2>2. EndOf(s)'
    BY <1>2, <1>6 DEF EndOf, Ending
  <2>3. mode = "client" => s \notin container'
    BY <1>2
  <2>4. HolderOf(s)'
    BY <1>2, <1>6, <1>7, <2>3 DEF HolderOf, Busy
  <2> QED
    BY <2>1, <2>2, <2>4 DEF SessionInv
<1>9. drained \subseteq drained' /\ (mode # "client" => container' = container)
  BY <1>2
<1> QED
  BY <1>2, <1>3, <1>4, <1>5, <1>8, <1>9, SessionStep

(* DisconnectAndWaitDrain: the runner calls OnDisconnected itself when      *)
(* nothing is pending, and the session is then drained.                     *)
LEMMA DrainStep ==
    ASSUME Core, Drain
    PROVE  Core'
<1> USE DEF connVars, appHolds, ioVars, mainVars, runVars
<1>0. CoreType /\ RunInv
  BY DEF Core
<1>1. /\ run = "drain" /\ run' = "await" /\ todo' = todo
      /\ UNCHANGED <<connVars, appHolds, ioVars, pc, container, how, main, mode>>
  BY DEF Drain, At, Then
<1>2. PICK s \in todo : \/ UNCHANGED <<fired, drained>>
                        \/ /\ m_OutstandingIoCount[s] = 0
                           /\ fired' = fired \cup {s} /\ drained' = drained \cup {s}
  BY DEF Drain
<1>3. mode # "client" /\ how = "none" /\ s \in Used /\ s \in Sessions /\ Used' = Used /\ container = {}
  BY <1>0, <1>1, UsedSessions DEF RunInv, CoreType, Used, Multi
<1>4. \A u \in Sessions \ {s} : SameSession(u)
  <2> SUFFICES ASSUME NEW u \in Sessions \ {s} PROVE SameSession(u)
    OBVIOUS
  <2>1. (u \in fired' <=> u \in fired) /\ (u \in drained' <=> u \in drained)
    BY <1>2
  <2> QED
    BY <1>1, <2>1 DEF SameSession
<1>5. \A u \in Sessions \ {s} : SessionInv(u)' /\ (Fresh(u) => Fresh(u)')
  BY <1>1, <1>4, SameKeeps DEF Core
<1>6. \A u \in Sessions : Still(u) => Still(u)'
  BY <1>1 DEF Still
<1>7. SessionInv(s)'
  <2>1. SessionInv(s)
    BY <1>3 DEF Core
  <2>2. CountOf(s)' /\ StageOf(s)' /\ HolderOf(s)'
    BY <1>1, <1>3, <2>1 DEF SessionInv, CountOf, StageOf, HolderOf, Busy
  <2>3. EndOf(s)'
    BY <1>1, <1>2, <2>1 DEF SessionInv, EndOf, Ending
  <2> QED
    BY <2>2, <2>3 DEF SessionInv
<1>8. RunInv'
  <2>1. \A u \in Sessions : u \notin Used => Fresh(u)'
    BY <1>0, <1>3, <1>5 DEF RunInv
  <2>2. \A u \in Sessions : mode = "rio" => Still(u)'
    BY <1>0, <1>6 DEF RunInv
  <2>3. main # "start"
    BY <1>0, <1>1 DEF RunInv
  <2> QED
    BY <1>1, <1>3, <2>1, <2>2, <2>3 DEF RunInv
<1>9. CoreType'
  <2>1. fired' \subseteq Sessions /\ drained' \subseteq Sessions
    BY <1>0, <1>2, <1>3 DEF CoreType
  <2> QED
    BY <1>0, <1>1, <1>3, <2>1 DEF CoreType
<1> QED
  BY <1>5, <1>7, <1>8, <1>9 DEF Core

(* The runner's function returns: a client's never does, and the sessions   *)
(* of multi are held by their handlers.                                     *)
LEMMA ReturnStep ==
    ASSUME Core, NEW h \in {"early", "clean", "drain_timeout"}, Return(h),
           run \notin {"off", "begin"}, mode # "client",
           h = "clean" => Used \subseteq drained,
           UNCHANGED <<container, drained>>
    PROVE  Core'
<1> USE DEF connVars, ioVars, mainVars
<1>0. CoreType /\ RunInv
  BY DEF Core
<1>1. /\ run' = "returned" /\ todo' = {} /\ how' = h /\ connectors' = {}
      /\ mode = "multi" => user' = user
      /\ user' \subseteq user
      /\ UNCHANGED <<connVars, ioVars, fired, pc, container, drained, main, mode>>
  BY DEF Return, Multi
<1>2. Used' = Used
  BY <1>1 DEF Used, Multi
<1>3. \A u \in Sessions : SessionInv(u)'
  <2> SUFFICES ASSUME NEW u \in Sessions PROVE SessionInv(u)'
    OBVIOUS
  <2>1. SessionInv(u)
    BY DEF Core
  <2>2. CountOf(u)' /\ StageOf(u)' /\ EndOf(u)'
    BY <1>1, <2>1 DEF SessionInv, CountOf, StageOf, EndOf, Busy, Ending
  <2>3. how = "none" \/ mode # "multi" \/ user' = user
    BY <1>1
  <2>4. HolderOf(u)'
    BY <1>1, <2>1 DEF SessionInv, HolderOf
  <2> QED
    BY <2>2, <2>4 DEF SessionInv
<1>4. \A u \in Sessions : (Fresh(u) => Fresh(u)') /\ (Still(u) => Still(u)')
  BY <1>1 DEF Fresh, Still
<1>5. RunInv'
  <2>1. \A u \in Sessions : u \notin Used => Fresh(u)'
    BY <1>0, <1>4 DEF RunInv
  <2>2. \A u \in Sessions : mode = "rio" => Still(u)'
    BY <1>0, <1>4 DEF RunInv
  <2>3. main # "start" /\ container = {}
    BY <1>0 DEF RunInv
  <2> QED
    BY <1>1, <1>2, <2>1, <2>2, <2>3 DEF RunInv
<1>6. CoreType'
  BY <1>0, <1>1 DEF CoreType
<1> QED
  BY <1>3, <1>5, <1>6 DEF Core

(* The runner starts: every session is fresh. *)
LEMMA StartStep ==
    ASSUME Core, Start
    PROVE  Core'
<1> USE DEF outVars, connVars, appHolds, ioVars, flagVars
<1>0. CoreType /\ RunInv
  BY DEF Core
<1>1. /\ main = "start" /\ main' = "wait" /\ run' = "begin"
      /\ UNCHANGED <<connVars, appHolds, ioVars, fired, pc, container, drained, mode, todo, how>>
  BY DEF Start
<1>2. run = "off" /\ how = "none" /\ todo = {} /\ Used' = Used
  BY <1>0, <1>1 DEF RunInv, Used, Multi
<1>3. \A u \in Sessions : SameSession(u)
  BY <1>1 DEF SameSession
<1>4. \A u \in Sessions : SessionInv(u)' /\ (Fresh(u) => Fresh(u)') /\ (Still(u) => Still(u)')
  BY <1>1, <1>3, SameKeeps DEF Core
<1>5. RunInv'
  <2>1. \A u \in Sessions : Fresh(u)'
    BY <1>0, <1>2, <1>4 DEF RunInv
  <2>2. \A u \in Sessions : Still(u)'
    BY <2>1 DEF Fresh
  <2>3. mode # "client" => container = {}
    BY <1>0 DEF RunInv
  <2> QED
    BY <1>1, <1>2, <2>1, <2>2, <2>3 DEF RunInv
<1>6. CoreType'
  BY <1>0, <1>1, <1>2 DEF CoreType
<1> QED
  BY <1>4, <1>5, <1>6 DEF Core

(* The runner's first statement touches no session.                         *)
LEMMA BeginStep ==
    ASSUME Core, Begin
    PROVE  Core'
<1> USE DEF outVars, connVars, appHolds, ioVars, flagVars, mainVars
<1>0. CoreType /\ RunInv
  BY DEF Core
<1>1. /\ run = "begin" /\ run' = "connect" /\ todo' = Used
      /\ UNCHANGED <<connVars, appHolds, ioVars, fired, pc, container, drained, mode, main, how>>
  BY DEF Begin, At, Then
<1>2. how = "none" /\ Used' = Used /\ main # "start"
  BY <1>0, <1>1 DEF RunInv, Used, Multi
<1>3. \A u \in Sessions : SameSession(u)
  BY <1>1 DEF SameSession
<1>4. \A u \in Sessions : SessionInv(u)' /\ (Fresh(u) => Fresh(u)') /\ (Still(u) => Still(u)')
  BY <1>1, <1>3, SameKeeps DEF Core
<1>5. RunInv'
  <2>1. \A u \in Sessions : Fresh(u)'
    BY <1>0, <1>1, <1>4 DEF RunInv
  <2>2. \A u \in Sessions : Still(u)'
    BY <2>1 DEF Fresh
  <2>3. mode # "client" => container = {}
    BY <1>0 DEF RunInv
  <2> QED
    BY <1>1, <1>2, <2>1, <2>2, <2>3, UsedSessions DEF RunInv
<1>6. CoreType'
  BY <1>0, <1>1, <1>2 DEF CoreType
<1> QED
  BY <1>4, <1>5, <1>6 DEF Core

(* IOSocketConnector::Create for a session that is fresh. *)
LEMMA ConnectStep ==
    ASSUME Core, Connect
    PROVE  Core'
<1> USE DEF outVars, connVars, appHolds, ioVars, mainVars
<1>0. CoreType /\ RunInv
  BY DEF Core
<1>1. PICK s \in todo :
      \/ /\ mode # "rio" /\ ConnectPosted(s)
         /\ user' = IF mode = "client" THEN user ELSE user \cup {s}
         /\ connectors' = IF mode \in {"multi", "client"} THEN connectors \cup {s}
                          ELSE connectors
         /\ Then("connect", todo \ {s})
      \/ /\ mode # "rio" /\ ConnectRefused(s)
         /\ user' = IF mode = "client" THEN user ELSE user \cup {s}
         /\ Then(IF Multi THEN "throw" ELSE "connect", todo \ {s})
      \/ /\ ConnectNull(s)
         /\ Then(IF Multi THEN "throw" ELSE "connect", todo \ {s})
  BY DEF Connect
<1>2. /\ run = "connect" /\ UNCHANGED <<drained, container>>
      /\ run' = "connect" \/ (Multi /\ run' = "throw")
      /\ todo' = todo \ {s} /\ UNCHANGED <<how, main, mode, pc>>
  BY <1>1 DEF Connect, At, Then, ConnectPosted, ConnectRefused, ConnectNull
<1>3. /\ s \in Sessions /\ s \in Used /\ Fresh(s) /\ Used' = Used /\ how = "none" /\ main # "start"
      /\ todo \subseteq Used
  BY <1>0, <1>2, UsedSessions DEF RunInv, CoreType, Used, Multi
<1>4. /\ kernel[s] = {} /\ m_OutstandingIoCount[s] = 0 /\ s \notin container /\ s \notin fired
      /\ pc[<<s, "c">>] = "idle" /\ pc[<<s, "r">>] = "idle"
  BY <1>3 DEF Fresh, Still
<1>5. \/ /\ mode # "rio" /\ kernel' = [kernel EXCEPT ![s] = {"connect"}]
         /\ m_OutstandingIoCount' = [m_OutstandingIoCount EXCEPT ![s] = 1]
         /\ m_pSession' = m_pSession \cup {s} /\ m_pLifecycleHold' = m_pLifecycleHold \cup {s}
         /\ connectors' \subseteq connectors \cup {s}
         /\ fired' = fired
         /\ user \subseteq user' /\ user' \subseteq user \cup {s} /\ (mode # "client" => s \in user')
      \/ /\ mode # "rio" /\ fired' = fired \cup {s} /\ UNCHANGED <<connVars, connectors, ioVars>>
         /\ user \subseteq user' /\ user' \subseteq user \cup {s}
      \/ UNCHANGED <<connVars, connectors, ioVars, fired, user>>
  BY <1>1 DEF ConnectPosted, ConnectRefused, ConnectNull
<1>6. \A u \in Sessions \ {s} : SameSession(u)
  <2> SUFFICES ASSUME NEW u \in Sessions \ {s} PROVE SameSession(u)
    OBVIOUS
  <2>1. kernel'[u] = kernel[u] /\ m_OutstandingIoCount'[u] = m_OutstandingIoCount[u]
    BY <1>0, <1>5 DEF CoreType
  <2>2. /\ u \in fired' <=> u \in fired
        /\ u \in m_pSession' <=> u \in m_pSession
        /\ u \in m_pLifecycleHold' <=> u \in m_pLifecycleHold
        /\ u \in user => u \in user'
    BY <1>5
  <2> QED
    BY <1>2, <2>1, <2>2 DEF SameSession
<1>7. \A u \in Sessions \ {s} : SessionInv(u)' /\ (Fresh(u) => Fresh(u)') /\ (Still(u) => Still(u)')
  BY <1>2, <1>6, SameKeeps DEF Core
<1>8. SessionInv(s)'
  <2>1. SessionInv(s)
    BY <1>3 DEF Core
  <2>2. ~Busy(<<s, "c">>)' /\ ~Busy(<<s, "r">>)' /\ ~Ending(<<s, "c">>)' /\ ~Ending(<<s, "r">>)'
    BY <1>2, <1>4 DEF Busy, Ending
  <2>3. ASSUME kernel'[s] = {"connect"}, m_OutstandingIoCount'[s] = 1, s \in m_pSession',
               s \in m_pLifecycleHold', fired' = fired, mode # "client" => s \in user'
        PROVE  SessionInv(s)'
    BY <1>2, <1>4, <2>1, <2>2, <2>3 DEF SessionInv, CountOf, StageOf, EndOf, HolderOf, One
  <2>4. ASSUME kernel'[s] = kernel[s], m_OutstandingIoCount'[s] = 0
        PROVE  SessionInv(s)'
    BY <1>2, <1>4, <2>1, <2>2, <2>4 DEF SessionInv, CountOf, StageOf, EndOf, HolderOf, One
  <2>5. \/ /\ kernel'[s] = {"connect"} /\ m_OutstandingIoCount'[s] = 1 /\ s \in m_pSession'
           /\ s \in m_pLifecycleHold' /\ fired' = fired /\ (mode # "client" => s \in user')
        \/ kernel'[s] = kernel[s] /\ m_OutstandingIoCount'[s] = 0
    BY <1>0, <1>3, <1>4, <1>5 DEF CoreType
  <2> QED
    BY <2>3, <2>4, <2>5
<1>9. RunInv'
  <2>1. \A u \in Sessions : u \notin Used => Fresh(u)'
    BY <1>0, <1>3, <1>7 DEF RunInv
  <2>2. \A u \in todo' : Fresh(u)'
    BY <1>0, <1>2, <1>3, <1>7, UsedSessions DEF RunInv
  <2>3. mode = "rio" => Still(s)'
    BY <1>2, <1>4, <1>5 DEF Still
  <2>4. \A u \in Sessions : mode = "rio" => Still(u)'
    BY <1>0, <1>7, <2>3 DEF RunInv
  <2>5. mode # "client" => container = {}
    BY <1>0 DEF RunInv
  <2>6. mode = "client" => run' = "connect"
    BY <1>2 DEF Multi
  <2> QED
    BY <1>2, <1>3, <2>1, <2>2, <2>4, <2>5, <2>6 DEF RunInv
<1>10. CoreType'
  <2>1. /\ kernel' \in [Sessions -> SUBSET {"connect", "recv"}]
        /\ m_OutstandingIoCount' \in [Sessions -> Nat]
    BY <1>0, <1>5 DEF CoreType
  <2>2. /\ m_pSession' \subseteq Sessions /\ m_pLifecycleHold' \subseteq Sessions
        /\ connectors' \subseteq Sessions /\ user' \subseteq Sessions /\ fired' \subseteq Sessions
    BY <1>0, <1>3, <1>5 DEF CoreType
  <2> QED
    BY <1>0, <1>2, <1>3, <2>1, <2>2 DEF CoreType
<1> QED
  BY <1>7, <1>8, <1>9, <1>10 DEF Core

(* The statements of the runner between the connections and the drain: they *)
(* send and wait, and leave the sessions to the I/O threads.                *)
LEMMA RunnerSteps ==
    ASSUME Core,
           \/ Warmup \/ Running \/ Measure \/ Ask \/ AskOne \/ WaitOne \/ Results \/ Completed
           \/ AwaitDrain
    PROVE  Core'
<1> USE DEF outVars, mainVars
<1>0. CoreType /\ RunInv
  BY DEF Core
<1>1. /\ run \in {"warmup", "running", "measure", "ask", "wait", "results", "completed", "await"}
      /\ run' \in {"ask", "running", "measure", "wait", "results", "completed", "drain"}
      /\ UNCHANGED <<connVars, appHolds, ioVars, fired, pc, container, drained, mode, how, main>>
      /\ todo' \subseteq Used \cup todo
  <2>1. CASE Warmup
    BY <2>1 DEF Warmup, At, Then, RunnerOnly
  <2>2. CASE Running
    BY <2>2 DEF Running, At, Then, RunnerOnly
  <2>3. CASE Measure
    BY <2>3 DEF Measure, At, Then, RunnerOnly
  <2>4. CASE Ask
    BY <2>4 DEF Ask, At, Then, RunnerOnly
  <2>5. CASE AskOne
    BY <2>5 DEF AskOne, At, Then, RunnerOnly
  <2>6. CASE WaitOne
    BY <2>6 DEF WaitOne, At, Then, RunnerOnly
  <2>7. CASE Results
    BY <2>7 DEF Results, At, Then, RunnerOnly
  <2>8. CASE Completed
    BY <2>8 DEF Completed, At, Then, RunnerOnly
  <2>9. CASE AwaitDrain
    BY <2>9 DEF AwaitDrain, At, Then, RunnerOnly
  <2> QED
    BY <2>1, <2>2, <2>3, <2>4, <2>5, <2>6, <2>7, <2>8, <2>9
<1>2. mode # "client" /\ todo' \subseteq Used
  BY <1>0, <1>1 DEF RunInv, CoreType
<1>3. main' # "start"
  BY <1>0, <1>1 DEF RunInv
<1>4. /\ run \notin {"off", "begin", "returned"}
      /\ run' \notin {"off", "begin", "connect", "returned"}
      /\ how' = how
      /\ UNCHANGED <<connVars, appHolds, ioVars, fired, pc, container, drained, mode>>
  BY <1>1
<1> QED
  BY <1>2, <1>3, <1>4, QuietStep

(* The waits that end the runner's function early or let it go on. *)
LEMMA WaitSteps ==
    ASSUME Core, Throw \/ WaitConnected \/ WaitDone \/ Drained
    PROVE  Core'
<1> USE DEF flagVars
<1>0. CoreType /\ RunInv
  BY DEF Core
<1>1. CASE Throw
  <2>1. run = "throw" /\ Return("early") /\ UNCHANGED <<container, drained>>
    BY <1>1 DEF Throw, At
  <2>2. mode # "client"
    BY <1>0, <2>1 DEF RunInv
  <2> QED
    BY <2>1, <2>2, ReturnStep
<1>2. CASE Drained
  <2>1. PICK h \in {"clean", "drain_timeout"} :
           /\ run = "drain" /\ Return(h) /\ UNCHANGED <<container, drained>>
           /\ h = "clean" => Used \subseteq drained
    BY <1>2 DEF Drained, At
  <2>2. mode # "client"
    BY <1>0, <2>1 DEF RunInv
  <2> QED
    BY <2>1, <2>2, ReturnStep
<1>3. CASE WaitConnected
  <2>1. /\ run = "connect" /\ mode # "client" /\ UNCHANGED <<container, drained>>
        /\ Return("early") \/ (Then("warmup", Used) /\ UNCHANGED outVars)
    BY <1>3 DEF WaitConnected, At
  <2>2. CASE Return("early")
    BY <2>1, <2>2, ReturnStep
  <2>3. CASE Then("warmup", Used) /\ UNCHANGED outVars
    <3>1. main' # "start"
      BY <1>0, <2>1, <2>3 DEF RunInv, Then, mainVars
    <3>2. /\ run \notin {"off", "begin", "returned"}
          /\ run' \notin {"off", "begin", "connect", "returned"}
          /\ how' = how /\ todo' \subseteq Used
          /\ UNCHANGED <<connVars, appHolds, ioVars, fired, pc, container, drained, mode>>
      BY <2>1, <2>3 DEF Then, mainVars, outVars
    <3> QED
      BY <2>1, <3>1, <3>2, QuietStep
  <2> QED
    BY <2>1, <2>2, <2>3
<1>4. CASE WaitDone
  <2>1. /\ run = "ask" /\ UNCHANGED <<container, drained>>
        /\ \/ Return("early")
           \/ /\ run' \in {"results", "running"} /\ todo' = {} /\ UNCHANGED <<how, mainVars>>
              /\ UNCHANGED outVars
    BY <1>4 DEF WaitDone, At, Then
  <2>2. mode # "client" /\ main # "start"
    BY <1>0, <2>1 DEF RunInv
  <2>3. CASE Return("early")
    BY <2>1, <2>2, <2>3, ReturnStep
  <2>4. CASE run' \in {"results", "running"} /\ todo' = {} /\ UNCHANGED <<how, mainVars>>
             /\ UNCHANGED outVars
    <3>1. main' # "start"
      BY <2>2, <2>4 DEF mainVars
    <3>2. /\ run \notin {"off", "begin", "returned"}
          /\ run' \notin {"off", "begin", "connect", "returned"}
          /\ how' = how /\ todo' \subseteq Used
          /\ UNCHANGED <<connVars, appHolds, ioVars, fired, pc, container, drained, mode>>
      BY <2>1, <2>4 DEF mainVars, outVars
    <3> QED
      BY <2>2, <3>1, <3>2, QuietStep
  <2> QED
    BY <2>1, <2>3, <2>4
<1> QED
  BY <1>1, <1>2, <1>3, <1>4

(* The packet handlers: the thread counts until its guard. *)
LEMMA PacketSteps ==
    ASSUME Core, NEW t \in Threads,
           OnPacketReceived(t) \/ CountSample(t) \/ AskAgain(t) \/ Signal(t) \/ Echo(t)
    PROVE  Core'
<1>a. PICK s \in Sessions, k \in {"c", "r"} : t = <<s, k>> /\ t[1] = s
  BY ThreadPair
<1>0. CoreType
  BY DEF Core
<1>1. PICK l \in {"sampled", "warm", "counted", "rearm"} :
         /\ pc[t] \in {"packet", "sampled", "warm", "counted"} /\ pc' = [pc EXCEPT ![t] = l]
         /\ UNCHANGED <<connVars, appHolds, ioVars, fired, container, drained, mode, run, todo,
                        how, main>>
  <2> USE DEF HandlerStep, HandlerOnly, Goto, mainVars, runVars
  <2>1. CASE OnPacketReceived(t)
    BY <2>1 DEF OnPacketReceived
  <2>2. CASE CountSample(t)
    BY <2>2 DEF CountSample
  <2>3. CASE AskAgain(t)
    BY <2>3 DEF AskAgain
  <2>4. CASE Signal(t)
    BY <2>4 DEF Signal
  <2>5. CASE Echo(t)
    BY <2>5 DEF Echo
  <2> QED
    BY <2>1, <2>2, <2>3, <2>4, <2>5
<1>2. k = "r"
  BY <1>0, <1>1, <1>a DEF CoreType
<1> QED
  BY <1>1, <1>2, <1>a, PacketStep

(* A completion, or a response: the session is held, or it is freed and     *)
(* the process dies; its pending operation is gone then.                    *)
DiesOf(s) ==
    /\ kernel[s] # {} /\ failure' # "none"
    /\ kernel' = [kernel EXCEPT ![s] = kernel'[s]] /\ kernel'[s] \subseteq kernel[s]
    /\ UNCHANGED <<connVars, appHolds, fired, pc, container, mode, how, main>>

(* A completion, or a frame that arrives: the session keeps its invariant,  *)
(* or its memory is gone and the process dies.                              *)
LEMMA NetworkSteps ==
    ASSUME Core, NEW s \in Sessions, Network(s) \/ Response(s)
    PROVE  Core' \/ DiesOf(s)
<1>0. CoreType
  BY DEF Core
<1>1. UNCHANGED <<container, drained, mode, run, todo, how, main>>
  BY DEF Network, Response, AppUnchanged, HandlerOnly, mainVars, runVars, flagVars
<1>2. ASSUME ConnectDone(s) PROVE Core' \/ DiesOf(s)
  <2>1. CASE Held(s)
    BY <1>1, <1>2, <2>1, ConnectDoneStep
  <2>2. CASE ~Held(s)
    BY <1>0, <1>1, <1>2, <2>2 DEF ConnectDone, Freed, DiesOf, CoreType
  <2> QED
    BY <2>1, <2>2
<1>3. ASSUME RecvLost(s) PROVE Core' \/ DiesOf(s)
  <2>1. CASE Held(s)
    BY <1>1, <1>3, <2>1, RecvStep DEF RecvLost, Goto
  <2>2. CASE ~Held(s)
    BY <1>0, <1>1, <1>3, <2>2 DEF RecvLost, Freed, DiesOf, CoreType
  <2> QED
    BY <2>1, <2>2
<1>4. ASSUME RecvFrame(s) PROVE Core' \/ DiesOf(s)
  <2>1. CASE Held(s)
    BY <1>1, <1>4, <2>1, RecvStep DEF RecvFrame, Goto
  <2>2. CASE ~Held(s)
    BY <1>0, <1>1, <1>4, <2>2 DEF RecvFrame, Freed, DiesOf, CoreType
  <2> QED
    BY <2>1, <2>2
<1> QED
  BY <1>2, <1>3, <1>4 DEF Network, Response, Completion

(* A pending operation is held, and the container has no session that has   *)
(* ended, in every state of a live process.                                 *)
LEMMA CoreHolds == Core => PendingHeld /\ NoZombie
<1> SUFFICES ASSUME Core PROVE PendingHeld /\ NoZombie
  OBVIOUS
<1>0. CoreType /\ RunInv
  BY DEF Core
<1>1. ASSUME NEW s \in Sessions, kernel[s] # {}
      PROVE  Held(s) \/ (mode = "seq" /\ kernel[s] = {"recv"} /\ how \in {"early", "drain_timeout"})
  <2>0. SessionInv(s)
    BY DEF Core
  <2>1. CASE "connect" \in kernel[s]
    BY <2>0, <2>1 DEF SessionInv, StageOf, Held
  <2>2. CASE "connect" \notin kernel[s]
    <3>1. kernel[s] = {"recv"}
      BY <1>0, <1>1, <2>2 DEF CoreType
    <3>2. m_OutstandingIoCount[s] > 0
      BY <2>0, <2>2, <3>1 DEF SessionInv, CountOf, One
    <3>3. mode # "rio" /\ s \in Used
      BY <1>0, <1>1 DEF RunInv, Fresh, Still
    <3>4. how # "clean"
      BY <1>0, <2>0, <3>2, <3>3 DEF RunInv, SessionInv, EndOf
    <3>5. CASE mode = "client"
      <4>1. s \in user \/ pc[<<s, "c">>] \in {"activate", "app"}
        BY <2>0, <3>1, <3>5 DEF SessionInv, HolderOf
      <4> QED
        BY <4>1 DEF Held
    <3>6. CASE mode \in {"seq", "multi"}
      <4>1. s \in user \/ (mode = "seq" /\ how # "none")
        BY <2>0, <3>2, <3>6 DEF SessionInv, HolderOf
      <4>2. how \in {"none", "early", "clean", "drain_timeout"}
        BY <1>0 DEF CoreType
      <4> QED
        BY <3>1, <3>4, <4>1, <4>2 DEF Held
    <3> QED
      BY <1>0, <3>3, <3>5, <3>6 DEF CoreType
  <2> QED
    BY <2>1, <2>2
<1>2. ASSUME NEW s \in container, s \in fired
      PROVE  \E k \in {"c", "r"} : pc[<<s, k>>] # "idle"
  <2>1. mode = "client" /\ s \in Sessions
    BY <1>0 DEF RunInv, CoreType
  <2>2. pc[<<s, "c">>] = "handler" \/ pc[<<s, "r">>] = "handler"
    BY <1>2, <2>1 DEF Core, SessionInv, HolderOf
  <2> QED
    BY <2>2
<1> QED
  BY <1>1, <1>2 DEF PendingHeld, NoZombie

(* The same for the next state.                                             *)
LEMMA CoreHoldsNext == Core' => PendingHeld' /\ NoZombie'
BY CoreHolds, PTL

(* A session freed under a pending operation: the other sessions and their  *)
(* holders are as they were.                                                *)
LEMMA DiesKeeps ==
    ASSUME PendingHeld, NoZombie, CoreType, NEW s \in Sessions, DiesOf(s)
    PROVE  CoreInv'
<1> USE DEF connVars, appHolds
<1>1. /\ failure' # "none"
      /\ kernel' = [kernel EXCEPT ![s] = kernel'[s]] /\ kernel'[s] \subseteq kernel[s]
      /\ UNCHANGED <<m_pSession, m_pLifecycleHold, connectors, user, fired, pc, container, mode, how>>
  BY DEF DiesOf
<1>2. \A u \in Sessions : Held(u)' <=> Held(u)
  BY <1>1 DEF Held
<1>3. \A u \in Sessions : kernel'[u] \subseteq kernel[u]
  BY <1>1 DEF CoreType
<1>4. PendingHeld'
  <2> SUFFICES ASSUME NEW u \in Sessions, kernel'[u] # {}
               PROVE  Held(u)' \/ (mode = "seq" /\ kernel'[u] = {"recv"}
                                   /\ how \in {"early", "drain_timeout"})
    BY <1>1 DEF PendingHeld
  <2>1. kernel[u] # {} /\ kernel'[u] \subseteq kernel[u]
    BY <1>3
  <2>2. Held(u) \/ (mode = "seq" /\ kernel[u] = {"recv"} /\ how \in {"early", "drain_timeout"})
    BY <2>1 DEF PendingHeld
  <2> QED
    BY <1>2, <2>1, <2>2
<1>5. NoZombie'
  BY <1>1 DEF NoZombie
<1> QED
  BY <1>1, <1>4, <1>5 DEF CoreInv

(* A step of an I/O thread.                                                 *)
LEMMA IoSteps ==
    ASSUME Core, NEW t \in Threads, Io(t)
    PROVE  Core'
<1>1. CASE Handler(t) /\ AppUnchanged
  <2>1. UNCHANGED <<container, drained, mode, run, todo, how, main>>
    BY <1>1 DEF AppUnchanged, mainVars, runVars, flagVars
  <2> QED
    BY <1>1, <2>1, PostRecvStep, ActivateStep, GuardStep, FireStep DEF Handler
<1>2. CASE OnConnected(t)
  BY <1>2, OnConnectedStep
<1>3. CASE OnDisconnected(t)
  BY <1>3, OnDisconnectedStep
<1>4. CASE OnPacketReceived(t) \/ CountSample(t) \/ AskAgain(t) \/ Signal(t) \/ Echo(t)
  BY <1>4, PacketSteps
<1> QED
  BY <1>1, <1>2, <1>3, <1>4 DEF Io

(* A step of main.                                                          *)
LEMMA MainSteps ==
    ASSUME Core, Stop \/ Exit \/ (\E t \in Sessions \cup {"run"} : StoreState(t))
    PROVE  Core'
<1>1. /\ UNCHANGED <<connVars, appHolds, ioVars, fired, pc, container, drained, mode>>
      /\ UNCHANGED <<run, todo, how>>
      /\ main' # "start" \/ (main' = main /\ run' = run)
  <2> USE DEF outVars, runVars, mainVars, flagVars
  <2>1. CASE Stop
    BY <2>1 DEF Stop
  <2>2. CASE Exit
    BY <2>2 DEF Exit
  <2>3. CASE \E t \in Sessions \cup {"run"} : StoreState(t)
    BY <2>3 DEF StoreState
  <2> QED
    BY <2>1, <2>2, <2>3
<1> QED
  BY <1>1, QuietStep

(* A step of a process that has not failed keeps Core, or kills the process *)
(* over a session nobody holds.                                             *)
LEMMA LiveNext ==
    ASSUME Core, Next
    PROVE  Core' \/ \E s \in Sessions : DiesOf(s)
<1>1. CASE Start
  BY <1>1, StartStep
<1>2. CASE Stop \/ Exit \/ (\E t \in Sessions \cup {"run"} : StoreState(t))
  BY <1>2, MainSteps
<1>3. CASE Runner
  BY <1>3, BeginStep, ConnectStep, DrainStep, RunnerSteps, WaitSteps DEF Runner
<1>4. CASE \E t \in Threads : Io(t)
  BY <1>4, IoSteps
<1>5. CASE \E s \in Sessions : Network(s) \/ Response(s)
  BY <1>5, NetworkSteps
<1> QED
  BY <1>1, <1>2, <1>3, <1>4, <1>5 DEF Next

(* Nothing is pending before main starts the runner.                        *)
LEMMA CoreInit == Init => Core
<1> SUFFICES ASSUME Init PROVE Core
  OBVIOUS
<1> USE DEF Init, OutInit
<1>1. CoreType
  BY BenchmarkAssumption DEF CoreType
<1>2. \A s \in Sessions : Still(s) /\ Fresh(s)
  BY DEF Still, Fresh
<1>3. RunInv
  BY <1>2 DEF RunInv
<1>4. \A s \in Sessions : SessionInv(s)
  BY DEF SessionInv, CountOf, StageOf, EndOf, HolderOf, Busy, Ending, One
<1> QED
  BY <1>1, <1>3, <1>4 DEF Core

(* CoreInv is inductive.                                                    *)
LEMMA CoreNext ==
    ASSUME CoreInv, [Next]_vars
    PROVE  CoreInv'
<1> USE DEF vars, outVars, connVars, appHolds, mainVars, runVars, flagVars
<1>1. CASE failure = "none" /\ Next
  <2>1. Core' \/ \E s \in Sessions : DiesOf(s)
    BY <1>1, LiveNext DEF CoreInv
  <2>2. CASE Core'
    BY <2>2, CoreHoldsNext DEF CoreInv
  <2>3. CASE \E s \in Sessions : DiesOf(s)
    BY <1>1, <2>3, DiesKeeps DEF CoreInv, Core
  <2> QED
    BY <2>1, <2>2, <2>3
<1>2. ASSUME UNCHANGED <<m_pSession, m_pLifecycleHold, connectors, user, kernel, fired, pc, failure,
                         container, mode, how>>, failure # "none"
      PROVE  CoreInv'
  <2>1. \A u \in Sessions : Held(u)' <=> Held(u)
    BY <1>2 DEF Held
  <2>2. PendingHeld'
    BY <1>2, <2>1 DEF CoreInv, PendingHeld
  <2>3. NoZombie'
    BY <1>2 DEF CoreInv, NoZombie
  <2> QED
    BY <1>2, <2>2, <2>3 DEF CoreInv
<1>3. CASE failure # "none" /\ Next
  <2>1. Start
    BY <1>3 DEF Next, Stop, Exit, Runner, StoreState, Io, Network, Response, Alive, At,
                Begin, Connect, Throw, WaitConnected, Warmup, Running, Measure, Ask, WaitDone,
                AskOne, WaitOne, Results, Completed, Drain, AwaitDrain, Drained
  <2>2. UNCHANGED <<m_pSession, m_pLifecycleHold, connectors, user, kernel, fired, pc, failure,
                    container, mode, how>>
    BY <2>1 DEF Start, ioVars
  <2> QED
    BY <1>2, <1>3, <2>2
<1>4. CASE UNCHANGED vars
  <2>1. CASE failure = "none"
    <3>1. Core
      BY <2>1 DEF CoreInv
    <3>2. /\ UNCHANGED <<connVars, appHolds, ioVars, fired, pc, container, drained, mode>>
          /\ UNCHANGED <<run, todo, how>> /\ main' = main /\ run' = run
      BY <1>4
    <3>3. Core'
      BY <3>1, <3>2, QuietStep
    <3> QED
      BY <3>3, CoreHoldsNext DEF CoreInv
  <2>2. CASE failure # "none"
    BY <1>2, <1>4, <2>2 DEF ioVars
  <2> QED
    BY <2>1, <2>2
<1> QED
  BY <1>1, <1>3, <1>4

(* The inductive invariant holds of the benchmark and of FastPortClient. *)
THEOREM BenchmarkInvariant == Spec => []CoreInv
<1>1. Init => CoreInv
  BY CoreInit, CoreHolds DEF CoreInv
<1>2. CoreInv /\ [Next]_vars => CoreInv'
  BY CoreNext
<1> QED
  BY <1>1, <1>2, PTL DEF Spec

(* PendingHeld, for every number of sessions: the kernel never has a pending *)
(* ConnectEx or WSARecv of an OutboundSession that nobody holds, except in   *)
(* the sequential runner that gave up.                                       *)
THEOREM PendingIsHeld == Spec => []PendingHeld
<1>1. CoreInv => PendingHeld
  BY DEF CoreInv
<1> QED
  BY <1>1, BenchmarkInvariant, PTL

(* NoZombie, for every number of sessions: FastPortClient's container has no *)
(* session whose OnDisconnected is over.                                     *)
THEOREM NoZombieStays == Spec => []NoZombie
<1>1. CoreInv => NoZombie
  BY DEF CoreInv
<1> QED
  BY <1>1, BenchmarkInvariant, PTL
=============================================================================
