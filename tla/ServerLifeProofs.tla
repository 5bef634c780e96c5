-------------------------- MODULE ServerLifeProofs -------------------------
(***************************************************************************)
(* Proofs about ServerLife, for both servers, every number of workers and  *)
(* initial accepts, and with calls that fail and hooks that throw: no      *)
(* accept slot is lost unnoticed, no worker outlives its acceptor, and     *)
(* neither the admin pointer nor a timer callback reaches a freed object.  *)
(***************************************************************************)
EXTENDS ServerLife, ServiceModeProofs, FiniteSetTheorems, FunctionTheorems

USE DEF accVars, rioVars, timeVars, counts, lifeVars

-----------------------------------------------------------------------------
(* The inductive strengthening. *)

Accepts3 == {"accepted", "failed", "aborted"}
Packets  == Accepts3 \cup {"admin", "key"}
Starting == {"rio_init", "service", "listen"}
Holding  == {"listen", "accepts", "stop", "keys", "join"}
Cleared  == {"idle_stop", "idle_wait", "sampler_stop", "sampler_wait", "reset"}

(* The types of what TypeOK leaves open. *)
LifeType ==
    /\ mode \in Modes
    /\ has \subseteq {"rio", "pool", "acceptor", "idle", "sampler", "collector", "admin"}
    /\ m_Workers \in {{}, Workers}
    /\ tries \in Nat /\ posted \in Nat /\ lost \in Nat /\ sessions \in Nat
    /\ port \in Seq(Packets)
    /\ timers \subseteq {"idle", "sampler"} /\ ticking \subseteq {"idle", "sampler"}
    /\ pc \in [Threads -> {"off", "wait", "create", "again", "load", "handle"}]
    /\ pc[RioWorker] \in {"off", "wait", "load", "handle"}

(* Until ListenSocket has succeeded there is nothing to accept with and    *)
(* nothing to accept.                                                      *)
FreshInv ==
    /\ hook = "none" => at = "none"
    /\ (main = "off" \/ at \in Starting) =>
          /\ posted = 0 /\ tries = 0 /\ lost = 0 /\ sessions = 0 /\ port = <<>>
          /\ m_bExecuted = FALSE
          /\ \A t \in Workers : pc[t] \in {"off", "wait"}

(* IOService has threads to join as long as the acceptor exists or one of  *)
(* its calls runs; a thread that is not off is one of them.                *)
OwnInv ==
    /\ "acceptor" \notin has /\ at \notin Holding => m_Workers = {}
    /\ m_Workers = {} => \A t \in Workers : pc[t] = "off"

(* The hooks clear the pointer before they release what it points to, and  *)
(* set it after they made it.                                              *)
PointerInv ==
    /\ PointerValid
    /\ at \in Cleared => g_pAdminHandler = FALSE
    /\ at = "admin" => "sampler" \in has

(* Stop cancels the timer and waits for its callback before the owner is   *)
(* released.                                                               *)
TickInv ==
    /\ timers \subseteq has /\ ticking \subseteq has
    /\ at = "idle_wait" => "idle" \notin timers
    /\ at \in {"sampler_wait", "reset"} => "sampler" \notin timers
    /\ at = "reset" => "sampler" \notin ticking

(* The slots are never more than BeginAcceptCount, and all of them are     *)
(* there until Shutdown clears m_bExecuted.                                *)
PoolInv ==
    /\ posted + Accepting + tries + lost <= BeginAcceptCount
    /\ AcceptPool
    /\ at \in {"keys", "join"} => m_bExecuted = FALSE

LifeInv ==
    SvcInv /\ LifeType /\ FreshInv /\ OwnInv /\ PointerInv /\ TickInv /\ PoolInv

(* Everything but the slots. *)
RestInv == SvcInv /\ LifeType /\ FreshInv /\ OwnInv /\ PointerInv /\ TickInv

-----------------------------------------------------------------------------
(* A step that leaves the service's own variables alone keeps what         *)
(* ServiceModeProofs shows of them.                                        *)
LEMMA SvcSame == SvcInv /\ UNCHANGED svcVars => SvcInv'
BY DEF SvcInv, SvcTypeOK, HookInv, Settled, ToolOK, Over, svcVars, toolVars

(* IOService::Stop posts one key per worker. *)
LEMMA KeysFacts ==
    ASSUME LifeType
    PROVE  /\ Keys \in Seq(Packets)
           /\ Len(Keys) \in Nat
           /\ \A i \in 1..Len(Keys) : Keys[i] = "key"
<1>1. IsFiniteSet(m_Workers)
  BY FS_EmptySet, LifeBounds DEF LifeType
<1>2. Cardinality(m_Workers) \in Nat
  BY <1>1, FS_CardinalityType
<1>3. QED
  BY <1>2 DEF Keys, Packets

(* A statement of OnStarted, OnStopped or OnShutdown keeps the invariants  *)
(* other than that of the slots.                                           *)
LEMMA HookKeeps == ASSUME LifeInv, HookStep PROVE RestInv'
<1> USE DEF LifeInv, RestInv, LifeType, FreshInv, OwnInv, PointerInv, PointerValid,
            TickInv, Starting, Holding, Cleared, Threads, Step, Then
<1>0. UNCHANGED svcVars
  BY DEF HookStep, StartRio, StartService, ListenSocket, PostInitial,
         StartAcceptor, RioStart, IdleStart, SamplerStart, StartAdmin,
         ClearAdmin, IdleStop, IdleReset, SamplerStop, SamplerStopped,
         ResetAdmin, RioStop, RioJoin, AcceptorStop, PostKeys, JoinWorkers,
         StartTicks, StopTicks, StopWait
<1>1. SvcInv' /\ main' = main /\ hook' = hook /\ (main = "off" => at = "none")
  BY <1>0, SvcSame DEF svcVars, SvcInv, HookInv
<1>2. CASE StartRio
  BY <1>1, LifeBounds, <1>2 DEF StartRio
<1>3. CASE StartService
  BY <1>1, LifeBounds, <1>3 DEF StartService, AfterAcceptor
<1>4. CASE ListenSocket
  <2>1. LifeType'
    BY <1>1, LifeBounds, <1>4 DEF ListenSocket
  <2>2. FreshInv'
    BY <1>1, LifeBounds, <1>4 DEF ListenSocket
  <2>3. OwnInv'
    BY <1>1, LifeBounds, <1>4 DEF ListenSocket
  <2>4. PointerInv' /\ TickInv'
    BY <1>1, LifeBounds, <1>4 DEF ListenSocket
  <2>5. QED
    BY <1>1, <2>1, <2>2, <2>3, <2>4
<1>5. CASE PostInitial
  BY <1>1, LifeBounds, <1>5 DEF PostInitial, BeginAcceptEx
<1>6. CASE StartAcceptor
  BY <1>1, LifeBounds, <1>6 DEF StartAcceptor, AfterAcceptor
<1>7. CASE RioStart
  BY <1>1, LifeBounds, <1>7 DEF RioStart
<1>8. CASE IdleStart
  BY <1>1, LifeBounds, <1>8 DEF IdleStart, StartTicks, OneOf
<1>9. CASE SamplerStart
  BY <1>1, LifeBounds, <1>9 DEF SamplerStart, StartTicks, OneOf
<1>10. CASE StartAdmin
  BY <1>1, LifeBounds, <1>10 DEF StartAdmin
<1>11. CASE ClearAdmin
  BY <1>1, LifeBounds, <1>11 DEF ClearAdmin
<1>12. CASE IdleStop
  BY <1>1, LifeBounds, <1>12 DEF IdleStop, StopTicks
<1>13. CASE IdleReset
  BY <1>1, LifeBounds, <1>13 DEF IdleReset, StopWait, Awaited
<1>14. CASE SamplerStop
  BY <1>1, LifeBounds, <1>14 DEF SamplerStop, StopTicks
<1>15. CASE SamplerStopped
  BY <1>1, LifeBounds, <1>15 DEF SamplerStopped, StopWait, Awaited
<1>16. CASE ResetAdmin
  BY <1>1, LifeBounds, <1>16 DEF ResetAdmin
<1>17. CASE RioStop
  BY <1>1, LifeBounds, <1>17 DEF RioStop
<1>18. CASE RioJoin
  BY <1>1, LifeBounds, <1>18 DEF RioJoin
<1>19. CASE AcceptorStop
  BY <1>1, LifeBounds, <1>19 DEF AcceptorStop
<1>20. CASE PostKeys
  <2>1. LifeType'
    BY <1>1, LifeBounds, <1>20, KeysFacts DEF PostKeys
  <2>2. FreshInv'
    BY <1>1, LifeBounds, <1>20, KeysFacts DEF PostKeys
  <2>3. OwnInv'
    BY <1>1, LifeBounds, <1>20, KeysFacts DEF PostKeys
  <2>4. PointerInv' /\ TickInv'
    BY <1>1, LifeBounds, <1>20, KeysFacts DEF PostKeys
  <2>5. QED
    BY <1>1, <2>1, <2>2, <2>3, <2>4
<1>21. CASE JoinWorkers
  BY <1>1, LifeBounds, <1>21 DEF JoinWorkers, Joined, AfterAcceptor
<1>22. QED
  BY <1>2, <1>3, <1>4, <1>5, <1>6, <1>7, <1>8, <1>9, <1>10, <1>11, <1>12,
     <1>13, <1>14, <1>15, <1>16, <1>17, <1>18, <1>19, <1>20, <1>21 DEF HookStep

(* What a worker does with a packet of the port or of the RIO completion   *)
(* queue keeps them.                                                       *)
LEMMA WorkKeeps == ASSUME LifeInv, NEW t \in Threads, Work(t) PROVE RestInv'
<1> USE DEF LifeInv, RestInv, LifeType, FreshInv, OwnInv, PointerInv, PointerValid,
            TickInv, Threads, Goto, WorkerOnly
<1>0. UNCHANGED svcVars
  BY DEF Work, Dequeue, UpdateAcceptContextFailed, CreateSession, AcceptAgain,
         LoadAdmin, HandleAdmin
<1>1. SvcInv' /\ main' = main /\ hook' = hook
  BY <1>0, SvcSame DEF svcVars
<1>2. CASE Dequeue(t)
  BY <1>1, LifeBounds, <1>2 DEF Dequeue, Taken, Packets, Accepts3
<1>3. CASE UpdateAcceptContextFailed(t)
  BY <1>1, LifeBounds, <1>3 DEF UpdateAcceptContextFailed
<1>4. CASE CreateSession(t)
  <2>1. LifeType'
    BY <1>1, LifeBounds, <1>4 DEF CreateSession
  <2>2. FreshInv'
    BY <1>1, LifeBounds, <1>4 DEF CreateSession
  <2>3. OwnInv'
    BY <1>1, LifeBounds, <1>4 DEF CreateSession
  <2>4. PointerInv' /\ TickInv'
    BY <1>1, LifeBounds, <1>4 DEF CreateSession
  <2>5. QED
    BY <1>1, <2>1, <2>2, <2>3, <2>4
<1>5. CASE AcceptAgain(t)
  BY <1>1, LifeBounds, <1>5 DEF AcceptAgain, BeginAcceptEx
<1>6. CASE LoadAdmin(t)
  BY <1>1, LifeBounds, <1>6 DEF LoadAdmin
<1>7. CASE HandleAdmin(t)
  BY <1>1, LifeBounds, <1>7 DEF HandleAdmin
<1>8. QED
  BY <1>2, <1>3, <1>4, <1>5, <1>6, <1>7 DEF Work

(* So do RIOService::WorkerLoop, the timer callbacks and the network. *)
LEMMA OutsideKeeps ==
    ASSUME LifeInv,
           \/ RioPoll \/ Connect \/ AdminRequest
           \/ \E c \in {"idle", "sampler"} : TickBegin(c) \/ TickEnd(c)
    PROVE  RestInv'
<1> USE DEF LifeInv, RestInv, LifeType, FreshInv, OwnInv, PointerInv, PointerValid,
            TickInv, Threads, Goto, WorkerOnly
<1>0. UNCHANGED svcVars
  BY DEF RioPoll, Connect, AdminRequest, TickBegin, TickEnd
<1>1. SvcInv' /\ main' = main /\ hook' = hook
  BY <1>0, SvcSame DEF svcVars
<1>2. CASE RioPoll
  BY <1>1, LifeBounds, <1>2 DEF RioPoll
<1>3. CASE Connect
  BY <1>1, LifeBounds, <1>3 DEF Connect, Packets, Accepts3
<1>4. CASE AdminRequest
  <2>1. LifeType'
    BY <1>4 DEF AdminRequest, Packets
  <2>2. FreshInv'
    BY <1>1, LifeBounds, <1>4 DEF AdminRequest, Packets
  <2>3. OwnInv'
    BY <1>1, LifeBounds, <1>4 DEF AdminRequest, Packets
  <2>4. PointerInv' /\ TickInv'
    BY <1>1, LifeBounds, <1>4 DEF AdminRequest, Packets
  <2>5. QED
    BY <1>1, <2>1, <2>2, <2>3, <2>4
<1>5. CASE \E c \in {"idle", "sampler"} : TickBegin(c) \/ TickEnd(c)
  <2>1. LifeType'
    BY <1>5 DEF TickBegin, TickEnd
  <2>2. FreshInv' /\ OwnInv'
    BY <1>1, <1>5 DEF TickBegin, TickEnd
  <2>3. PointerInv'
    BY <1>5 DEF TickBegin, TickEnd
  <2>4. TickInv'
    BY <1>5 DEF TickBegin, TickEnd
  <2>5. QED
    BY <1>1, <2>1, <2>2, <2>3, <2>4
<1>6. QED
  BY <1>2, <1>3, <1>4, <1>5

(* A hook begins at its first statement, and ends at its last or by a      *)
(* throw; then, or before the first, no statement runs.                    *)
LEMMA ServiceLifeKeeps ==
    ASSUME LifeInv, StartOrControl \/ HookEnds \/ HookFails \/ Returns \/ ProcessExit
    PROVE  RestInv'
<1> USE DEF LifeInv
<1>1. UNCHANGED lifeVars
  BY DEF StartOrControl, HookBegins, HookEnds, HookFails, Returns, ProcessExit
<1>2. LifeType'
  BY <1>1 DEF LifeType
<1>3. SvcInv' /\ (main' = "off" => main = "off")
  <2>1. CASE ServiceStep
    BY <2>1, ServiceKeeps DEF ServiceStep, ServiceMain, HookReturns, HookThrows,
       DispatcherReturns, Control, Deliver
  <2>2. CASE ProcessExit
    BY <2>2 DEF ProcessExit, SvcInv, SvcTypeOK, HookInv, Settled, ToolOK, Over, toolVars
  <2>3. QED
    BY <2>1, <2>2 DEF StartOrControl, HookBegins, HookEnds, HookFails, Returns, ServiceStep
<1> DEFINE Moves ==
        /\ at \notin Holding /\ at' \in {"rio_init", "service", "none", "clear", "end"}
        /\ at' \in {"rio_init", "service"} => main = "off"
        /\ hook' = "none" => at' = "none"
<1>4. Moves \/ UNCHANGED <<at, hook>>
  <2> USE DEF SvcInv, HookInv, FreshInv, Holding
  <2>1. CASE HookBegins(ServiceMain)
    BY <2>1 DEF HookBegins, ServiceMain, FirstStep
  <2>2. CASE \E c \in {"STOP", "SHUTDOWN", "PAUSE", "CONTINUE"} : HookBegins(Control(c))
    BY <2>2 DEF HookBegins, Control, Deliver, Deliverable, FirstStep
  <2>3. CASE HookEnds \/ HookFails
    BY <2>3 DEF HookEnds, HookFails, Step, HookReturns, HookThrows
  <2>4. CASE Returns \/ ProcessExit
    BY <2>4 DEF Returns, ProcessExit, DispatcherReturns
  <2>5. QED
    BY <2>1, <2>2, <2>3, <2>4 DEF StartOrControl
<1>5. FreshInv'
  BY <1>1, <1>3, <1>4 DEF FreshInv, Starting
<1>6. OwnInv'
  BY <1>1, <1>3, <1>4 DEF OwnInv, FreshInv, Holding
<1>7. PointerInv' /\ TickInv'
  BY <1>1, <1>4 DEF PointerInv, PointerValid, TickInv, Cleared
<1>8. QED
  BY <1>2, <1>3, <1>5, <1>6, <1>7 DEF RestInv

-----------------------------------------------------------------------------
(* Counting the slots. *)

InPort(s) == {i \in DOMAIN s : s[i] \in Accepts3}
Hands == {"create", "again"}
InHand == {t \in Workers : pc[t] \in Hands}

(* What Accepting adds up. *)
LEMMA AcceptingSum == Accepting = Cardinality(InPort(port)) + Cardinality(InHand)
BY DEF Accepting, InPort, InHand, Hands, Accepts3

(* Both summands are counts of finite sets. *)
LEMMA InPortFinite ==
    ASSUME NEW s \in Seq(Packets)
    PROVE  IsFiniteSet(InPort(s)) /\ Cardinality(InPort(s)) \in Nat
<1>1. InPort(s) \in SUBSET (1..Len(s)) /\ Len(s) \in Nat
  BY DEF InPort
<1>2. IsFiniteSet(1..Len(s))
  BY <1>1, FS_Interval
<1>3. IsFiniteSet(InPort(s))
  BY <1>1, <1>2, FS_Subset
<1>4. QED
  BY <1>3, FS_CardinalityType

(* The workers that hold an accept are finitely many. *)
LEMMA InHandFinite == IsFiniteSet(InHand) /\ Cardinality(InHand) \in Nat
<1>1. InHand \in SUBSET Workers
  BY DEF InHand
<1>2. QED
  BY <1>1, LifeBounds, FS_Subset, FS_CardinalityType

(* A packet is queued: an accept counts, an admin packet does not. *)
LEMMA PortAppend ==
    ASSUME NEW s \in Seq(Packets), NEW k \in Packets
    PROVE  Cardinality(InPort(Append(s, k))) =
             Cardinality(InPort(s)) + (IF k \in Accepts3 THEN 1 ELSE 0)
<1>1. /\ DOMAIN Append(s, k) = 1..(Len(s) + 1) /\ DOMAIN s = 1..Len(s) /\ Len(s) \in Nat
      /\ \A i \in 1..Len(s) : Append(s, k)[i] = s[i]
      /\ Append(s, k)[Len(s) + 1] = k
  OBVIOUS
<1>2. CASE k \in Accepts3
  <2>1. InPort(Append(s, k)) = InPort(s) \cup {Len(s) + 1} /\ Len(s) + 1 \notin InPort(s)
    BY <1>1, <1>2 DEF InPort
  <2>2. QED
    BY <1>2, <2>1, InPortFinite, FS_AddElement
<1>3. CASE k \notin Accepts3
  <2>1. InPort(Append(s, k)) = InPort(s)
    BY <1>1, <1>3 DEF InPort
  <2>2. QED
    BY <1>3, <2>1, InPortFinite
<1>4. QED
  BY <1>2, <1>3

(* The keys of IOService::Stop are no accepts. *)
LEMMA PortKeys ==
    ASSUME LifeType
    PROVE  Cardinality(InPort(port \o Keys)) = Cardinality(InPort(port))
<1>1. /\ DOMAIN (port \o Keys) = 1..(Len(port) + Len(Keys)) /\ DOMAIN port = 1..Len(port)
      /\ \A i \in 1..Len(port) : (port \o Keys)[i] = port[i]
      /\ \A i \in (Len(port) + 1)..(Len(port) + Len(Keys)) : (port \o Keys)[i] = "key"
      /\ Len(port) \in Nat /\ Len(Keys) \in Nat
  BY KeysFacts DEF LifeType
<1>2. "key" \notin Accepts3
  BY DEF Accepts3
<1>3. InPort(port \o Keys) = InPort(port)
  BY <1>1, <1>2 DEF InPort
<1>4. QED
  BY <1>3

(* GetQueuedCompletionStatus takes the first packet. *)
LEMMA PortTail ==
    ASSUME NEW s \in Seq(Packets), s # <<>>
    PROVE  Cardinality(InPort(s)) =
             Cardinality(InPort(Tail(s))) + (IF Head(s) \in Accepts3 THEN 1 ELSE 0)
<1>1. /\ DOMAIN Tail(s) = 1..(Len(s) - 1) /\ DOMAIN s = 1..Len(s) /\ Len(s) \in Nat \ {0}
      /\ \A i \in 1..(Len(s) - 1) : Tail(s)[i] = s[i + 1]
      /\ Tail(s) \in Seq(Packets) /\ Head(s) = s[1]
  OBVIOUS
<1> DEFINE Rest == InPort(s) \ {1}
           f == [i \in Rest |-> i - 1]
<1>2. IsFiniteSet(InPort(s)) /\ Cardinality(InPort(s)) \in Nat /\ IsFiniteSet(Rest)
  BY InPortFinite, FS_RemoveElement
<1>3. \A i \in Rest : i \in 2..Len(s) /\ s[i] \in Accepts3
  BY <1>1 DEF InPort
<1>4. \A i \in Rest : i - 1 \in InPort(Tail(s))
  BY <1>1, <1>3 DEF InPort
<1>5. \A j \in InPort(Tail(s)) : j + 1 \in Rest /\ (j + 1) - 1 = j
  BY <1>1 DEF InPort
<1>6. f \in Bijection(Rest, InPort(Tail(s)))
  <2>1. f \in [Rest -> InPort(Tail(s))]
    BY <1>4
  <2>2. \A i, j \in Rest : f[i] = f[j] => i = j
    BY <1>3
  <2>3. \A j \in InPort(Tail(s)) : \E i \in Rest : f[i] = j
    BY <1>5
  <2>4. QED
    BY <2>1, <2>2, <2>3, Fun_IsBij
<1>7. Cardinality(InPort(Tail(s))) = Cardinality(Rest)
  <2>1. ExistsBijection(Rest, InPort(Tail(s)))
    BY <1>6 DEF ExistsBijection
  <2>2. QED
    BY <1>2, <2>1, FS_Bijection
<1>8. Cardinality(Rest) =
        IF 1 \in InPort(s) THEN Cardinality(InPort(s)) - 1 ELSE Cardinality(InPort(s))
  BY <1>2, FS_RemoveElement
<1>9. 1 \in InPort(s) <=> Head(s) \in Accepts3
  BY <1>1 DEF InPort
<1>10. QED
  BY <1>2, <1>7, <1>8, <1>9

(* A worker goes from label to label: it takes, hands on or keeps what it  *)
(* holds.                                                                  *)
LEMMA HandMoves ==
    ASSUME LifeType, NEW t \in Workers,
           NEW l \in {"off", "wait", "create", "again", "load", "handle"},
           pc' = [pc EXCEPT ![t] = l]
    PROVE  /\ pc[t] \notin Hands /\ l \in Hands => Cardinality(InHand)' = Cardinality(InHand) + 1
           /\ pc[t] \in Hands /\ l \notin Hands => Cardinality(InHand)' = Cardinality(InHand) - 1
           /\ (pc[t] \in Hands <=> l \in Hands) => Cardinality(InHand)' = Cardinality(InHand)
<1>1. pc \in [Threads -> {"off", "wait", "create", "again", "load", "handle"}] /\ t \in Threads
  BY DEF LifeType, Threads
<1>2. \A u \in Workers : pc'[u] = IF u = t THEN l ELSE pc[u]
  BY <1>1 DEF Threads
<1>3. InHand' = {u \in Workers : pc'[u] \in Hands}
  BY DEF InHand
<1>4. t \in InHand <=> pc[t] \in Hands
  BY DEF InHand
<1>5. CASE l \in Hands
  <2>1. InHand' = InHand \cup {t}
    BY <1>2, <1>3, <1>5 DEF InHand
  <2>2. QED
    BY <1>4, <1>5, <2>1, InHandFinite, FS_AddElement
<1>6. CASE l \notin Hands
  <2>1. InHand' = InHand \ {t}
    BY <1>2, <1>3, <1>6 DEF InHand
  <2>2. QED
    BY <1>4, <1>6, <2>1, InHandFinite, FS_RemoveElement
<1>7. QED
  BY <1>5, <1>6

(* A step that changes no acceptor worker's hands. *)
LEMMA HandSame ==
    ASSUME \A t \in Workers : pc'[t] \in Hands <=> pc[t] \in Hands
    PROVE  Cardinality(InHand)' = Cardinality(InHand)
<1>1. InHand' = InHand
  BY DEF InHand
<1>2. QED
  BY <1>1

Total == posted + Accepting + tries + lost

(* The slots, part by part. *)
TotalOK ==
    /\ Total = posted + Cardinality(InPort(port)) + Cardinality(InHand) + tries + lost
    /\ Accepting \in Nat /\ Total \in Nat
    /\ posted \in Nat /\ tries \in Nat /\ lost \in Nat
    /\ Cardinality(InPort(port)) \in Nat /\ Cardinality(InHand) \in Nat

(* The slots are natural numbers. *)
LEMMA TotalFacts == LifeType => TotalOK
<1> SUFFICES ASSUME LifeType PROVE TotalOK
  OBVIOUS
<1>1. /\ posted \in Nat /\ tries \in Nat /\ lost \in Nat
      /\ Cardinality(InPort(port)) \in Nat /\ Cardinality(InHand) \in Nat
  BY InPortFinite, InHandFinite DEF LifeType
<1>2. QED
  BY <1>1, AcceptingSum DEF Total, TotalOK

(* The same after a step. *)
LEMMA TotalNext == LifeType' => TotalOK'
BY TotalFacts, PTL

(* BeginAcceptEx posts an accept or gives the slot up. *)
LEMMA BeginAcceptPosts ==
    BeginAcceptEx => \/ posted' = posted + 1 /\ lost' = lost
                     \/ posted' = posted /\ lost' = lost + 1
BY DEF BeginAcceptEx

(* A step that keeps the slots, and one that drops some after Shutdown     *)
(* has begun, keep their invariant.                                        *)
LEMMA TotalKeeps ==
    ASSUME LifeInv, LifeType',
           \/ Total' = Total /\ (m_bExecuted' => m_bExecuted)
           \/ Total' <= Total /\ m_bExecuted' = FALSE,
           at' \in {"keys", "join"} => m_bExecuted' = FALSE
    PROVE  PoolInv'
<1>1. Total \in Nat /\ Total' \in Nat
  BY TotalFacts, TotalNext DEF LifeInv, TotalOK
<1>2. QED
  BY <1>1, LifeBounds DEF LifeInv, PoolInv, AcceptPool, Total

(* A statement of a hook keeps the slots: ListenSocket makes them, each    *)
(* initial BeginAcceptEx posts one or gives it up, Shutdown drops them.    *)
LEMMA HookPool == ASSUME LifeInv, HookStep PROVE PoolInv'
<1>1. LifeType /\ LifeType' /\ FreshInv /\ PoolInv
  BY HookKeeps DEF LifeInv, RestInv
<1>2. TotalOK /\ TotalOK'
  BY <1>1, TotalFacts, TotalNext
<1>3. CASE ListenSocket
  <2>1. CASE at' = "accepts"
    <3>1. InPort(<<>>) = {} /\ InHand = {}
      BY <1>1, <1>3 DEF ListenSocket, Step, FreshInv, Starting, InPort, InHand, Hands
    <3>2. /\ Cardinality(InPort(port)) = 0 /\ Cardinality(InHand) = 0
          /\ UNCHANGED <<port, pc>>
      BY <1>1, <1>3, <3>1, FS_EmptySet DEF ListenSocket, Step, FreshInv, Starting
    <3>3. Cardinality(InPort(port))' = 0 /\ Cardinality(InHand)' = 0
      BY <3>2 DEF InPort, InHand
    <3>4. posted' = 0 /\ lost' = 0 /\ tries' = BeginAcceptCount
      BY <1>1, <1>3, <2>1 DEF ListenSocket, Step, Then, FreshInv, Starting
    <3>5. Total' = BeginAcceptCount
      BY <1>2, <3>3, <3>4, LifeBounds DEF TotalOK
    <3>6. QED
      BY <2>1, <3>5, LifeBounds DEF PoolInv, AcceptPool, Total
  <2>2. CASE at' # "accepts"
    <3>1. at' = "stop" /\ UNCHANGED <<posted, port, tries, lost, pc, m_bExecuted>>
      BY <1>3, <2>2 DEF ListenSocket, Then
    <3>2. Total' = Total
      BY <3>1 DEF Total, Accepting
    <3>3. QED
      BY <1>1, <3>1, <3>2, TotalKeeps
  <2>3. QED
    BY <2>1, <2>2
<1>4. CASE PostInitial
  <2>1. /\ UNCHANGED <<port, pc, m_bExecuted>> /\ at' = "accepts" /\ tries' = tries - 1
        /\ \/ posted' = posted + 1 /\ lost' = lost
           \/ posted' = posted /\ lost' = lost + 1
    BY <1>4, BeginAcceptPosts DEF PostInitial, Then
  <2>2. /\ Cardinality(InPort(port))' = Cardinality(InPort(port))
        /\ Cardinality(InHand)' = Cardinality(InHand)
    BY <2>1 DEF InPort, InHand
  <2>3. Total' = Total
    BY <1>2, <2>1, <2>2 DEF TotalOK
  <2>4. QED
    BY <1>1, <2>1, <2>3, TotalKeeps
<1>5. CASE StartService \/ RioStart
  <2>1. /\ UNCHANGED <<port, posted, tries, lost, m_bExecuted>>
        /\ at' \notin {"keys", "join"}
    BY <1>5 DEF StartService, RioStart, Then, AfterAcceptor
  <2>2. \A t \in Workers : pc'[t] \in Hands <=> pc[t] \in Hands
    BY <1>1, <1>5, LifeBounds
    DEF StartService, RioStart, LifeType, Threads, Hands, FreshInv, Starting, Step
  <2>3. /\ Cardinality(InPort(port))' = Cardinality(InPort(port))
        /\ Cardinality(InHand)' = Cardinality(InHand)
    BY <2>1, <2>2, HandSame DEF InPort
  <2>4. Total' = Total
    BY <1>2, <2>1, <2>3 DEF TotalOK
  <2>5. QED
    BY <1>1, <2>1, <2>4, TotalKeeps
<1>6. CASE PostKeys
  <2>1. /\ UNCHANGED <<posted, tries, lost, pc, m_bExecuted>> /\ at' = "join" /\ at = "keys"
        /\ port' = port \o Keys
    BY <1>6 DEF PostKeys, Then, Step
  <2>2. Cardinality(InHand)' = Cardinality(InHand)
    BY <2>1 DEF InHand
  <2>3. Cardinality(InPort(port))' = Cardinality(InPort(port))
    BY <1>1, <2>1, PortKeys DEF InPort
  <2>4. Total' = Total
    BY <1>2, <2>1, <2>2, <2>3 DEF TotalOK
  <2>5. QED
    BY <1>1, <2>1, <2>4, TotalKeeps DEF PoolInv
<1>7. CASE JoinWorkers
  <2>1. /\ UNCHANGED <<port, tries, lost, pc, m_bExecuted>> /\ posted' = 0 /\ at = "join"
    BY <1>7 DEF JoinWorkers, Step
  <2>2. Accepting' = Accepting /\ m_bExecuted' = FALSE
    BY <1>1, <2>1 DEF Accepting, PoolInv
  <2>3. Total' <= Total
    BY <1>1, <1>2, <2>1, <2>2 DEF Total, TotalOK
  <2>4. QED
    BY <1>1, <2>2, <2>3, TotalKeeps
<1>8. CASE AcceptorStop
  <2>1. UNCHANGED <<port, posted, tries, lost, pc>> /\ m_bExecuted' = FALSE
    BY <1>8 DEF AcceptorStop
  <2>2. Total' = Total
    BY <2>1 DEF Total, Accepting
  <2>3. QED
    BY <1>1, <1>2, <2>1, <2>2, TotalKeeps DEF TotalOK
<1>9. ASSUME UNCHANGED <<accVars, pc>>, at' \notin {"keys", "join"} PROVE PoolInv'
  <2>1. Total' = Total
    BY <1>9 DEF Total, Accepting
  <2>2. QED
    BY <1>1, <1>9, <2>1, TotalKeeps
<1>10. CASE StartRio \/ StartAcceptor \/ IdleStart \/ SamplerStart \/ StartAdmin
  BY <1>9, <1>10 DEF StartRio, StartAcceptor, IdleStart, SamplerStart, StartAdmin,
     StartTicks, Then, AfterAcceptor
<1>11. CASE ClearAdmin \/ IdleStop \/ IdleReset \/ SamplerStop \/ SamplerStopped
  BY <1>9, <1>11 DEF ClearAdmin, IdleStop, IdleReset, SamplerStop, SamplerStopped,
     StopTicks, StopWait, Then
<1>12. CASE ResetAdmin \/ RioStop \/ RioJoin
  BY <1>9, <1>12 DEF ResetAdmin, RioStop, RioJoin, Then
<1>13. QED
  BY <1>3, <1>4, <1>5, <1>6, <1>7, <1>8, <1>10, <1>11, <1>12 DEF HookStep

(* A worker moves one slot from the port to its hands, on to the next      *)
(* BeginAcceptEx, and from there back to the kernel or to the lost ones.   *)
LEMMA WorkPool == ASSUME LifeInv, NEW t \in Threads, Work(t) PROVE PoolInv'
<1>1. LifeType /\ LifeType' /\ PoolInv
  BY WorkKeeps DEF LifeInv, RestInv
<1>2. TotalOK /\ TotalOK'
  BY <1>1, TotalFacts, TotalNext
<1>3. UNCHANGED <<at, m_bExecuted, tries>>
  BY DEF Work, Dequeue, UpdateAcceptContextFailed, CreateSession, AcceptAgain, LoadAdmin,
     HandleAdmin, WorkerOnly
<1>4. ASSUME Total' = Total PROVE PoolInv'
  BY <1>1, <1>3, <1>4, TotalKeeps DEF PoolInv
<1>5. CASE Dequeue(t)
  <2>1. /\ t \in Workers /\ pc[t] = "wait" /\ port # <<>> /\ port' = Tail(port)
        /\ pc' = [pc EXCEPT ![t] = Taken(Head(port))] /\ posted' = posted
        /\ lost' = IF Head(port) = "aborted" THEN lost + 1 ELSE lost
    BY <1>5 DEF Dequeue, Goto
  <2>2. Cardinality(InPort(port)) = Cardinality(InPort(port))'
                + (IF Head(port) \in Accepts3 THEN 1 ELSE 0)
    BY <1>1, <2>1, PortTail DEF LifeType, InPort
  <2>3. pc[t] \notin Hands /\ posted' = posted
    BY <2>1 DEF Hands
  <2>4. Total' = Total
    <3>1. CASE Head(port) \in {"accepted", "failed"}
      <4>1. Taken(Head(port)) \in {"create", "again"} /\ Taken(Head(port)) \in Hands
        BY <3>1 DEF Taken, Hands
      <4>2. Cardinality(InHand)' = Cardinality(InHand) + 1
        BY <1>1, <2>1, <2>3, <4>1, HandMoves
      <4>3. Cardinality(InPort(port)) = Cardinality(InPort(port))' + 1 /\ lost' = lost
        BY <2>1, <2>2, <3>1 DEF Accepts3
      <4>4. QED
        BY <1>2, <1>3, <2>1, <4>2, <4>3 DEF TotalOK
    <3>2. CASE Head(port) \notin {"accepted", "failed"}
      <4>1. Taken(Head(port)) \in {"off", "load"} /\ Taken(Head(port)) \notin Hands
        BY <3>2 DEF Taken, Hands
      <4>2. Cardinality(InHand)' = Cardinality(InHand)
        BY <1>1, <2>1, <2>3, <4>1, HandMoves
      <4>3. CASE Head(port) = "aborted"
        <5>1. Cardinality(InPort(port)) = Cardinality(InPort(port))' + 1 /\ lost' = lost + 1
          BY <2>1, <2>2, <4>3 DEF Accepts3
        <5>2. QED
          BY <1>2, <1>3, <2>3, <4>2, <5>1 DEF TotalOK
      <4>4. CASE Head(port) # "aborted"
        <5>1. Cardinality(InPort(port)) = Cardinality(InPort(port))' + 0 /\ lost' = lost
          BY <2>1, <2>2, <3>2, <4>4 DEF Accepts3
        <5>2. QED
          BY <1>2, <1>3, <2>3, <4>2, <5>1 DEF TotalOK
      <4>5. QED
        BY <4>3, <4>4
    <3>3. QED
      BY <3>1, <3>2
  <2>5. QED
    BY <1>4, <2>4
<1>6. CASE UpdateAcceptContextFailed(t)
  <2>1. /\ t \in Workers /\ pc[t] = "create" /\ pc' = [pc EXCEPT ![t] = "wait"]
        /\ lost' = lost + 1 /\ UNCHANGED <<posted, port>>
    BY <1>1, <1>6 DEF UpdateAcceptContextFailed, Goto, LifeType, Threads
  <2>2. Cardinality(InHand)' = Cardinality(InHand) - 1
    BY <1>1, <2>1, HandMoves DEF Hands
  <2>3. Cardinality(InPort(port))' = Cardinality(InPort(port))
    BY <2>1 DEF InPort
  <2>4. Total' = Total
    BY <1>1, <1>2, <1>3, <2>1, <2>2, <2>3 DEF TotalOK
  <2>5. QED
    BY <1>4, <2>4
<1>7. CASE CreateSession(t)
  <2>1. /\ t \in Workers /\ pc[t] = "create" /\ pc' = [pc EXCEPT ![t] = "again"]
        /\ UNCHANGED <<posted, port, lost>>
    BY <1>1, <1>7 DEF CreateSession, Goto, LifeType, Threads
  <2>2. Cardinality(InHand)' = Cardinality(InHand)
    BY <1>1, <2>1, HandMoves DEF Hands
  <2>3. Cardinality(InPort(port))' = Cardinality(InPort(port))
    BY <2>1 DEF InPort
  <2>4. Total' = Total
    BY <1>1, <1>2, <1>3, <2>1, <2>2, <2>3 DEF TotalOK
  <2>5. QED
    BY <1>4, <2>4
<1>8. CASE AcceptAgain(t)
  <2>1. /\ t \in Workers /\ pc[t] = "again" /\ pc' = [pc EXCEPT ![t] = "wait"]
        /\ UNCHANGED port
    BY <1>1, <1>8 DEF AcceptAgain, Goto, LifeType, Threads
  <2>2. Cardinality(InHand)' = Cardinality(InHand) - 1
    BY <1>1, <2>1, HandMoves DEF Hands
  <2>3. Cardinality(InPort(port))' = Cardinality(InPort(port))
    BY <2>1 DEF InPort
  <2>4. CASE m_bExecuted
    <3>1. \/ posted' = posted + 1 /\ lost' = lost
          \/ posted' = posted /\ lost' = lost + 1
      BY <1>8, <2>4, BeginAcceptPosts DEF AcceptAgain
    <3>2. Total' = Total
      BY <1>2, <1>3, <2>2, <2>3, <3>1 DEF TotalOK
    <3>3. QED
      BY <1>4, <3>2
  <2>5. CASE ~m_bExecuted
    <3>1. UNCHANGED <<posted, lost>>
      BY <1>8, <2>5 DEF AcceptAgain
    <3>2. Total' <= Total
      BY <1>1, <1>2, <1>3, <2>2, <2>3, <3>1 DEF TotalOK
    <3>3. Total' \in Nat /\ Total \in Nat
      BY <1>2 DEF TotalOK
    <3>4. QED
      BY <1>1, <1>3, <2>5, <3>2, <3>3, LifeBounds DEF PoolInv, AcceptPool, Total
  <2>6. QED
    BY <2>4, <2>5
<1>9. CASE LoadAdmin(t) \/ HandleAdmin(t)
  <2>1. /\ UNCHANGED <<posted, port, lost>>
        /\ \A u \in Workers : pc'[u] \in Hands <=> pc[u] \in Hands
    BY <1>1, <1>9 DEF LoadAdmin, HandleAdmin, Goto, LifeType, Threads, Hands
  <2>2. Cardinality(InHand)' = Cardinality(InHand)
    BY <2>1, HandSame
  <2>3. Cardinality(InPort(port))' = Cardinality(InPort(port))
    BY <2>1 DEF InPort
  <2>4. Total' = Total
    BY <1>1, <1>2, <1>3, <2>1, <2>2, <2>3 DEF TotalOK
  <2>5. QED
    BY <1>4, <2>4
<1>10. QED
  BY <1>5, <1>6, <1>7, <1>8, <1>9 DEF Work

(* The RIO worker, callbacks and clients: a completed AcceptEx moves one   *)
(* slot from the kernel to the port.                                       *)
LEMMA OutsidePool ==
    ASSUME LifeInv,
           \/ RioPoll \/ Connect \/ AdminRequest
           \/ \E c \in {"idle", "sampler"} : TickBegin(c) \/ TickEnd(c)
    PROVE  PoolInv'
<1>1. LifeType /\ LifeType' /\ PoolInv
  BY OutsideKeeps DEF LifeInv, RestInv
<1>2. TotalOK /\ TotalOK'
  BY <1>1, TotalFacts, TotalNext
<1>3. UNCHANGED <<at, m_bExecuted, tries, lost>>
  BY DEF RioPoll, Connect, AdminRequest, TickBegin, TickEnd, WorkerOnly
<1>4. \A u \in Workers : pc'[u] \in Hands <=> pc[u] \in Hands
  BY <1>1, LifeBounds DEF RioPoll, Connect, AdminRequest, TickBegin, TickEnd, Goto,
     LifeType, Threads, Hands
<1>5. Cardinality(InHand)' = Cardinality(InHand)
  BY <1>4, HandSame
<1>6. posted' + Cardinality(InPort(port))' = posted + Cardinality(InPort(port))
  <2>1. CASE Connect
    <3>1. PICK k \in Accepts3 : port' = Append(port, k)
      BY <2>1 DEF Connect, Accepts3
    <3>2. Cardinality(InPort(port))' = Cardinality(InPort(port)) + 1
      BY <1>1, <3>1, PortAppend DEF LifeType, InPort, Packets
    <3>3. QED
      BY <1>1, <1>2, <2>1, <3>2 DEF Connect, LifeType, TotalOK
  <2>2. CASE AdminRequest /\ port' = Append(port, "admin")
    <3>1. "admin" \notin Accepts3 /\ "admin" \in Packets
      BY DEF Accepts3, Packets
    <3>2. Cardinality(InPort(port))' = Cardinality(InPort(port))
      <4>1. port \in Seq(Packets) /\ Cardinality(InPort(port)) \in Nat
        BY <1>1, <1>2 DEF LifeType, TotalOK
      <4>2. Cardinality(InPort(port')) = Cardinality(InPort(port)) + 0
        BY <2>2, <3>1, <4>1, PortAppend
      <4>3. QED
        BY <4>1, <4>2 DEF InPort
    <3>3. QED
      BY <2>2, <3>2 DEF AdminRequest
  <2>3. CASE UNCHANGED <<posted, port>>
    BY <2>3 DEF InPort
  <2>4. QED
    BY <2>1, <2>2, <2>3 DEF RioPoll, AdminRequest, TickBegin, TickEnd
<1>7. Total' = Total
  BY <1>1, <1>2, <1>3, <1>5, <1>6 DEF TotalOK
<1>8. QED
  BY <1>1, <1>3, <1>7, TotalKeeps DEF PoolInv

-----------------------------------------------------------------------------
(* The invariant. *)

(* Init establishes it. *)
LEMMA LifeInit == Init => LifeInv
<1> SUFFICES ASSUME Init PROVE LifeInv
  OBVIOUS
<1>1. SvcInv
  BY SvcInitInv DEF Init
<1>2. LifeType /\ FreshInv /\ OwnInv /\ PointerInv /\ TickInv
  BY DEF Init, SvcInit, LifeType, FreshInv, OwnInv, PointerInv, PointerValid, TickInv,
     Threads, Starting, Cleared
<1>3. InPort(port) = {} /\ InHand = {}
  BY DEF Init, InPort, InHand, Hands, Threads
<1>4. Accepting = 0
  BY <1>3, AcceptingSum, FS_EmptySet
<1>5. PoolInv
  BY <1>4, LifeBounds DEF Init, PoolInv, AcceptPool
<1>6. QED
  BY <1>1, <1>2, <1>5 DEF LifeInv

(* Every step keeps it. *)
LEMMA LifeNext == LifeInv /\ [Next]_vars => LifeInv'
<1> SUFFICES ASSUME LifeInv, [Next]_vars PROVE LifeInv'
  OBVIOUS
<1>0. ASSUME RestInv', PoolInv' PROVE LifeInv'
  BY <1>0 DEF RestInv, LifeInv
<1>1. CASE HookStep
  BY <1>0, <1>1, HookKeeps, HookPool
<1>2. ASSUME NEW t \in Threads, Work(t) PROVE LifeInv'
  BY <1>0, <1>2, WorkKeeps, WorkPool
<1>3. CASE \/ RioPoll \/ Connect \/ AdminRequest
           \/ \E c \in {"idle", "sampler"} : TickBegin(c) \/ TickEnd(c)
  BY <1>0, <1>3, OutsideKeeps, OutsidePool
<1>4. CASE StartOrControl \/ HookEnds \/ HookFails \/ Returns \/ ProcessExit
  <2>1. RestInv'
    BY <1>4, ServiceLifeKeeps
  <2>2. UNCHANGED <<accVars, pc>> /\ (at' = at \/ at' \notin {"keys", "join"})
    BY <1>4 DEF StartOrControl, HookBegins, HookEnds, HookFails, Returns, ProcessExit,
       FirstStep
  <2>3. PoolInv'
    BY <2>2 DEF LifeInv, PoolInv, AcceptPool, Accepting
  <2>4. QED
    BY <1>0, <2>1, <2>3
<1>5. CASE UNCHANGED vars
  <2>1. SvcInv' /\ UNCHANGED <<svcVars, lifeVars, at>>
    BY <1>5, SvcSame DEF vars, LifeInv
  <2>2. PoolInv'
    BY <2>1 DEF LifeInv, PoolInv, AcceptPool, Accepting
  <2>3. LifeType' /\ FreshInv' /\ OwnInv' /\ PointerInv' /\ TickInv'
    BY <2>1 DEF LifeInv, svcVars, LifeType, FreshInv, OwnInv, PointerInv, PointerValid,
       TickInv
  <2>4. QED
    BY <2>1, <2>2, <2>3 DEF LifeInv
<1>6. QED
  BY <1>1, <1>2, <1>3, <1>4, <1>5 DEF Next

(* It holds in every reachable state. *)
LEMMA LifeInvariant == Spec => []LifeInv
BY LifeInit, LifeNext, PTL DEF Spec

(* The process is well typed; in particular no more than BeginAcceptCount  *)
(* accepts are ever posted, and no more are lost.                          *)
THEOREM LifeTypeCorrect == Spec => []TypeOK
<1>1. LifeInv => TypeOK
  <2> SUFFICES ASSUME LifeInv PROVE TypeOK
    OBVIOUS
  <2>1. LifeType /\ SvcTypeOK /\ TotalOK /\ Total <= BeginAcceptCount
    BY TotalFacts DEF LifeInv, PoolInv, SvcInv, Total
  <2>2. /\ tries \in 0..BeginAcceptCount /\ posted \in 0..BeginAcceptCount
        /\ lost \in 0..BeginAcceptCount
    BY <2>1, LifeBounds DEF LifeType, TotalOK
  <2>3. QED
    BY <2>1, <2>2 DEF TypeOK, LifeType, SvcTypeOK
<1>2. QED
  BY <1>1, LifeInvariant, PTL

(* While the acceptor runs no accept slot disappears: every one is posted, *)
(* on its way to the next BeginAcceptEx, or was given up by a failure the  *)
(* code logs; for any number of workers, clients and failures.             *)
THEOREM SlotsConserved == Spec => []AcceptPool
BY LifeInvariant, PTL DEF LifeInv, PoolInv

(* No thread of the IOService outlives its acceptor: Shutdown, also the    *)
(* one of a Start that failed, joins them all.                             *)
THEOREM WorkersJoined == Spec => []WorkersOwned
<1>1. LifeInv => WorkersOwned
  BY DEF LifeInv, OwnInv, Holding, WorkersOwned
<1>2. QED
  BY <1>1, LifeInvariant, PTL

(* The admin pointer is set only while all it leads to exists, whichever   *)
(* statement of a hook throws.                                             *)
THEOREM AdminPointerValid == Spec => []PointerValid
BY LifeInvariant, PTL DEF LifeInv, PointerInv

(* A timer callback runs only on an object that still exists. *)
THEOREM CallbackAlive == Spec => []TickAlive
<1>1. LifeInv => TickAlive
  BY DEF LifeInv, TickInv, TickAlive
<1>2. QED
  BY <1>1, LifeInvariant, PTL

(* What StatusSettles says of the bare service holds of both servers: no   *)
(* statement of their hooks leaves a pending status behind.                *)
THEOREM ServerSettles == Spec => []Settled
BY LifeInvariant, PTL DEF LifeInv, SvcInv, HookInv
=============================================================================
