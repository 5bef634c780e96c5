-------------------------- MODULE TimerQueueProofs --------------------------
(***************************************************************************)
(* Proofs about TimerQueue for every number of threads and timers.         *)
(*                                                                         *)
(* None of EntryAlive, HandleLive, NoTimerLeak, QuietAfterCancel and       *)
(* QuietAfterShutdown is inductive: each depends on who may still close a  *)
(* timer.  TimerInv says so: an open timer has exactly one owner (the map, *)
(* the call that works on it, or the callback that cancelled itself), a    *)
(* closed one is at rest unless it is one of those the properties leave    *)
(* out, and the map of a Shutdown holds its snapshot and late timers only. *)
(* Every property follows from it, with overlapping callbacks, jobs that   *)
(* call anything and a Schedule in progress under Shutdown.                *)
(***************************************************************************)
EXTENDS TimerQueue, FiniteSetTheorems, TLAPS

(* Labels of a callback that has not yet decided to run its job. *)
Starting == StartLabels \cup {"idle", "cb_enter"}

(* A call that has an Entry in hand: Schedule after it made the timer, and  *)
(* Cancel (or one turn of Shutdown) after it took the entry out of the map. *)
Works(t, i) == pc[t] \in {"sc_insert", "sc_arm"} \cup CancelLabels /\ arg[t] = i

(* A Schedule that Shutdown has overtaken between the insert and the set. *)
Behind(t) == pc[t] = "sc_arm" /\ m_QueueState # "Running"

(* A Shutdown in progress, from its snapshot to its last Cancel. *)
Shutting(t) == pc[t] \in {"sd_snap", "sd_next"} \/ (pc[t] \in CancelLabels /\ op[t] # "cancel")

(* Ids cannot run out under a Schedule that has passed its check. *)
Creating == {u \in Threads : pc[u] = "sc_create"}
IdInv == m_NextId + Cardinality(Creating) <= MaxTimers + 1

(* Where a thread is says whether it runs a callback, and which labels it   *)
(* can be at; the entry of a call is a real one.                            *)
ThreadInv ==
    /\ \A t \in Callers : cur[t] = 0 /\ pc[t] \in CallLabels \cup {"idle"}
    /\ \A t \in Pool : pc[t] = "idle" <=> cur[t] = 0
    /\ \A t \in Threads : ~Works(t, 0)

(* The handle of an entry is its open timer.  A timer that was never opened *)
(* is at rest.  One that is closed is at rest too, unless its close was     *)
(* left to its callback or an overtaken Schedule has set it, and nobody     *)
(* works on it but an overtaken Schedule.                                   *)
ClosedOf(i) ==
    /\ entry[i].handle = timer[i].open
    /\ i >= m_NextId =>
         /\ ~timer[i].open /\ ~timer[i].armed /\ timer[i].queued = 0
         /\ i \notin known /\ \A t \in Threads : ~Works(t, i)
    /\ ~timer[i].open =>
         /\ timer[i].armed => i \in late
         /\ timer[i].queued # 0 => i \in deferred \cup late
         /\ \A t \in Pool : cur[t] = i => i \in deferred \cup late
         /\ i \notin m_Entries /\ ~entry[i].closeAfterCallback
         /\ \A t \in Threads : Works(t, i) => Behind(t)
ClosedInv == \A i \in Ids : ClosedOf(i)

(* An open timer has exactly one owner: the map, a call, or the callback    *)
(* that cancelled itself, which then runs past its start.  A Schedule that  *)
(* has handed its entry to the map is a guest, which an owner may outrun.   *)
Owns(t, i)  == pc[t] \in {"sc_insert"} \cup CancelLabels /\ arg[t] = i
Guest(t, u) == Behind(t) /\ pc[u] \in CancelLabels
SomeOwner ==
    \A i \in Ids : timer[i].open =>
        i \in m_Entries \/ entry[i].closeAfterCallback \/ \E t \in Threads : Owns(t, i)
MapOwner ==
    \A i \in m_Entries :
        ~entry[i].closeAfterCallback /\ \A t \in Threads : Works(t, i) => pc[t] = "sc_arm"
CallOwner ==
    \A t, u \in Threads, i \in Ids :
        Works(t, i) /\ Works(u, i) => t = u \/ Guest(t, u) \/ Guest(u, t)
SelfOwner ==
    \A i \in Ids : entry[i].closeAfterCallback =>
        /\ i \in deferred
        /\ timer[i].armed => i \in late
        /\ \A t \in Threads : Works(t, i) => Behind(t)
        /\ \E t \in Pool : cur[t] = i /\ pc[t] \notin Starting

(* What a call knows about the entry it works on. *)
CallOf(t) ==
    /\ pc[t] \in {"sc_insert", "sc_arm"} =>
         arg[t] \notin known /\ ~timer[arg[t]].armed /\ timer[arg[t]].queued = 0
    /\ pc[t] = "sc_arm" => arg[t] \in m_Entries \/ m_QueueState # "Running"
    /\ pc[t] \in CancelLabels \ {"ca_state", "ca_disarm"} =>
         (timer[arg[t]].armed => arg[t] \in late)
    /\ pc[t] = "ca_defer" => cur[t] = arg[t]
    /\ pc[t] = "ca_close" =>
         \/ timer[arg[t]].queued = 0 /\ \A u \in Pool : cur[u] # arg[t]
         \/ arg[t] \in late
CallInv == \A t \in Threads : CallOf(t)

(* Shutdown: one at a time, and it empties the map but for late entries. *)
ShutInv ==
    /\ m_QueueState = "ShuttingDown" => \E t \in Threads : Shutting(t)
    /\ \A t \in Threads : Shutting(t) => m_QueueState = "ShuttingDown"
    /\ \A t, u \in Threads : Shutting(t) /\ Shutting(u) => t = u
    /\ \A t \in Threads : Shutting(t) /\ pc[t] # "sd_snap" => m_Entries \subseteq ids[t] \cup late
    /\ \A t \in Threads : pc[t] \in ShutdownLabels => op[t] # "cancel"
    /\ \A t \in Threads : pc[t] = "sd_free" => m_QueueState = "Dead"
    /\ m_QueueState = "Dead" => m_Entries \subseteq late
    /\ owned = "destroyed" => m_QueueState = "Dead"

(* The inductive invariant. *)
TimerInv ==
    /\ IdInv /\ ThreadInv /\ ClosedInv /\ CallInv /\ ShutInv
    /\ SomeOwner /\ MapOwner /\ CallOwner /\ SelfOwner

USE DEF Threads, Ids, Entries, Timers, Labels, CallLabels, ScheduleLabels, CancelLabels,
        ShutdownLabels, StartLabels, Starting, ghosts

(* Facts about the constants, in the form the steps use. *)
LEMMA ThreadFacts == Callers \cap Pool = {} /\ MaxTimers \in Nat
BY ThreadsAssumption, BoundsAssumption

(* The threads between the check and AllocateId are finitely many. *)
LEMMA CreatingFinite ==
    /\ IsFiniteSet(Creating) /\ Cardinality(Creating) \in Nat
    /\ \A t \in Creating : Cardinality(Creating) > 0
<1>1. IsFiniteSet(Threads)
  BY ThreadsAssumption, FS_Union
<1>2. IsFiniteSet(Creating)
  BY <1>1, FS_Subset DEF Creating
<1> QED
  BY <1>2, FS_CardinalityType, FS_EmptySet

(* A Schedule that passed its check still has an id to take. *)
LEMMA CreatingRoom ==
    ASSUME m_NextId \in 1..(MaxTimers + 1), IdInv, NEW t \in Threads, pc[t] = "sc_create"
    PROVE  m_NextId \in Ids
<1>1. Cardinality(Creating) \in Nat /\ Cardinality(Creating) > 0
  BY CreatingFinite DEF Creating
<1> QED
  BY <1>1, ThreadFacts DEF IdInv

(* With nothing outstanding no callback of the timer is queued or running. *)
LEMMA NoneOutstanding ==
    ASSUME TypeOK, ThreadInv, NEW i \in Ids, Outstanding(i) < 1
    PROVE  timer[i].queued = 0 /\ \A u \in Pool : cur[u] # i
<1>1. IsFiniteSet(RunningOf(i))
  BY ThreadsAssumption, FS_Subset DEF RunningOf
<1>2. Cardinality(RunningOf(i)) \in Nat /\ timer[i].queued \in Nat
  BY <1>1, FS_CardinalityType DEF TypeOK
<1>3. timer[i].queued = 0 /\ Cardinality(RunningOf(i)) = 0
  BY <1>2 DEF Outstanding
<1>4. RunningOf(i) = {}
  BY <1>1, <1>3, FS_EmptySet
<1> QED
  BY <1>3, <1>4, ThreadFacts DEF RunningOf, ThreadInv

(* A thread at a callback's label is a pool thread with an entry. *)
LEMMA InCallback ==
    ASSUME TypeOK, ThreadInv, NEW t \in Threads, pc[t] \notin CallLabels \cup {"idle"}
    PROVE  t \in Pool /\ cur[t] \in Ids
<1>1. t \in Pool /\ cur[t] # 0
  BY DEF ThreadInv
<1> QED
  BY <1>1, ThreadFacts DEF TypeOK

(* A call past its first step has an entry in hand. *)
LEMMA HasEntry ==
    ASSUME TypeOK, ThreadInv, NEW t \in Threads,
           pc[t] \in {"sc_insert", "sc_arm"} \cup CancelLabels
    PROVE  Works(t, arg[t]) /\ arg[t] \in Ids
<1>1. Works(t, arg[t]) /\ arg[t] # 0
  BY DEF ThreadInv, Works
<1> QED
  BY <1>1, ThreadFacts DEF TypeOK

(* Nobody but an overtaken Schedule works on the entry of a Cancel, and     *)
(* nobody at all on that of a Schedule that has not inserted it.            *)
LEMMA OtherEntry ==
    ASSUME TypeOK, ThreadInv, CallOwner, NEW t \in Threads,
           pc[t] \in {"sc_insert"} \cup CancelLabels
    PROVE  \A u \in Threads : u # t /\ Works(u, arg[t]) => Behind(u) /\ pc[t] \in CancelLabels
<1>1. Works(t, arg[t]) /\ arg[t] \in Ids
  BY HasEntry
<1> QED
  BY <1>1 DEF CallOwner, Guest, Behind

(* Nobody but Shutdown works on the entry that a Schedule is about to set. *)
LEMMA OtherOfArm ==
    ASSUME TypeOK, ThreadInv, CallOwner, NEW t \in Threads, pc[t] = "sc_arm"
    PROVE  \A u \in Threads : u # t /\ Works(u, arg[t]) => Behind(t) /\ pc[u] \in CancelLabels
<1>1. Works(t, arg[t]) /\ arg[t] \in Ids
  BY HasEntry
<1> QED
  BY <1>1 DEF CallOwner, Guest, Behind

(* Schedule passes its check: one more thread will take an id. *)
LEMMA ScheduleCheckStep ==
    ASSUME TypeOK, TimerInv, NEW t \in Threads, ScheduleCheck(t)
    PROVE  (TypeOK /\ TimerInv)'
<1> USE DEF ScheduleCheck, At, Goto, Back, MayCall, queue, calls
<1>1. TypeOK'
  BY ThreadFacts DEF TypeOK, TimerInv, ThreadInv, Works
<1>2. IdInv'
  <2>1. Creating' = Creating \cup {t} /\ t \notin Creating
    BY DEF TypeOK, Creating
  <2>2. Cardinality(Creating') = Cardinality(Creating) + 1
    BY <2>1, CreatingFinite, FS_AddElement
  <2>3. m_NextId + Cardinality(Creating) <= MaxTimers
    BY DEF Creating
  <2> QED
    BY <2>2, <2>3, CreatingFinite, ThreadFacts DEF TypeOK, IdInv
<1>3. ThreadInv'
  BY ThreadFacts DEF TypeOK, TimerInv, ThreadInv, Works
<1>4. ClosedInv'
  BY ThreadFacts DEF TypeOK, TimerInv, ClosedInv, ClosedOf, CallOf, ThreadInv, Works, CallInv, Behind
<1>5. CallInv'
  BY ThreadFacts DEF TypeOK, TimerInv, CallInv, ClosedOf, CallOf, ThreadInv, ClosedInv,
     MapOwner, CallOwner, SelfOwner, ShutInv, Shutting, Works
<1>6. ShutInv'
  BY ThreadFacts DEF TypeOK, TimerInv, ShutInv, CallOf, ThreadInv, CallInv, Works, Shutting
<1>7. SomeOwner'
  <2>1. \A u \in Threads, j \in Ids : Owns(u, j) => Owns(u, j)'
    BY DEF TypeOK, Owns
  <2> QED
    BY <2>1 DEF TimerInv, SomeOwner
<1>8. MapOwner'
  BY ThreadFacts DEF TypeOK, TimerInv, MapOwner, ClosedOf, CallOf, ThreadInv, ClosedInv,
     CallInv, Works
<1>9. CallOwner'
  <2>1. \A u \in Threads, j \in Ids : Works(u, j)' =>
           /\ Works(u, j)
           /\ Behind(u) => Behind(u)'
           /\ pc[u] \in CancelLabels => pc'[u] \in CancelLabels
    BY DEF TypeOK, Works, Behind
  <2> QED
    BY <2>1 DEF TimerInv, CallOwner, Guest
<1>10. SelfOwner'
  BY ThreadFacts DEF TypeOK, TimerInv, SelfOwner, ClosedOf, CallOf, ThreadInv, ClosedInv,
     MapOwner, CallOwner, CallInv, Works, Behind
<1> QED
  BY <1>1, <1>2, <1>3, <1>4, <1>5, <1>6, <1>7, <1>8, <1>9, <1>10 DEF TimerInv

(* Schedule makes the timer: the call becomes its owner. *)
LEMMA ScheduleCreateStep ==
    ASSUME TypeOK, TimerInv, NEW t \in Threads, NEW p \in BOOLEAN, ScheduleCreate(t, p)
    PROVE  (TypeOK /\ TimerInv)'
<1> USE DEF ScheduleCreate, At, Goto, Back, queue, calls
<1>n. /\ m_NextId \in Ids /\ m_NextId \notin m_Entries /\ m_NextId \notin known
      /\ timer[m_NextId].open = FALSE /\ timer[m_NextId].armed = FALSE
      /\ timer[m_NextId].queued = 0
      /\ entry[m_NextId].closeAfterCallback = FALSE
      /\ \A u \in Threads : ~Works(u, m_NextId)
  BY CreatingRoom, ThreadFacts DEF TypeOK, TimerInv, ClosedInv, ClosedOf
<1>w. \A u \in Threads, i \in Ids : Works(u, i)' <=> (IF u = t THEN i = m_NextId ELSE Works(u, i))
  BY <1>n DEF TypeOK, Works
<1>b. \A u \in Threads : Behind(u)' <=> Behind(u)
  BY DEF TypeOK, Behind
<1>f. /\ timer'[m_NextId].open = TRUE /\ entry'[m_NextId].handle = TRUE
      /\ timer'[m_NextId].armed = FALSE /\ timer'[m_NextId].queued = timer[m_NextId].queued
      /\ entry'[m_NextId].closeAfterCallback = FALSE
  BY <1>n DEF TypeOK
<1>g. \A i \in Ids : i # m_NextId => timer'[i] = timer[i] /\ entry'[i] = entry[i]
  BY <1>n DEF TypeOK
<1>1. TypeOK'
  <2>1. m_NextId \in Ids
    BY CreatingRoom, ThreadFacts DEF TypeOK, TimerInv
  <2>2. entry' \in [Ids -> Entries]
    BY <2>1 DEF TypeOK
  <2>3. timer' \in [Ids -> Timers]
    BY <2>1 DEF TypeOK
  <2> QED
    BY <2>1, <2>2, <2>3, ThreadFacts DEF TypeOK
<1>2. IdInv'
  <2>1. Creating' = Creating \ {t} /\ t \in Creating
    BY DEF TypeOK, Creating
  <2>2. Cardinality(Creating') = Cardinality(Creating) - 1
    BY <2>1, CreatingFinite, FS_RemoveElement
  <2> QED
    BY <2>2, CreatingFinite, ThreadFacts DEF TypeOK, TimerInv, IdInv
<1>3. ThreadInv'
  BY ThreadFacts DEF TypeOK, TimerInv, ThreadInv, Works
<1>4. ClosedInv'
  <2> SUFFICES ASSUME NEW i \in Ids PROVE ClosedOf(i)'
    BY DEF ClosedInv
  <2>1. ClosedOf(i) /\ m_NextId' = m_NextId + 1 /\ m_NextId \in Int /\ i \in Int
    BY ThreadFacts DEF TimerInv, ClosedInv, TypeOK
  <2>2. CASE i = m_NextId
    <3>1. ~(i >= m_NextId')
      BY <2>1, <2>2
    <3>2. timer'[i].open = TRUE /\ entry'[i].handle = TRUE
      BY <1>f, <2>2
    <3> QED
      BY <3>1, <3>2 DEF ClosedOf
  <2>3. CASE i # m_NextId
    <3>1. \A u \in Threads : Works(u, i)' => Works(u, i)
      BY <1>w, <2>3
    <3>2. i >= m_NextId' => i >= m_NextId
      BY <2>1
    <3> QED
      BY <1>b, <1>g, <2>1, <2>3, <3>1, <3>2 DEF ClosedOf
  <2> QED
    BY <2>2, <2>3
<1>5. CallInv'
  <2> SUFFICES ASSUME NEW u \in Threads PROVE CallOf(u)'
    BY DEF CallInv
  <2>1. CASE u = t
    <3>1. arg'[t] = m_NextId /\ pc'[t] = "sc_insert"
      BY DEF TypeOK
    <3> QED
      BY <1>n, <1>f, <2>1, <3>1 DEF CallOf
  <2>2. CASE u # t
    <3>1. CallOf(u) /\ pc'[u] = pc[u] /\ arg'[u] = arg[u]
      BY <2>2 DEF TypeOK, TimerInv, CallInv
    <3>2. pc[u] \in {"sc_insert", "sc_arm"} \cup CancelLabels => arg[u] \in Ids /\ arg[u] # m_NextId
      BY <1>n, HasEntry DEF TimerInv
    <3> QED
      BY <1>g, <3>1, <3>2 DEF CallOf
  <2> QED
    BY <2>1, <2>2
<1>6. ShutInv'
  BY ThreadFacts DEF TypeOK, TimerInv, ShutInv, CallOf, ThreadInv, CallInv, Works, Shutting
<1>7. SomeOwner'
  <2>0. PICK n \in Ids : n = m_NextId
    BY <1>n
  <2>1. \A u \in Threads, i \in Ids : Owns(u, i) => Owns(u, i)'
    BY DEF TypeOK, Owns
  <2>2. Owns(t, n)'
    BY <2>0 DEF TypeOK, Owns
  <2> QED
    BY <1>g, <2>0, <2>1, <2>2 DEF TimerInv, SomeOwner
<1>8. MapOwner'
  BY ThreadFacts DEF TypeOK, TimerInv, MapOwner, ClosedOf, CallOf, ThreadInv, ClosedInv,
     CallInv, Works
<1>9. CallOwner'
  <2>1. \A u \in Threads : u # t => (pc'[u] \in CancelLabels <=> pc[u] \in CancelLabels)
    BY DEF TypeOK
  <2> QED
    BY <1>n, <1>w, <1>b, <2>1 DEF TimerInv, CallOwner, Guest
<1>10. SelfOwner'
  BY ThreadFacts DEF TypeOK, TimerInv, SelfOwner, ClosedOf, CallOf, ThreadInv, ClosedInv,
     MapOwner, CallOwner, CallInv, Works, Behind
<1> QED
  BY <1>1, <1>2, <1>3, <1>4, <1>5, <1>6, <1>7, <1>8, <1>9, <1>10 DEF TimerInv

(* CreateThreadpoolTimer fails: the id is spent and nothing else changes. *)
LEMMA ScheduleCreateFailedStep ==
    ASSUME TypeOK, TimerInv, NEW t \in Threads, ScheduleCreateFailed(t)
    PROVE  (TypeOK /\ TimerInv)'
<1> USE DEF ScheduleCreateFailed, At, Goto, Back, queue, calls
<1>1. TypeOK'
  <2>1. m_NextId \in Ids
    BY CreatingRoom, ThreadFacts DEF TypeOK, TimerInv
  <2> QED
    BY <2>1, ThreadFacts DEF TypeOK
<1>2. IdInv'
  <2>1. Creating' = Creating \ {t} /\ t \in Creating
    BY DEF TypeOK, Creating
  <2>2. Cardinality(Creating') = Cardinality(Creating) - 1
    BY <2>1, CreatingFinite, FS_RemoveElement
  <2> QED
    BY <2>2, CreatingFinite, ThreadFacts DEF TypeOK, TimerInv, IdInv
<1>3. ThreadInv'
  BY ThreadFacts DEF TypeOK, TimerInv, ThreadInv, Works
<1>4. ClosedInv'
  BY ThreadFacts DEF TypeOK, TimerInv, ClosedInv, ClosedOf, CallOf, ThreadInv, Works, CallInv, Behind
<1>5. CallInv'
  BY ThreadFacts DEF TypeOK, TimerInv, CallInv, ClosedOf, CallOf, ThreadInv, ClosedInv,
     MapOwner, CallOwner, SelfOwner, ShutInv, Shutting, Works
<1>6. ShutInv'
  BY ThreadFacts DEF TypeOK, TimerInv, ShutInv, CallOf, ThreadInv, CallInv, Works, Shutting
<1>7. SomeOwner'
  <2>1. \A u \in Threads, j \in Ids : Owns(u, j) => Owns(u, j)'
    BY DEF TypeOK, Owns
  <2> QED
    BY <2>1 DEF TimerInv, SomeOwner
<1>8. MapOwner'
  BY ThreadFacts DEF TypeOK, TimerInv, MapOwner, ClosedOf, CallOf, ThreadInv, ClosedInv,
     CallInv, Works
<1>9. CallOwner'
  <2>1. \A u \in Threads, j \in Ids : Works(u, j)' =>
           /\ Works(u, j)
           /\ Behind(u) => Behind(u)'
           /\ pc[u] \in CancelLabels => pc'[u] \in CancelLabels
    BY DEF TypeOK, Works, Behind
  <2> QED
    BY <2>1 DEF TimerInv, CallOwner, Guest
<1>10. SelfOwner'
  BY ThreadFacts DEF TypeOK, TimerInv, SelfOwner, ClosedOf, CallOf, ThreadInv, ClosedInv,
     MapOwner, CallOwner, CallInv, Works, Behind
<1> QED
  BY <1>1, <1>2, <1>3, <1>4, <1>5, <1>6, <1>7, <1>8, <1>9, <1>10 DEF TimerInv

(* Schedule hands the entry to the map. *)
LEMMA ScheduleInsertStep ==
    ASSUME TypeOK, TimerInv, NEW t \in Threads, ScheduleInsert(t)
    PROVE  (TypeOK /\ TimerInv)'
<1> USE DEF ScheduleInsert, At, Goto, Back, Overtaken, queue, calls
<1>a. Works(t, arg[t]) /\ arg[t] \in Ids
  BY HasEntry DEF TimerInv
<1>o. \A u \in Threads : u # t => ~Works(u, arg[t])
  BY OtherEntry DEF TimerInv
<1>w. \A u \in Threads, i \in Ids : Works(u, i)' <=> Works(u, i)
  BY DEF TypeOK, Works
<1>b. \A u \in Threads : u # t => (Behind(u)' <=> Behind(u)) /\ pc'[u] = pc[u]
  BY DEF TypeOK, Behind
<1>n. ~Behind(t) /\ pc'[t] = "sc_arm"
  BY DEF TypeOK, Behind
<1>p. timer[arg[t]].open /\ ~entry[arg[t]].closeAfterCallback
  BY <1>a, <1>n DEF TimerInv, ClosedInv, ClosedOf, SelfOwner
<1>l. late \subseteq late'
  OBVIOUS
<1>1. TypeOK'
  <2>1. arg[t] \in Ids
    BY ThreadFacts DEF TypeOK, TimerInv, ThreadInv, Works
  <2>2. entry' \in [Ids -> Entries]
    BY <2>1 DEF TypeOK
  <2>3. timer' \in [Ids -> Timers]
    BY <2>1 DEF TypeOK
  <2>4. pc' \in [Threads -> Labels]
    BY DEF TypeOK
  <2> QED
    BY <2>1, <2>2, <2>3, <2>4, ThreadFacts DEF TypeOK
<1>2. IdInv'
  <2>1. Creating' = Creating
    BY DEF TypeOK, Creating
  <2> QED
    BY <2>1 DEF TimerInv, IdInv
<1>3. ThreadInv'
  BY ThreadFacts DEF TypeOK, TimerInv, ThreadInv, Works
<1>4. ClosedInv'
  <2> SUFFICES ASSUME NEW i \in Ids PROVE ClosedOf(i)'
    BY DEF ClosedInv
  <2>1. ClosedOf(i)
    BY DEF TimerInv, ClosedInv
  <2>2. i = arg[t] => timer[i].open
    BY <1>p
  <2>3. \A u \in Threads : Works(u, i)' /\ ~timer[i].open => Behind(u)'
    BY <1>n, <1>w, <1>b, <2>1, <2>2 DEF ClosedOf
  <2> QED
    BY <1>w, <1>l, <2>1, <2>2, <2>3 DEF ClosedOf
<1>5. CallInv'
  <2> SUFFICES ASSUME NEW u \in Threads PROVE CallOf(u)'
    BY DEF CallInv
  <2>1. CallOf(u)
    BY DEF TimerInv, CallInv
  <2>2. CASE u = t
    BY <1>n, <2>1, <2>2 DEF CallOf
  <2>3. CASE u # t
    BY <1>b, <1>l, <2>1, <2>3 DEF CallOf
  <2> QED
    BY <2>2, <2>3
<1>6. ShutInv'
  <2>1. \A u \in Threads : Shutting(u)' <=> Shutting(u)
    BY DEF TypeOK, Shutting
  <2>2. m_QueueState # "Running" => arg[t] \in late'
    OBVIOUS
  <2>3. m_QueueState = "Dead" => m_Entries' \subseteq late'
    BY <1>l, <2>2 DEF TimerInv, ShutInv
  <2>4. \A u \in Threads : pc'[u] \in ShutdownLabels => u # t /\ pc[u] = pc'[u]
    BY <1>n, <1>b
  <2>5. \A u \in Threads : Shutting(u) /\ pc'[u] # "sd_snap" => m_Entries' \subseteq ids[u] \cup late'
    <3> SUFFICES ASSUME NEW u \in Threads, Shutting(u), pc'[u] # "sd_snap"
                 PROVE  m_Entries' \subseteq ids[u] \cup late'
      OBVIOUS
    <3>1. u # t /\ pc[u] # "sd_snap"
      BY <1>b DEF Shutting
    <3>2. m_Entries \subseteq ids[u] \cup late /\ m_QueueState = "ShuttingDown"
      BY <3>1 DEF TimerInv, ShutInv
    <3> QED
      BY <1>l, <2>2, <3>2
  <2> QED
    BY <2>1, <2>3, <2>4, <2>5 DEF TimerInv, ShutInv
<1>7. SomeOwner'
  BY ThreadFacts DEF TypeOK, TimerInv, SomeOwner, ClosedOf, CallOf, ThreadInv, ClosedInv,
     CallInv, Owns
<1>8. MapOwner'
  BY <1>a, <1>b, <1>n, <1>o, <1>p, <1>w DEF TypeOK, TimerInv, MapOwner
<1>9. CallOwner'
  <2>1. \A u, v \in Threads, i \in Ids : Works(u, i) /\ Works(v, i) /\ (u = t \/ v = t) => u = v
    BY <1>a, <1>o DEF Works
  <2> QED
    BY <1>b, <1>w, <2>1 DEF TimerInv, CallOwner, Guest
<1>10. SelfOwner'
  <2>1. \A u \in Threads : pc[u] \notin Starting => pc'[u] \notin Starting
    BY DEF TypeOK
  <2>2. \A u \in Threads, i \in Ids : entry[i].closeAfterCallback /\ Works(u, i) => u # t
    BY <1>a, <1>p DEF Works
  <2> QED
    BY <1>b, <1>l, <1>w, <2>1, <2>2 DEF TimerInv, SelfOwner
<1> QED
  BY <1>1, <1>2, <1>3, <1>4, <1>5, <1>6, <1>7, <1>8, <1>9, <1>10 DEF TimerInv

(* Schedule sets the timer it has put into the map. *)
LEMMA ScheduleArmStep ==
    ASSUME TypeOK, TimerInv, NEW t \in Threads, ScheduleArm(t)
    PROVE  (TypeOK /\ TimerInv)'
<1> USE DEF ScheduleArm, At, Goto, Back, Overtaken, queue, calls
<1>a. Works(t, arg[t]) /\ arg[t] \in Ids
  BY HasEntry DEF TimerInv
<1>o. \A u \in Threads : u # t /\ Works(u, arg[t]) => Behind(t) /\ pc[u] \in CancelLabels
  BY OtherOfArm DEF TimerInv
<1>w. \A u \in Threads, i \in Ids : Works(u, i)' <=> u # t /\ Works(u, i)
  BY DEF TypeOK, Works
<1>b. \A u \in Threads : u # t => (Behind(u)' <=> Behind(u)) /\ pc'[u] = pc[u]
  BY DEF TypeOK, Behind
<1>l. late \subseteq late' /\ (Behind(t) => arg[t] \in late')
  BY DEF Behind
<1>f. \A i \in Ids : /\ timer'[i].open = timer[i].open /\ timer'[i].queued = timer[i].queued
                      /\ (i # arg[t] => timer'[i].armed = timer[i].armed)
                      /\ (timer'[i].armed => timer[i].armed \/ (i = arg[t] /\ timer[i].open))
  BY <1>a DEF TypeOK
<1>1. TypeOK'
  <2>1. arg[t] \in Ids
    BY ThreadFacts DEF TypeOK, TimerInv, ThreadInv, Works
  <2>2. entry' \in [Ids -> Entries]
    BY <2>1 DEF TypeOK
  <2>3. timer' \in [Ids -> Timers]
    BY <2>1 DEF TypeOK
  <2>4. pc' \in [Threads -> Labels]
    BY DEF TypeOK
  <2> QED
    BY <2>1, <2>2, <2>3, <2>4, ThreadFacts DEF TypeOK
<1>2. IdInv'
  <2>1. Creating' = Creating
    BY DEF TypeOK, Creating
  <2> QED
    BY <2>1 DEF TimerInv, IdInv
<1>3. ThreadInv'
  BY ThreadFacts DEF TypeOK, TimerInv, ThreadInv, Works
<1>4. ClosedInv'
  <2> SUFFICES ASSUME NEW i \in Ids PROVE ClosedOf(i)'
    BY DEF ClosedInv
  <2>1. ClosedOf(i)
    BY DEF TimerInv, ClosedInv
  <2>2. i >= m_NextId => i # arg[t]
    BY <1>a, <2>1 DEF ClosedOf
  <2> QED
    BY <1>b, <1>f, <1>l, <1>w, <2>1, <2>2 DEF ClosedOf
<1>5. CallInv'
  <2> SUFFICES ASSUME NEW u \in Threads PROVE CallOf(u)'
    BY DEF CallInv
  <2>1. CASE u = t
    BY <2>1 DEF TypeOK, CallOf
  <2>2. CASE u # t
    <3>1. CallOf(u) /\ pc'[u] = pc[u]
      BY <1>b, <2>2 DEF TimerInv, CallInv
    <3>2. CASE pc[u] \in {"sc_insert", "sc_arm"} \cup CancelLabels
      <4>1. Works(u, arg[u]) /\ arg[u] \in Ids
        BY <3>2, HasEntry DEF TimerInv
      <4>2. arg[u] = arg[t] => arg[u] \in late' /\ pc[u] \in CancelLabels
        BY <1>l, <1>o, <2>2, <4>1
      <4> QED
        BY <1>f, <1>l, <3>1, <4>1, <4>2 DEF CallOf
    <3>3. CASE pc[u] \notin {"sc_insert", "sc_arm"} \cup CancelLabels
      BY <3>1, <3>3 DEF CallOf
    <3> QED
      BY <3>2, <3>3
  <2> QED
    BY <2>1, <2>2
<1>6. ShutInv'
  <2>1. \A u \in Threads : Shutting(u)' <=> Shutting(u)
    BY DEF TypeOK, Shutting
  <2>2. \A u \in Threads : pc'[u] \in ShutdownLabels => u # t
    BY DEF TypeOK
  <2>3. ~Shutting(t)
    BY DEF Shutting
  <2> QED
    BY <1>b, <1>l, <2>1, <2>2, <2>3 DEF TimerInv, ShutInv
<1>7. SomeOwner'
  <2>1. \A u \in Threads, i \in Ids : Owns(u, i) => Owns(u, i)'
    BY DEF TypeOK, Owns
  <2> QED
    BY <1>f, <2>1 DEF TimerInv, SomeOwner
<1>8. MapOwner'
  BY ThreadFacts DEF TypeOK, TimerInv, MapOwner, ClosedOf, CallOf, ThreadInv, ClosedInv,
     CallInv, Works
<1>9. CallOwner'
  BY <1>b, <1>w DEF TimerInv, CallOwner, Guest
<1>10. SelfOwner'
  <2>1. \A u \in Pool : pc[u] \notin Starting => pc'[u] \notin Starting
    BY DEF TypeOK
  <2>2. entry[arg[t]].closeAfterCallback => Behind(t)
    BY <1>a DEF TimerInv, SelfOwner
  <2> QED
    BY <1>b, <1>f, <1>l, <1>w, <2>1, <2>2 DEF TimerInv, SelfOwner
<1> QED
  BY <1>1, <1>2, <1>3, <1>4, <1>5, <1>6, <1>7, <1>8, <1>9, <1>10 DEF TimerInv

(* Cancel takes the entry from the map and becomes its owner. *)
LEMMA CancelFindStep ==
    ASSUME TypeOK, TimerInv, NEW t \in Threads, NEW i \in Ids, CancelFind(t, i)
    PROVE  (TypeOK /\ TimerInv)'
<1> USE DEF CancelFind, At, Goto, Back, MayCall, Take, queue, calls
<1>1. TypeOK'
  BY ThreadFacts DEF TypeOK, TimerInv, ThreadInv, Works
<1>2. IdInv'
  <2>1. Creating' = Creating
    BY DEF TypeOK, Creating
  <2> QED
    BY <2>1 DEF TimerInv, IdInv
<1>3. ThreadInv'
  BY ThreadFacts DEF TypeOK, TimerInv, ThreadInv, Works
<1>4. ClosedInv'
  BY ThreadFacts DEF TypeOK, TimerInv, ClosedInv, ClosedOf, CallOf, ThreadInv, Works, CallInv, Behind
<1>5. CallInv'
  BY ThreadFacts DEF TypeOK, TimerInv, CallInv, ClosedOf, CallOf, ThreadInv, ClosedInv,
     MapOwner, CallOwner, SelfOwner, ShutInv, Shutting, Works
<1>6. ShutInv'
  BY ThreadFacts DEF TypeOK, TimerInv, ShutInv, CallOf, ThreadInv, CallInv, Works, Shutting
<1>7. SomeOwner'
  BY ThreadFacts DEF TypeOK, TimerInv, SomeOwner, ClosedOf, CallOf, ThreadInv, ClosedInv,
     CallInv, Owns
<1>8. MapOwner'
  BY ThreadFacts DEF TypeOK, TimerInv, MapOwner, ClosedOf, CallOf, ThreadInv, ClosedInv,
     CallInv, Works
<1>9. CallOwner'
  <2>1. \A u \in Threads : ~Works(u, i)
    BY DEF TimerInv, MapOwner, CallInv, CallOf, Works
  <2>2. \A u \in Threads, j \in Ids :
           Works(u, j)' => (u = t /\ j = i) \/ (u # t /\ Works(u, j))
    BY DEF TypeOK, Works
  <2>3. \A u \in Threads : u # t => pc'[u] = pc[u] /\ (Behind(u) => Behind(u)')
    BY DEF TypeOK, Behind
  <2> QED
    BY <2>1, <2>2, <2>3 DEF TimerInv, CallOwner, Guest
<1>10. SelfOwner'
  BY ThreadFacts DEF TypeOK, TimerInv, SelfOwner, ClosedOf, CallOf, ThreadInv, ClosedInv,
     MapOwner, CallOwner, CallInv, Works, Behind
<1> QED
  BY <1>1, <1>2, <1>3, <1>4, <1>5, <1>6, <1>7, <1>8, <1>9, <1>10 DEF TimerInv

(* Cancel marks the entry. *)
LEMMA CancelStateStep ==
    ASSUME TypeOK, TimerInv, NEW t \in Threads, CancelState(t)
    PROVE  (TypeOK /\ TimerInv)'
<1> USE DEF CancelState, At, Goto, Back, queue, calls
<1>1. TypeOK'
  <2>1. arg[t] \in Ids
    BY ThreadFacts DEF TypeOK, TimerInv, ThreadInv, Works
  <2>2. entry' \in [Ids -> Entries]
    BY <2>1 DEF TypeOK
  <2>3. timer' \in [Ids -> Timers]
    BY <2>1 DEF TypeOK
  <2>4. pc' \in [Threads -> Labels]
    BY DEF TypeOK
  <2> QED
    BY <2>1, <2>2, <2>3, <2>4, ThreadFacts DEF TypeOK
<1>2. IdInv'
  <2>1. Creating' = Creating
    BY DEF TypeOK, Creating
  <2> QED
    BY <2>1 DEF TimerInv, IdInv
<1>3. ThreadInv'
  BY ThreadFacts DEF TypeOK, TimerInv, ThreadInv, Works
<1>4. ClosedInv'
  BY ThreadFacts DEF TypeOK, TimerInv, ClosedInv, ClosedOf, CallOf, ThreadInv, Works, CallInv, Behind
<1>5. CallInv'
  BY ThreadFacts DEF TypeOK, TimerInv, CallInv, ClosedOf, CallOf, ThreadInv, ClosedInv,
     MapOwner, CallOwner, SelfOwner, ShutInv, Shutting, Works
<1>6. ShutInv'
  BY ThreadFacts DEF TypeOK, TimerInv, ShutInv, CallOf, ThreadInv, CallInv, Works, Shutting
<1>7. SomeOwner'
  BY ThreadFacts DEF TypeOK, TimerInv, SomeOwner, ClosedOf, CallOf, ThreadInv, ClosedInv,
     CallInv, Owns
<1>8. MapOwner'
  BY ThreadFacts DEF TypeOK, TimerInv, MapOwner, ClosedOf, CallOf, ThreadInv, ClosedInv,
     CallInv, Works
<1>9. CallOwner'
  <2>1. \A u \in Threads, j \in Ids : Works(u, j)' =>
           /\ Works(u, j)
           /\ Behind(u) => Behind(u)'
           /\ pc[u] \in CancelLabels => pc'[u] \in CancelLabels
    BY DEF TypeOK, Works, Behind
  <2> QED
    BY <2>1 DEF TimerInv, CallOwner, Guest
<1>10. SelfOwner'
  BY ThreadFacts DEF TypeOK, TimerInv, SelfOwner, ClosedOf, CallOf, ThreadInv, ClosedInv,
     MapOwner, CallOwner, CallInv, Works, Behind
<1> QED
  BY <1>1, <1>2, <1>3, <1>4, <1>5, <1>6, <1>7, <1>8, <1>9, <1>10 DEF TimerInv

(* Cancel disarms the timer and sees whether it is inside its own callback. *)
LEMMA CancelDisarmStep ==
    ASSUME TypeOK, TimerInv, NEW t \in Threads, CancelDisarm(t)
    PROVE  (TypeOK /\ TimerInv)'
<1>w. Works(t, arg[t]) /\ arg[t] \in Ids
  BY ThreadFacts DEF At, CancelDisarm, TypeOK, TimerInv, ThreadInv, Works
<1>h. entry[arg[t]].handle
  BY <1>w DEF CancelDisarm, At, Behind, TimerInv, ClosedInv, ClosedOf, TypeOK
<1>0. /\ pc[t] = "ca_disarm"
      /\ timer' = [timer EXCEPT ![arg[t]].armed = FALSE]
      /\ UNCHANGED <<queue, entry, cur, calls>>
  BY <1>h DEF CancelDisarm, At
<1>a. PICK l \in {"ca_defer", "ca_wait"} :
         pc' = [pc EXCEPT ![t] = l] /\ (l = "ca_defer" => cur[t] = arg[t])
  BY <1>h DEF CancelDisarm, Goto
<1> USE <1>0, <1>a, <1>w DEF queue, calls
<1>1. TypeOK'
  <2>1. timer' \in [Ids -> Timers]
    BY DEF TypeOK
  <2> QED
    BY <2>1 DEF TypeOK
<1>2. IdInv'
  <2>1. Creating' = Creating
    BY DEF TypeOK, Creating
  <2> QED
    BY <2>1 DEF TimerInv, IdInv
<1>3. ThreadInv'
  BY ThreadFacts DEF TypeOK, TimerInv, ThreadInv, Works
<1>4. ClosedInv'
  BY ThreadFacts DEF TypeOK, TimerInv, ClosedInv, ClosedOf, CallOf, ThreadInv, Works, CallInv, Behind
<1>5. CallInv'
  BY ThreadFacts DEF TypeOK, TimerInv, CallInv, ClosedOf, CallOf, ThreadInv, ClosedInv,
     MapOwner, CallOwner, SelfOwner, ShutInv, Shutting, Works
<1>6. ShutInv'
  BY ThreadFacts DEF TypeOK, TimerInv, ShutInv, CallOf, ThreadInv, CallInv, Works, Shutting
<1>7. SomeOwner'
  BY ThreadFacts DEF TypeOK, TimerInv, SomeOwner, ClosedOf, CallOf, ThreadInv, ClosedInv,
     CallInv, Owns
<1>8. MapOwner'
  BY ThreadFacts DEF TypeOK, TimerInv, MapOwner, ClosedOf, CallOf, ThreadInv, ClosedInv,
     CallInv, Works
<1>9. CallOwner'
  <2>1. \A u \in Threads, j \in Ids : Works(u, j)' =>
           /\ Works(u, j)
           /\ Behind(u) => Behind(u)'
           /\ pc[u] \in CancelLabels => pc'[u] \in CancelLabels
    BY DEF TypeOK, Works, Behind
  <2> QED
    BY <2>1 DEF TimerInv, CallOwner, Guest
<1>10. SelfOwner'
  <2>1. \A u \in Threads, i \in Ids : Works(u, i)' => Works(u, i) /\ (Behind(u) => Behind(u)')
    BY DEF TypeOK, Works, Behind
  <2>2. \A u \in Threads : pc[u] \notin Starting => pc'[u] \notin Starting
    BY DEF TypeOK
  <2>3. \A i \in Ids : timer'[i].armed => timer[i].armed
    BY DEF TypeOK
  <2> QED
    BY <2>1, <2>2, <2>3 DEF TimerInv, SelfOwner
<1> QED
  BY <1>1, <1>2, <1>3, <1>4, <1>5, <1>6, <1>7, <1>8, <1>9, <1>10 DEF TimerInv

(* Self-cancel: the running callback becomes the owner. *)
LEMMA CancelDeferStep ==
    ASSUME TypeOK, TimerInv, NEW t \in Threads, CancelDefer(t)
    PROVE  (TypeOK /\ TimerInv)'
<1> USE DEF CancelDefer, At, Goto, Back, AfterCancel, queue, calls
<1>1. TypeOK'
  <2>1. arg[t] \in Ids
    BY ThreadFacts DEF TypeOK, TimerInv, ThreadInv, Works
  <2>2. entry' \in [Ids -> Entries]
    BY <2>1 DEF TypeOK
  <2>3. timer' \in [Ids -> Timers]
    BY <2>1 DEF TypeOK
  <2>4. pc' \in [Threads -> Labels]
    BY DEF TypeOK
  <2> QED
    BY <2>1, <2>2, <2>3, <2>4, ThreadFacts DEF TypeOK
<1>2. IdInv'
  <2>1. Creating' = Creating
    BY DEF TypeOK, Creating
  <2> QED
    BY <2>1 DEF TimerInv, IdInv
<1>3. ThreadInv'
  BY ThreadFacts DEF TypeOK, TimerInv, ThreadInv, Works
<1>4. ClosedInv'
  BY ThreadFacts DEF TypeOK, TimerInv, ClosedInv, ClosedOf, CallOf, ThreadInv, Works, CallInv, Behind
<1>5. CallInv'
  BY ThreadFacts DEF TypeOK, TimerInv, CallInv, ClosedOf, CallOf, ThreadInv, ClosedInv,
     MapOwner, CallOwner, SelfOwner, ShutInv, Shutting, Works
<1>6. ShutInv'
  BY ThreadFacts DEF TypeOK, TimerInv, ShutInv, CallOf, ThreadInv, CallInv, Works, Shutting
<1>7. SomeOwner'
  BY ThreadFacts DEF TypeOK, TimerInv, SomeOwner, ClosedOf, CallOf, ThreadInv, ClosedInv,
     CallInv, Owns
<1>8. MapOwner'
  BY ThreadFacts DEF TypeOK, TimerInv, MapOwner, ClosedOf, CallOf, ThreadInv, ClosedInv,
     CallInv, Works
<1>9. CallOwner'
  <2>1. \A u \in Threads, j \in Ids : Works(u, j)' =>
           /\ Works(u, j)
           /\ Behind(u) => Behind(u)'
           /\ pc[u] \in CancelLabels => pc'[u] \in CancelLabels
    BY DEF TypeOK, Works, Behind
  <2> QED
    BY <2>1 DEF TimerInv, CallOwner, Guest
<1>10. SelfOwner'
  <2>1. Works(t, arg[t]) /\ arg[t] \in Ids
    BY HasEntry DEF TimerInv
  <2>2. \A u \in Threads : u # t /\ Works(u, arg[t]) => Behind(u)
    BY OtherEntry DEF TimerInv
  <2>0. arg[t] # 0
    BY <2>1, ThreadFacts
  <2>3. (timer[arg[t]].armed => arg[t] \in late) /\ cur[t] = arg[t] /\ t \in Pool
    BY <2>0 DEF TimerInv, ThreadInv, CallInv, CallOf
  <2>4. \A u \in Threads, i \in Ids :
           Works(u, i)' => u # t /\ Works(u, i) /\ (Behind(u) => Behind(u)')
    BY DEF TypeOK, Works, Behind
  <2>5. \A u \in Threads : pc[u] \notin Starting => pc'[u] \notin Starting
    BY <2>3 DEF TypeOK
  <2>6. pc'[t] \notin Starting
    BY <2>3, <2>5
  <2>7. \A i \in Ids : entry'[i].closeAfterCallback = (i = arg[t] \/ entry[i].closeAfterCallback)
    BY <2>1 DEF TypeOK
  <2>8. deferred' = deferred \cup {arg[t]}
    OBVIOUS
  <2> SUFFICES ASSUME NEW i \in Ids, entry'[i].closeAfterCallback
               PROVE  /\ i \in deferred' /\ (timer'[i].armed => i \in late')
                      /\ \A u \in Threads : Works(u, i)' => Behind(u)'
                      /\ \E u \in Pool : cur'[u] = i /\ pc'[u] \notin Starting
    BY DEF SelfOwner
  <2> HIDE DEF Starting
  <2>9. CASE i = arg[t]
    BY <2>2, <2>3, <2>4, <2>6, <2>8, <2>9
  <2>10. CASE i # arg[t]
    BY <2>4, <2>5, <2>7, <2>8, <2>10 DEF TimerInv, SelfOwner
  <2> QED
    BY <2>9, <2>10
<1> QED
  BY <1>1, <1>2, <1>3, <1>4, <1>5, <1>6, <1>7, <1>8, <1>9, <1>10 DEF TimerInv

(* Cancel begins to wait; what is queued may be dropped. *)
LEMMA CancelWaitStep ==
    ASSUME TypeOK, TimerInv, NEW t \in Threads, CancelWait(t)
    PROVE  (TypeOK /\ TimerInv)'
<1> USE DEF CancelWait, At, Goto, Back, queue, calls
<1>1. TypeOK'
  <2>1. arg[t] \in Ids
    BY ThreadFacts DEF TypeOK, TimerInv, ThreadInv, Works
  <2>2. entry' \in [Ids -> Entries]
    BY <2>1 DEF TypeOK
  <2>3. timer' \in [Ids -> Timers]
    BY <2>1 DEF TypeOK
  <2>4. pc' \in [Threads -> Labels]
    BY DEF TypeOK
  <2> QED
    BY <2>1, <2>2, <2>3, <2>4, ThreadFacts DEF TypeOK
<1>2. IdInv'
  <2>1. Creating' = Creating
    BY DEF TypeOK, Creating
  <2> QED
    BY <2>1 DEF TimerInv, IdInv
<1>3. ThreadInv'
  BY ThreadFacts DEF TypeOK, TimerInv, ThreadInv, Works
<1>4. ClosedInv'
  BY ThreadFacts DEF TypeOK, TimerInv, ClosedInv, ClosedOf, CallOf, ThreadInv, Works, CallInv, Behind
<1>5. CallInv'
  <2>1. arg[t] \in Ids
    BY ThreadFacts DEF TypeOK, TimerInv, ThreadInv, Works
  <2>2. \A i \in Ids : /\ timer'[i].armed = timer[i].armed
                      /\ timer[i].queued = 0 => timer'[i].queued = 0
    BY <2>1 DEF TypeOK
  <2> SUFFICES ASSUME NEW u \in Threads PROVE CallOf(u)'
    BY DEF CallInv
  <2>3. pc[u] \in CancelLabels => arg[u] \in Ids
    BY ThreadFacts DEF TypeOK, TimerInv, ThreadInv, Works
  <2>4. CallOf(u)
    BY DEF TimerInv, CallInv
  <2>5. CASE u = t
    BY <2>2, <2>3, <2>4, <2>5 DEF TypeOK, CallOf
  <2>6. CASE u # t
    BY <2>2, <2>3, <2>4, <2>6 DEF TypeOK, CallOf
  <2> QED
    BY <2>5, <2>6
<1>6. ShutInv'
  BY ThreadFacts DEF TypeOK, TimerInv, ShutInv, CallOf, ThreadInv, CallInv, Works, Shutting
<1>7. SomeOwner'
  BY ThreadFacts DEF TypeOK, TimerInv, SomeOwner, ClosedOf, CallOf, ThreadInv, ClosedInv,
     CallInv, Owns
<1>8. MapOwner'
  BY ThreadFacts DEF TypeOK, TimerInv, MapOwner, ClosedOf, CallOf, ThreadInv, ClosedInv,
     CallInv, Works
<1>9. CallOwner'
  <2>1. \A u \in Threads, j \in Ids : Works(u, j)' =>
           /\ Works(u, j)
           /\ Behind(u) => Behind(u)'
           /\ pc[u] \in CancelLabels => pc'[u] \in CancelLabels
    BY DEF TypeOK, Works, Behind
  <2> QED
    BY <2>1 DEF TimerInv, CallOwner, Guest
<1>10. SelfOwner'
  BY ThreadFacts DEF TypeOK, TimerInv, SelfOwner, ClosedOf, CallOf, ThreadInv, ClosedInv,
     MapOwner, CallOwner, CallInv, Works, Behind
<1> QED
  BY <1>1, <1>2, <1>3, <1>4, <1>5, <1>6, <1>7, <1>8, <1>9, <1>10 DEF TimerInv

(* The wait is over: nothing of the timer is outstanding. *)
LEMMA CancelWaitedStep ==
    ASSUME TypeOK, TimerInv, NEW t \in Threads, CancelWaited(t)
    PROVE  (TypeOK /\ TimerInv)'
<1> USE DEF CancelWaited, At, Goto, Back, queue, calls
<1>1. TypeOK'
  BY ThreadFacts DEF TypeOK, TimerInv, ThreadInv, Works
<1>2. IdInv'
  <2>1. Creating' = Creating
    BY DEF TypeOK, Creating
  <2> QED
    BY <2>1 DEF TimerInv, IdInv
<1>3. ThreadInv'
  BY ThreadFacts DEF TypeOK, TimerInv, ThreadInv, Works
<1>4. ClosedInv'
  BY ThreadFacts DEF TypeOK, TimerInv, ClosedInv, ClosedOf, CallOf, ThreadInv, Works, CallInv, Behind
<1>5. CallInv'
  <2>1. arg[t] \in Ids
    BY ThreadFacts DEF TypeOK, TimerInv, ThreadInv, Works
  <2>2. timer[arg[t]].queued = 0 /\ \A u \in Pool : cur[u] # arg[t]
    BY <2>1, NoneOutstanding DEF TimerInv
  <2> QED
    BY <2>2 DEF TypeOK, TimerInv, CallInv, CallOf
<1>6. ShutInv'
  BY ThreadFacts DEF TypeOK, TimerInv, ShutInv, CallOf, ThreadInv, CallInv, Works, Shutting
<1>7. SomeOwner'
  <2>1. \A u \in Threads, j \in Ids : Owns(u, j) => Owns(u, j)'
    BY DEF TypeOK, Owns
  <2> QED
    BY <2>1 DEF TimerInv, SomeOwner
<1>8. MapOwner'
  BY ThreadFacts DEF TypeOK, TimerInv, MapOwner, ClosedOf, CallOf, ThreadInv, ClosedInv,
     CallInv, Works
<1>9. CallOwner'
  <2>1. \A u \in Threads, j \in Ids : Works(u, j)' =>
           /\ Works(u, j)
           /\ Behind(u) => Behind(u)'
           /\ pc[u] \in CancelLabels => pc'[u] \in CancelLabels
    BY DEF TypeOK, Works, Behind
  <2> QED
    BY <2>1 DEF TimerInv, CallOwner, Guest
<1>10. SelfOwner'
  BY ThreadFacts DEF TypeOK, TimerInv, SelfOwner, ClosedOf, CallOf, ThreadInv, ClosedInv,
     MapOwner, CallOwner, CallInv, Works, Behind
<1> QED
  BY <1>1, <1>2, <1>3, <1>4, <1>5, <1>6, <1>7, <1>8, <1>9, <1>10 DEF TimerInv

(* Cancel closes the timer it owns. *)
LEMMA CancelCloseStep ==
    ASSUME TypeOK, TimerInv, NEW t \in Threads, CancelClose(t)
    PROVE  (TypeOK /\ TimerInv)'
<1> USE DEF CancelClose, At, Goto, Back, AfterCancel, queue, calls
<1>1. TypeOK'
  <2>1. arg[t] \in Ids
    BY ThreadFacts DEF TypeOK, TimerInv, ThreadInv, Works
  <2>2. entry' \in [Ids -> Entries]
    BY <2>1 DEF TypeOK
  <2>3. timer' \in [Ids -> Timers]
    BY <2>1 DEF TypeOK
  <2>4. pc' \in [Threads -> Labels]
    BY DEF TypeOK
  <2> QED
    BY <2>1, <2>2, <2>3, <2>4, ThreadFacts DEF TypeOK
<1>2. IdInv'
  <2>1. Creating' = Creating
    BY DEF TypeOK, Creating
  <2> QED
    BY <2>1 DEF TimerInv, IdInv
<1>3. ThreadInv'
  BY ThreadFacts DEF TypeOK, TimerInv, ThreadInv, Works
<1>4. ClosedInv'
  <2>1. Works(t, arg[t]) /\ arg[t] \in Ids
    BY HasEntry DEF TimerInv
  <2>2. \A u \in Threads : u # t /\ Works(u, arg[t]) => Behind(u)
    BY OtherEntry DEF TimerInv
  <2>3. /\ arg[t] \notin m_Entries /\ ~entry[arg[t]].closeAfterCallback
        /\ timer[arg[t]].armed => arg[t] \in late
        /\ \/ timer[arg[t]].queued = 0 /\ \A u \in Pool : cur[u] # arg[t]
           \/ arg[t] \in late
    BY <2>1 DEF TypeOK, TimerInv, MapOwner, SelfOwner, CallInv, CallOf, Behind
  <2>4. \A u \in Threads, i \in Ids :
           Works(u, i)' => u # t /\ Works(u, i) /\ (Behind(u) => Behind(u)')
    BY DEF TypeOK, Works, Behind
  <2>5. /\ timer'[arg[t]].open = FALSE /\ entry'[arg[t]].handle = FALSE
        /\ timer'[arg[t]].armed = timer[arg[t]].armed
        /\ timer'[arg[t]].queued = timer[arg[t]].queued
        /\ entry'[arg[t]].closeAfterCallback = entry[arg[t]].closeAfterCallback
    BY <2>1 DEF TypeOK
  <2>6. \A i \in Ids : i # arg[t] => timer'[i] = timer[i] /\ entry'[i] = entry[i]
    BY <2>1 DEF TypeOK
  <2> SUFFICES ASSUME NEW i \in Ids PROVE ClosedOf(i)'
    BY DEF ClosedInv
  <2>7. ClosedOf(i)
    BY DEF TimerInv, ClosedInv
  <2>8. CASE i = arg[t]
    <3>1. \A u \in Threads : Works(u, i)' => Behind(u)'
      BY <2>2, <2>4, <2>8
    <3>2. ~(i >= m_NextId)
      BY <2>1, <2>7, <2>8 DEF ClosedOf
    <3> QED
      BY <2>3, <2>5, <2>8, <3>1, <3>2 DEF ClosedOf
  <2>9. CASE i # arg[t]
    BY <2>4, <2>6, <2>7, <2>9 DEF ClosedOf
  <2> QED
    BY <2>8, <2>9
<1>5. CallInv'
  BY ThreadFacts DEF TypeOK, TimerInv, CallInv, ClosedOf, CallOf, ThreadInv, ClosedInv,
     MapOwner, CallOwner, SelfOwner, ShutInv, Shutting, Works
<1>6. ShutInv'
  BY ThreadFacts DEF TypeOK, TimerInv, ShutInv, CallOf, ThreadInv, CallInv, Works, Shutting
<1>7. SomeOwner'
  BY ThreadFacts DEF TypeOK, TimerInv, SomeOwner, ClosedOf, CallOf, ThreadInv, ClosedInv,
     CallInv, Owns
<1>8. MapOwner'
  BY ThreadFacts DEF TypeOK, TimerInv, MapOwner, ClosedOf, CallOf, ThreadInv, ClosedInv,
     CallInv, Works
<1>9. CallOwner'
  <2>1. \A u \in Threads, j \in Ids : Works(u, j)' =>
           /\ Works(u, j)
           /\ Behind(u) => Behind(u)'
           /\ pc[u] \in CancelLabels => pc'[u] \in CancelLabels
    BY DEF TypeOK, Works, Behind
  <2> QED
    BY <2>1 DEF TimerInv, CallOwner, Guest
<1>10. SelfOwner'
  BY ThreadFacts DEF TypeOK, TimerInv, SelfOwner, ClosedOf, CallOf, ThreadInv, ClosedInv,
     MapOwner, CallOwner, CallInv, Works, Behind
<1> QED
  BY <1>1, <1>2, <1>3, <1>4, <1>5, <1>6, <1>7, <1>8, <1>9, <1>10 DEF TimerInv

(* Shutdown begins, whatever Schedule is in progress. *)
LEMMA ShutdownStep ==
    ASSUME TypeOK, TimerInv, NEW t \in Threads, NEW w \in BOOLEAN, Shutdown(t, w)
    PROVE  (TypeOK /\ TimerInv)'
<1> USE DEF Shutdown, At, Goto, Back, MayCall, queue, calls
<1>1. TypeOK'
  BY ThreadFacts DEF TypeOK, TimerInv, ThreadInv, Works
<1>2. IdInv'
  <2>1. Creating' = Creating
    BY DEF TypeOK, Creating
  <2> QED
    BY <2>1 DEF TimerInv, IdInv
<1>3. ThreadInv'
  BY ThreadFacts DEF TypeOK, TimerInv, ThreadInv, Works
<1>4. ClosedInv'
  BY ThreadFacts DEF TypeOK, TimerInv, ClosedInv, ClosedOf, CallOf, ThreadInv, Works, CallInv, Behind
<1>5. CallInv'
  BY ThreadFacts DEF TypeOK, TimerInv, CallInv, ClosedOf, CallOf, ThreadInv, ClosedInv,
     MapOwner, CallOwner, SelfOwner, ShutInv, Shutting, Works
<1>6. ShutInv'
  <2>1. \A u \in Threads : ~Shutting(u)
    BY DEF TimerInv, ShutInv
  <2>2. \A u \in Threads : Shutting(u)' <=> u = t
    BY <2>1 DEF TypeOK, Shutting
  <2> QED
    BY <2>2 DEF TypeOK, TimerInv, ShutInv
<1>7. SomeOwner'
  <2>1. \A u \in Threads, j \in Ids : Owns(u, j) => Owns(u, j)'
    BY DEF TypeOK, Owns
  <2> QED
    BY <2>1 DEF TimerInv, SomeOwner
<1>8. MapOwner'
  BY ThreadFacts DEF TypeOK, TimerInv, MapOwner, ClosedOf, CallOf, ThreadInv, ClosedInv,
     CallInv, Works
<1>9. CallOwner'
  <2>1. \A u \in Threads, j \in Ids : Works(u, j)' =>
           /\ Works(u, j)
           /\ Behind(u) => Behind(u)'
           /\ pc[u] \in CancelLabels => pc'[u] \in CancelLabels
    BY DEF TypeOK, Works, Behind
  <2> QED
    BY <2>1 DEF TimerInv, CallOwner, Guest
<1>10. SelfOwner'
  BY ThreadFacts DEF TypeOK, TimerInv, SelfOwner, ClosedOf, CallOf, ThreadInv, ClosedInv,
     MapOwner, CallOwner, CallInv, Works, Behind
<1> QED
  BY <1>1, <1>2, <1>3, <1>4, <1>5, <1>6, <1>7, <1>8, <1>9, <1>10 DEF TimerInv

(* The destructor begins. *)
LEMMA DestroyStep ==
    ASSUME TypeOK, TimerInv, NEW t \in Threads, Destroy(t)
    PROVE  (TypeOK /\ TimerInv)'
<1> USE DEF Destroy, At, Goto, Back, MayCall, queue, calls
<1>1. TypeOK'
  BY ThreadFacts DEF TypeOK, TimerInv, ThreadInv, Works
<1>2. IdInv'
  <2>1. Creating' = Creating
    BY DEF TypeOK, Creating
  <2> QED
    BY <2>1 DEF TimerInv, IdInv
<1>3. ThreadInv'
  BY ThreadFacts DEF TypeOK, TimerInv, ThreadInv, Works
<1>4. ClosedInv'
  BY ThreadFacts DEF TypeOK, TimerInv, ClosedInv, ClosedOf, CallOf, ThreadInv, Works, CallInv, Behind
<1>5. CallInv'
  BY ThreadFacts DEF TypeOK, TimerInv, CallInv, ClosedOf, CallOf, ThreadInv, ClosedInv,
     MapOwner, CallOwner, SelfOwner, ShutInv, Shutting, Works
<1>6. ShutInv'
  BY ThreadFacts DEF TypeOK, TimerInv, ShutInv, CallOf, ThreadInv, CallInv, Works, Shutting
<1>7. SomeOwner'
  <2>1. \A u \in Threads, j \in Ids : Owns(u, j) => Owns(u, j)'
    BY DEF TypeOK, Owns
  <2> QED
    BY <2>1 DEF TimerInv, SomeOwner
<1>8. MapOwner'
  BY ThreadFacts DEF TypeOK, TimerInv, MapOwner, ClosedOf, CallOf, ThreadInv, ClosedInv,
     CallInv, Works
<1>9. CallOwner'
  <2>1. \A u \in Threads, j \in Ids : Works(u, j)' =>
           /\ Works(u, j)
           /\ Behind(u) => Behind(u)'
           /\ pc[u] \in CancelLabels => pc'[u] \in CancelLabels
    BY DEF TypeOK, Works, Behind
  <2> QED
    BY <2>1 DEF TimerInv, CallOwner, Guest
<1>10. SelfOwner'
  <2>1. \A u \in Threads, j \in Ids : Works(u, j)' => Works(u, j) /\ (Behind(u) => Behind(u)')
    BY DEF TypeOK, Works, Behind
  <2>2. \A u \in Threads : pc[u] \notin Starting => pc'[u] \notin Starting /\ cur'[u] = cur[u]
    BY DEF TypeOK
  <2> QED
    BY <2>1, <2>2 DEF TimerInv, SelfOwner
<1> QED
  BY <1>1, <1>2, <1>3, <1>4, <1>5, <1>6, <1>7, <1>8, <1>9, <1>10 DEF TimerInv

(* Shutdown reads the ids in the map. *)
LEMMA ShutdownSnapshotStep ==
    ASSUME TypeOK, TimerInv, NEW t \in Threads, ShutdownSnapshot(t)
    PROVE  (TypeOK /\ TimerInv)'
<1> USE DEF ShutdownSnapshot, At, Goto, Back, queue, calls
<1>1. TypeOK'
  BY ThreadFacts DEF TypeOK, TimerInv, ThreadInv, Works
<1>2. IdInv'
  <2>1. Creating' = Creating
    BY DEF TypeOK, Creating
  <2> QED
    BY <2>1 DEF TimerInv, IdInv
<1>3. ThreadInv'
  BY ThreadFacts DEF TypeOK, TimerInv, ThreadInv, Works
<1>4. ClosedInv'
  BY ThreadFacts DEF TypeOK, TimerInv, ClosedInv, ClosedOf, CallOf, ThreadInv, Works, CallInv, Behind
<1>5. CallInv'
  BY ThreadFacts DEF TypeOK, TimerInv, CallInv, ClosedOf, CallOf, ThreadInv, ClosedInv,
     MapOwner, CallOwner, SelfOwner, ShutInv, Shutting, Works
<1>6. ShutInv'
  BY ThreadFacts DEF TypeOK, TimerInv, ShutInv, CallOf, ThreadInv, CallInv, Works, Shutting
<1>7. SomeOwner'
  <2>1. \A u \in Threads, j \in Ids : Owns(u, j) => Owns(u, j)'
    BY DEF TypeOK, Owns
  <2> QED
    BY <2>1 DEF TimerInv, SomeOwner
<1>8. MapOwner'
  BY ThreadFacts DEF TypeOK, TimerInv, MapOwner, ClosedOf, CallOf, ThreadInv, ClosedInv,
     CallInv, Works
<1>9. CallOwner'
  <2>1. \A u \in Threads, j \in Ids : Works(u, j)' =>
           /\ Works(u, j)
           /\ Behind(u) => Behind(u)'
           /\ pc[u] \in CancelLabels => pc'[u] \in CancelLabels
    BY DEF TypeOK, Works, Behind
  <2> QED
    BY <2>1 DEF TimerInv, CallOwner, Guest
<1>10. SelfOwner'
  BY ThreadFacts DEF TypeOK, TimerInv, SelfOwner, ClosedOf, CallOf, ThreadInv, ClosedInv,
     MapOwner, CallOwner, CallInv, Works, Behind
<1> QED
  BY <1>1, <1>2, <1>3, <1>4, <1>5, <1>6, <1>7, <1>8, <1>9, <1>10 DEF TimerInv

(* Shutdown takes an entry of its snapshot from the map. *)
LEMMA ShutdownNextTakesStep ==
    ASSUME TypeOK, TimerInv, NEW t \in Threads, NEW i \in Ids, ShutdownNext(t, i),
           i \in m_Entries
    PROVE  (TypeOK /\ TimerInv)'
<1>0. /\ pc[t] = "sd_next" /\ i \in ids[t]
      /\ ids' = [ids EXCEPT ![t] = @ \ {i}] /\ m_Entries' = m_Entries \ {i}
      /\ arg' = [arg EXCEPT ![t] = i] /\ pc' = [pc EXCEPT ![t] = "ca_state"]
      /\ UNCHANGED <<m_QueueState, m_NextId, ghosts, owned, entry, timer, cur, op, waits>>
  BY DEF ShutdownNext, Take, Goto, At
<1> USE <1>0
<1>w. \A u \in Threads, j \in Ids : Works(u, j)' <=> (IF u = t THEN j = i ELSE Works(u, j))
  BY DEF TypeOK, Works
<1>s. m_QueueState = "ShuttingDown"
  BY DEF TimerInv, ShutInv, Shutting
<1>n. /\ timer[i].open /\ ~entry[i].closeAfterCallback
      /\ \A u \in Threads : Works(u, i) => pc[u] = "sc_arm"
  BY DEF TypeOK, TimerInv, MapOwner, ClosedInv, ClosedOf
<1>b. \A u \in Threads : Behind(u)' <=> Behind(u)
  BY DEF TypeOK, Behind
<1>1. TypeOK'
  BY ThreadFacts DEF TypeOK, TimerInv, ThreadInv, Works
<1>2. IdInv'
  <2>1. Creating' = Creating
    BY DEF TypeOK, Creating
  <2> QED
    BY <2>1 DEF TimerInv, IdInv
<1>3. ThreadInv'
  BY ThreadFacts DEF TypeOK, TimerInv, ThreadInv, Works
<1>4. ClosedInv'
  <2> SUFFICES ASSUME NEW j \in Ids PROVE ClosedOf(j)'
    BY DEF ClosedInv
  <2>1. ClosedOf(j)
    BY DEF TimerInv, ClosedInv, ClosedOf
  <2> QED
    BY <1>b, <1>n, <1>w, <2>1 DEF ClosedOf, TypeOK
<1>5. CallInv'
  <2> SUFFICES ASSUME NEW u \in Threads PROVE CallOf(u)'
    BY DEF CallInv
  <2>1. CallOf(u)
    BY DEF TimerInv, CallInv
  <2>2. CASE u = t
    BY <2>2 DEF TypeOK, CallOf
  <2>3. CASE u # t
    BY <1>s, <2>1, <2>3 DEF TypeOK, CallOf
  <2> QED
    BY <2>2, <2>3
<1>6. ShutInv'
  <2>1. Shutting(t)
    BY DEF Shutting
  <2>2. m_QueueState = "ShuttingDown" /\ m_Entries \subseteq ids[t] \cup late /\ op[t] # "cancel"
    BY <2>1 DEF TimerInv, ShutInv
  <2>3. \A u \in Threads : u # t => ~Shutting(u)
    BY <2>1 DEF TimerInv, ShutInv
  <2>4. \A u \in Threads : Shutting(u)' <=> u = t
    BY <2>2, <2>3 DEF TypeOK, Shutting
  <2>5. m_Entries' \subseteq ids'[t] \cup late'
    BY <2>2 DEF TypeOK
  <2> QED
    BY <2>2, <2>4, <2>5 DEF TypeOK, TimerInv, ShutInv
<1>7. SomeOwner'
  <2>1. \A u \in Threads, j \in Ids : Owns(u, j) => Owns(u, j)'
    BY DEF TypeOK, Owns
  <2>2. Owns(t, i)'
    BY DEF TypeOK, Owns
  <2> QED
    BY <2>1, <2>2 DEF TimerInv, SomeOwner
<1>8. MapOwner'
  <2>1. \A u \in Threads, j \in Ids : Works(u, j)' /\ j # i => u # t /\ Works(u, j)
    BY <1>w
  <2>2. \A u \in Threads : u # t => pc'[u] = pc[u]
    BY DEF TypeOK
  <2> QED
    BY <2>1, <2>2 DEF TypeOK, TimerInv, MapOwner
<1>9. CallOwner'
  <2>1. \A u \in Threads : Works(u, i) => Behind(u)
    BY <1>n, <1>s DEF Behind
  <2>2. pc'[t] \in CancelLabels /\ \A u \in Threads : u # t => pc'[u] = pc[u]
    BY DEF TypeOK
  <2> QED
    BY <1>b, <1>w, <2>1, <2>2 DEF TimerInv, CallOwner, Guest
<1>10. SelfOwner'
  <2>1. \A u \in Threads : pc[u] \notin Starting => pc'[u] \notin Starting
    BY DEF TypeOK
  <2> QED
    BY <1>b, <1>n, <1>w, <2>1 DEF TypeOK, TimerInv, SelfOwner
<1> QED
  BY <1>1, <1>2, <1>3, <1>4, <1>5, <1>6, <1>7, <1>8, <1>9, <1>10 DEF TimerInv

(* An entry of the snapshot is already gone. *)
LEMMA ShutdownNextSkipsStep ==
    ASSUME TypeOK, TimerInv, NEW t \in Threads, NEW i \in Ids, ShutdownNext(t, i),
           i \notin m_Entries
    PROVE  (TypeOK /\ TimerInv)'
<1>0. /\ pc[t] = "sd_next" /\ i \in ids[t]
      /\ ids' = [ids EXCEPT ![t] = @ \ {i}]
      /\ UNCHANGED <<m_QueueState, m_NextId, m_Entries, ghosts, owned, entry, timer, cur, pc, op,
                    arg, waits>>
  BY DEF ShutdownNext, At
<1> USE <1>0
<1>1. TypeOK'
  BY ThreadFacts DEF TypeOK, TimerInv, ThreadInv, Works
<1>2. IdInv'
  <2>1. Creating' = Creating
    BY DEF TypeOK, Creating
  <2> QED
    BY <2>1 DEF TimerInv, IdInv
<1>3. ThreadInv'
  BY ThreadFacts DEF TypeOK, TimerInv, ThreadInv, Works
<1>4. ClosedInv'
  BY ThreadFacts DEF TypeOK, TimerInv, ClosedInv, ClosedOf, CallOf, ThreadInv, Works, CallInv, Behind
<1>5. CallInv'
  BY ThreadFacts DEF TypeOK, TimerInv, CallInv, ClosedOf, CallOf, ThreadInv, ClosedInv,
     MapOwner, CallOwner, SelfOwner, ShutInv, Shutting, Works
<1>6. ShutInv'
  <2>1. Shutting(t)
    BY DEF Shutting
  <2>2. m_QueueState = "ShuttingDown" /\ m_Entries \subseteq ids[t] \cup late /\ op[t] # "cancel"
    BY <2>1 DEF TimerInv, ShutInv
  <2>3. \A u \in Threads : u # t => ~Shutting(u)
    BY <2>1 DEF TimerInv, ShutInv
  <2>4. \A u \in Threads : Shutting(u)' <=> u = t
    BY <2>2, <2>3 DEF TypeOK, Shutting
  <2>5. m_Entries' \subseteq ids'[t] \cup late'
    BY <2>2 DEF TypeOK
  <2> QED
    BY <2>2, <2>4, <2>5 DEF TypeOK, TimerInv, ShutInv
<1>7. SomeOwner'
  BY ThreadFacts DEF TypeOK, TimerInv, SomeOwner, ClosedOf, CallOf, ThreadInv, ClosedInv,
     CallInv, Owns
<1>8. MapOwner'
  BY ThreadFacts DEF TypeOK, TimerInv, MapOwner, ClosedOf, CallOf, ThreadInv, ClosedInv,
     CallInv, Works
<1>9. CallOwner'
  <2>1. \A u \in Threads, j \in Ids : Works(u, j)' =>
           /\ Works(u, j)
           /\ Behind(u) => Behind(u)'
           /\ pc[u] \in CancelLabels => pc'[u] \in CancelLabels
    BY DEF TypeOK, Works, Behind
  <2> QED
    BY <2>1 DEF TimerInv, CallOwner, Guest
<1>10. SelfOwner'
  BY ThreadFacts DEF TypeOK, TimerInv, SelfOwner, ClosedOf, CallOf, ThreadInv, ClosedInv,
     MapOwner, CallOwner, CallInv, Works, Behind
<1> QED
  BY <1>1, <1>2, <1>3, <1>4, <1>5, <1>6, <1>7, <1>8, <1>9, <1>10 DEF TimerInv

(* Shutdown ends with an empty map. *)
LEMMA ShutdownDeadStep ==
    ASSUME TypeOK, TimerInv, NEW t \in Threads, ShutdownDead(t)
    PROVE  (TypeOK /\ TimerInv)'
<1> USE DEF ShutdownDead, At, Goto, Back, queue, calls
<1>1. TypeOK'
  BY ThreadFacts DEF TypeOK, TimerInv, ThreadInv, Works
<1>2. IdInv'
  <2>1. Creating' = Creating
    BY DEF TypeOK, Creating
  <2> QED
    BY <2>1 DEF TimerInv, IdInv
<1>3. ThreadInv'
  BY ThreadFacts DEF TypeOK, TimerInv, ThreadInv, Works
<1>4. ClosedInv'
  BY ThreadFacts DEF TypeOK, TimerInv, ClosedInv, ClosedOf, CallOf, ThreadInv, Works, CallInv, Behind
<1>5. CallInv'
  BY ThreadFacts DEF TypeOK, TimerInv, CallInv, ClosedOf, CallOf, ThreadInv, ClosedInv,
     MapOwner, CallOwner, SelfOwner, ShutInv, Shutting, Works
<1>6. ShutInv'
  BY ThreadFacts DEF TypeOK, TimerInv, ShutInv, CallOf, ThreadInv, CallInv, Works, Shutting
<1>7. SomeOwner'
  <2>1. \A u \in Threads, j \in Ids : Owns(u, j) => Owns(u, j)'
    BY DEF TypeOK, Owns
  <2> QED
    BY <2>1 DEF TimerInv, SomeOwner
<1>8. MapOwner'
  BY ThreadFacts DEF TypeOK, TimerInv, MapOwner, ClosedOf, CallOf, ThreadInv, ClosedInv,
     CallInv, Works
<1>9. CallOwner'
  <2>1. \A u \in Threads, j \in Ids : Works(u, j)' =>
           /\ Works(u, j)
           /\ Behind(u) => Behind(u)'
           /\ pc[u] \in CancelLabels => pc'[u] \in CancelLabels
    BY DEF TypeOK, Works, Behind
  <2> QED
    BY <2>1 DEF TimerInv, CallOwner, Guest
<1>10. SelfOwner'
  BY ThreadFacts DEF TypeOK, TimerInv, SelfOwner, ClosedOf, CallOf, ThreadInv, ClosedInv,
     MapOwner, CallOwner, CallInv, Works, Behind
<1> QED
  BY <1>1, <1>2, <1>3, <1>4, <1>5, <1>6, <1>7, <1>8, <1>9, <1>10 DEF TimerInv

(* The destructor ends. *)
LEMMA DestroyFreeStep ==
    ASSUME TypeOK, TimerInv, NEW t \in Threads, DestroyFree(t)
    PROVE  (TypeOK /\ TimerInv)'
<1> USE DEF DestroyFree, At, Goto, Back, queue, calls
<1>1. TypeOK'
  BY ThreadFacts DEF TypeOK, TimerInv, ThreadInv, Works
<1>2. IdInv'
  <2>1. Creating' = Creating
    BY DEF TypeOK, Creating
  <2> QED
    BY <2>1 DEF TimerInv, IdInv
<1>3. ThreadInv'
  BY ThreadFacts DEF TypeOK, TimerInv, ThreadInv, Works
<1>4. ClosedInv'
  BY ThreadFacts DEF TypeOK, TimerInv, ClosedInv, ClosedOf, CallOf, ThreadInv, Works, CallInv, Behind
<1>5. CallInv'
  BY ThreadFacts DEF TypeOK, TimerInv, CallInv, ClosedOf, CallOf, ThreadInv, ClosedInv,
     MapOwner, CallOwner, SelfOwner, ShutInv, Shutting, Works
<1>6. ShutInv'
  BY ThreadFacts DEF TypeOK, TimerInv, ShutInv, CallOf, ThreadInv, CallInv, Works, Shutting
<1>7. SomeOwner'
  <2>1. \A u \in Threads, j \in Ids : Owns(u, j) => Owns(u, j)'
    BY DEF TypeOK, Owns
  <2> QED
    BY <2>1 DEF TimerInv, SomeOwner
<1>8. MapOwner'
  BY ThreadFacts DEF TypeOK, TimerInv, MapOwner, ClosedOf, CallOf, ThreadInv, ClosedInv,
     CallInv, Works
<1>9. CallOwner'
  <2>1. \A u \in Threads, j \in Ids : Works(u, j)' =>
           /\ Works(u, j)
           /\ Behind(u) => Behind(u)'
           /\ pc[u] \in CancelLabels => pc'[u] \in CancelLabels
    BY DEF TypeOK, Works, Behind
  <2> QED
    BY <2>1 DEF TimerInv, CallOwner, Guest
<1>10. SelfOwner'
  BY ThreadFacts DEF TypeOK, TimerInv, SelfOwner, ClosedOf, CallOf, ThreadInv, ClosedInv,
     MapOwner, CallOwner, CallInv, Works, Behind
<1> QED
  BY <1>1, <1>2, <1>3, <1>4, <1>5, <1>6, <1>7, <1>8, <1>9, <1>10 DEF TimerInv

(* A set timer queues its one callback. *)
LEMMA ExpireStep ==
    ASSUME TypeOK, TimerInv, NEW i \in Ids, Expire(i)
    PROVE  (TypeOK /\ TimerInv)'
<1> USE DEF Expire, At, Goto, Back, queue, calls
<1>1. TypeOK'
  <2>1. timer[i] \in Timers /\ entry[i].isPeriodic \in BOOLEAN
    BY DEF TypeOK
  <2>2. timer'[i] = [open |-> timer[i].open, armed |-> entry[i].isPeriodic,
                     queued |-> timer[i].queued + 1]
    BY <2>1 DEF TypeOK
  <2>3. timer'[i] \in Timers
    BY <2>1, <2>2
  <2>4. \A j \in Ids : j # i => timer'[j] = timer[j]
    BY DEF TypeOK
  <2>5. timer' = [j \in Ids |-> timer'[j]]
    BY DEF TypeOK
  <2>6. \A j \in Ids : timer'[j] \in Timers
    BY <2>3, <2>4 DEF TypeOK
  <2>7. timer' \in [Ids -> Timers]
    BY <2>5, <2>6
  <2> QED
    BY <2>7 DEF TypeOK
<1>2. IdInv'
  <2>1. Creating' = Creating
    BY DEF TypeOK, Creating
  <2> QED
    BY <2>1 DEF TimerInv, IdInv
<1>3. ThreadInv'
  BY ThreadFacts DEF TypeOK, TimerInv, ThreadInv, Works
<1>4. ClosedInv'
  BY ThreadFacts DEF TypeOK, TimerInv, ClosedInv, ClosedOf, CallOf, ThreadInv, Works, CallInv, Behind
<1>5. CallInv'
  BY ThreadFacts DEF TypeOK, TimerInv, CallInv, ClosedOf, CallOf, ThreadInv, ClosedInv,
     MapOwner, CallOwner, SelfOwner, ShutInv, Shutting, Works
<1>6. ShutInv'
  BY ThreadFacts DEF TypeOK, TimerInv, ShutInv, CallOf, ThreadInv, CallInv, Works, Shutting
<1>7. SomeOwner'
  BY ThreadFacts DEF TypeOK, TimerInv, SomeOwner, ClosedOf, CallOf, ThreadInv, ClosedInv,
     CallInv, Owns
<1>8. MapOwner'
  BY ThreadFacts DEF TypeOK, TimerInv, MapOwner, ClosedOf, CallOf, ThreadInv, ClosedInv,
     CallInv, Works
<1>9. CallOwner'
  <2>1. \A u \in Threads, j \in Ids : Works(u, j)' =>
           /\ Works(u, j)
           /\ Behind(u) => Behind(u)'
           /\ pc[u] \in CancelLabels => pc'[u] \in CancelLabels
    BY DEF TypeOK, Works, Behind
  <2> QED
    BY <2>1 DEF TimerInv, CallOwner, Guest
<1>10. SelfOwner'
  BY ThreadFacts DEF TypeOK, TimerInv, SelfOwner, ClosedOf, CallOf, ThreadInv, ClosedInv,
     MapOwner, CallOwner, CallInv, Works, Behind
<1> QED
  BY <1>1, <1>2, <1>3, <1>4, <1>5, <1>6, <1>7, <1>8, <1>9, <1>10 DEF TimerInv

(* A pool thread takes the queued callback. *)
LEMMA DispatchStep ==
    ASSUME TypeOK, TimerInv, NEW t \in Threads, NEW i \in Ids, Dispatch(t, i)
    PROVE  (TypeOK /\ TimerInv)'
<1> USE DEF Dispatch, At, Goto, Back, queue, calls
<1>1. TypeOK'
  <2>1. timer[i] \in Timers /\ timer[i].queued - 1 \in Nat
    BY DEF TypeOK
  <2>2. timer' \in [Ids -> Timers]
    BY <2>1 DEF TypeOK
  <2> QED
    BY <2>2, ThreadFacts DEF TypeOK
<1>2. IdInv'
  <2>1. Creating' = Creating
    BY DEF TypeOK, Creating
  <2> QED
    BY <2>1 DEF TimerInv, IdInv
<1>3. ThreadInv'
  BY ThreadFacts DEF TypeOK, TimerInv, ThreadInv, Works
<1>4. ClosedInv'
  BY ThreadFacts DEF TypeOK, TimerInv, ClosedInv, ClosedOf, CallOf, ThreadInv, Works, CallInv, Behind
<1>5. CallInv'
  BY ThreadFacts DEF TypeOK, TimerInv, CallInv, ClosedOf, CallOf, ThreadInv, ClosedInv,
     MapOwner, CallOwner, SelfOwner, ShutInv, Shutting, Works
<1>6. ShutInv'
  BY ThreadFacts DEF TypeOK, TimerInv, ShutInv, CallOf, ThreadInv, CallInv, Works, Shutting
<1>7. SomeOwner'
  <2>1. \A u \in Threads, j \in Ids : Owns(u, j) => Owns(u, j)'
    BY DEF TypeOK, Owns
  <2>2. \A j \in Ids : timer'[j].open = timer[j].open
    BY DEF TypeOK
  <2> QED
    BY <2>1, <2>2 DEF TimerInv, SomeOwner
<1>8. MapOwner'
  BY ThreadFacts DEF TypeOK, TimerInv, MapOwner, ClosedOf, CallOf, ThreadInv, ClosedInv,
     CallInv, Works
<1>9. CallOwner'
  <2>1. \A u \in Threads, j \in Ids : Works(u, j)' =>
           /\ Works(u, j)
           /\ Behind(u) => Behind(u)'
           /\ pc[u] \in CancelLabels => pc'[u] \in CancelLabels
    BY DEF TypeOK, Works, Behind
  <2> QED
    BY <2>1 DEF TimerInv, CallOwner, Guest
<1>10. SelfOwner'
  BY ThreadFacts DEF TypeOK, TimerInv, SelfOwner, ClosedOf, CallOf, ThreadInv, ClosedInv,
     MapOwner, CallOwner, CallInv, Works, Behind
<1> QED
  BY <1>1, <1>2, <1>3, <1>4, <1>5, <1>6, <1>7, <1>8, <1>9, <1>10 DEF TimerInv

(* The callback locks its Impl. *)
LEMMA CallbackOwnerGoesStep ==
    ASSUME TypeOK, TimerInv, NEW t \in Threads, CallbackOwner(t),
           ImplAlive
    PROVE  (TypeOK /\ TimerInv)'
<1>0. /\ pc[t] = "cb_owner" /\ pc' = [pc EXCEPT ![t] = "cb_keep"]
      /\ UNCHANGED <<queue, entry, timer, cur, calls>>
  BY DEF CallbackOwner, Goto, At
<1> USE <1>0 DEF queue, calls
<1>c. t \in Pool /\ cur[t] \in Ids
  BY InCallback DEF TimerInv, At
<1>1. TypeOK'
  BY ThreadFacts DEF TypeOK, TimerInv, ThreadInv, Works
<1>2. IdInv'
  <2>1. Creating' = Creating
    BY DEF TypeOK, Creating
  <2> QED
    BY <2>1 DEF TimerInv, IdInv
<1>3. ThreadInv'
  BY ThreadFacts DEF TypeOK, TimerInv, ThreadInv, Works
<1>4. ClosedInv'
  BY ThreadFacts DEF TypeOK, TimerInv, ClosedInv, ClosedOf, CallOf, ThreadInv, Works, CallInv, Behind
<1>5. CallInv'
  BY ThreadFacts DEF TypeOK, TimerInv, CallInv, ClosedOf, CallOf, ThreadInv, ClosedInv,
     MapOwner, CallOwner, SelfOwner, ShutInv, Shutting, Works
<1>6. ShutInv'
  BY ThreadFacts DEF TypeOK, TimerInv, ShutInv, CallOf, ThreadInv, CallInv, Works, Shutting
<1>7. SomeOwner'
  <2>1. \A u \in Threads, j \in Ids : Owns(u, j) => Owns(u, j)'
    BY DEF TypeOK, Owns
  <2> QED
    BY <2>1 DEF TimerInv, SomeOwner
<1>8. MapOwner'
  BY ThreadFacts DEF TypeOK, TimerInv, MapOwner, ClosedOf, CallOf, ThreadInv, ClosedInv,
     CallInv, Works
<1>9. CallOwner'
  <2>1. \A u \in Threads, j \in Ids : Works(u, j)' =>
           /\ Works(u, j)
           /\ Behind(u) => Behind(u)'
           /\ pc[u] \in CancelLabels => pc'[u] \in CancelLabels
    BY DEF TypeOK, Works, Behind
  <2> QED
    BY <2>1 DEF TimerInv, CallOwner, Guest
<1>10. SelfOwner'
  BY ThreadFacts DEF TypeOK, TimerInv, SelfOwner, ClosedOf, CallOf, ThreadInv, ClosedInv,
     MapOwner, CallOwner, CallInv, Works, Behind
<1> QED
  BY <1>1, <1>2, <1>3, <1>4, <1>5, <1>6, <1>7, <1>8, <1>9, <1>10 DEF TimerInv

(* The callback finds no Impl and leaves. *)
LEMMA CallbackOwnerLeavesStep ==
    ASSUME TypeOK, TimerInv, NEW t \in Threads, CallbackOwner(t),
           ~ImplAlive
    PROVE  (TypeOK /\ TimerInv)'
<1>0. /\ pc[t] = "cb_owner" /\ pc' = [pc EXCEPT ![t] = "idle"] /\ cur' = [cur EXCEPT ![t] = 0]
      /\ UNCHANGED <<queue, entry, timer, calls>>
  BY DEF CallbackOwner, Goto, At, Leave
<1> USE <1>0 DEF queue, calls
<1>c. t \in Pool /\ cur[t] \in Ids
  BY InCallback DEF TimerInv, At
<1>1. TypeOK'
  BY ThreadFacts DEF TypeOK, TimerInv, ThreadInv, Works
<1>2. IdInv'
  <2>1. Creating' = Creating
    BY DEF TypeOK, Creating
  <2> QED
    BY <2>1 DEF TimerInv, IdInv
<1>3. ThreadInv'
  BY ThreadFacts DEF TypeOK, TimerInv, ThreadInv, Works
<1>4. ClosedInv'
  BY ThreadFacts DEF TypeOK, TimerInv, ClosedInv, ClosedOf, CallOf, ThreadInv, Works, CallInv, Behind
<1>5. CallInv'
  BY ThreadFacts DEF TypeOK, TimerInv, CallInv, ClosedOf, CallOf, ThreadInv, ClosedInv,
     MapOwner, CallOwner, SelfOwner, ShutInv, Shutting, Works
<1>6. ShutInv'
  BY ThreadFacts DEF TypeOK, TimerInv, ShutInv, CallOf, ThreadInv, CallInv, Works, Shutting
<1>7. SomeOwner'
  <2>1. \A u \in Threads, j \in Ids : Owns(u, j) => Owns(u, j)'
    BY DEF TypeOK, Owns
  <2> QED
    BY <2>1 DEF TimerInv, SomeOwner
<1>8. MapOwner'
  BY ThreadFacts DEF TypeOK, TimerInv, MapOwner, ClosedOf, CallOf, ThreadInv, ClosedInv,
     CallInv, Works
<1>9. CallOwner'
  <2>1. \A u \in Threads, j \in Ids : Works(u, j)' =>
           /\ Works(u, j)
           /\ Behind(u) => Behind(u)'
           /\ pc[u] \in CancelLabels => pc'[u] \in CancelLabels
    BY DEF TypeOK, Works, Behind
  <2> QED
    BY <2>1 DEF TimerInv, CallOwner, Guest
<1>10. SelfOwner'
  <2>1. \A u \in Threads, j \in Ids : Works(u, j)' => Works(u, j) /\ (Behind(u) => Behind(u)')
    BY DEF TypeOK, Works, Behind
  <2>2. \A u \in Threads : pc[u] \notin Starting => pc'[u] \notin Starting /\ cur'[u] = cur[u]
    BY DEF TypeOK
  <2> QED
    BY <2>1, <2>2 DEF TimerInv, SelfOwner
<1> QED
  BY <1>1, <1>2, <1>3, <1>4, <1>5, <1>6, <1>7, <1>8, <1>9, <1>10 DEF TimerInv

(* The callback takes keepAlive. *)
LEMMA CallbackKeepStep ==
    ASSUME TypeOK, TimerInv, NEW t \in Threads, CallbackKeep(t)
    PROVE  (TypeOK /\ TimerInv)'
<1> USE DEF CallbackKeep, At, Goto, Back, queue, calls
<1>1. TypeOK'
  BY ThreadFacts DEF TypeOK, TimerInv, ThreadInv, Works
<1>2. IdInv'
  <2>1. Creating' = Creating
    BY DEF TypeOK, Creating
  <2> QED
    BY <2>1 DEF TimerInv, IdInv
<1>3. ThreadInv'
  BY ThreadFacts DEF TypeOK, TimerInv, ThreadInv, Works
<1>4. ClosedInv'
  BY ThreadFacts DEF TypeOK, TimerInv, ClosedInv, ClosedOf, CallOf, ThreadInv, Works, CallInv, Behind
<1>5. CallInv'
  BY ThreadFacts DEF TypeOK, TimerInv, CallInv, ClosedOf, CallOf, ThreadInv, ClosedInv,
     MapOwner, CallOwner, SelfOwner, ShutInv, Shutting, Works
<1>6. ShutInv'
  BY ThreadFacts DEF TypeOK, TimerInv, ShutInv, CallOf, ThreadInv, CallInv, Works, Shutting
<1>7. SomeOwner'
  <2>1. \A u \in Threads, j \in Ids : Owns(u, j) => Owns(u, j)'
    BY DEF TypeOK, Owns
  <2> QED
    BY <2>1 DEF TimerInv, SomeOwner
<1>8. MapOwner'
  BY ThreadFacts DEF TypeOK, TimerInv, MapOwner, ClosedOf, CallOf, ThreadInv, ClosedInv,
     CallInv, Works
<1>9. CallOwner'
  <2>1. \A u \in Threads, j \in Ids : Works(u, j)' =>
           /\ Works(u, j)
           /\ Behind(u) => Behind(u)'
           /\ pc[u] \in CancelLabels => pc'[u] \in CancelLabels
    BY DEF TypeOK, Works, Behind
  <2> QED
    BY <2>1 DEF TimerInv, CallOwner, Guest
<1>10. SelfOwner'
  BY ThreadFacts DEF TypeOK, TimerInv, SelfOwner, ClosedOf, CallOf, ThreadInv, ClosedInv,
     MapOwner, CallOwner, CallInv, Works, Behind
<1> QED
  BY <1>1, <1>2, <1>3, <1>4, <1>5, <1>6, <1>7, <1>8, <1>9, <1>10 DEF TimerInv

(* The callback runs its job. *)
LEMMA CallbackEnterStep ==
    ASSUME TypeOK, TimerInv, NEW t \in Threads, CallbackEnter(t)
    PROVE  (TypeOK /\ TimerInv)'
<1> USE DEF CallbackEnter, At, Goto, Back, queue, calls
<1>c. t \in Pool /\ cur[t] \in Ids
  BY InCallback DEF TimerInv, At
<1>1. TypeOK'
  <2>1. entry[cur[t]] \in Entries
    BY <1>c DEF TypeOK
  <2>2. \E s \in {"Scheduled", "Running", "Completed", "Cancelled"} :
           entry' = [entry EXCEPT ![cur[t]] = [entry[cur[t]] EXCEPT !.state = s]]
    BY <2>1, <1>c DEF TypeOK
  <2>3. entry' \in [Ids -> Entries]
    BY <2>1, <2>2, <1>c DEF TypeOK
  <2> QED
    BY <2>3 DEF TypeOK
<1>2. IdInv'
  <2>1. Creating' = Creating
    BY DEF TypeOK, Creating
  <2> QED
    BY <2>1 DEF TimerInv, IdInv
<1>3. ThreadInv'
  BY ThreadFacts DEF TypeOK, TimerInv, ThreadInv, Works
<1>4. ClosedInv'
  BY ThreadFacts DEF TypeOK, TimerInv, ClosedInv, ClosedOf, CallOf, ThreadInv, Works, CallInv, Behind
<1>5. CallInv'
  BY ThreadFacts DEF TypeOK, TimerInv, CallInv, ClosedOf, CallOf, ThreadInv, ClosedInv,
     MapOwner, CallOwner, SelfOwner, ShutInv, Shutting, Works
<1>6. ShutInv'
  BY ThreadFacts DEF TypeOK, TimerInv, ShutInv, CallOf, ThreadInv, CallInv, Works, Shutting
<1>7. SomeOwner'
  <2>1. \A u \in Threads, i \in Ids : Owns(u, i) => Owns(u, i)'
    BY DEF TypeOK, Owns
  <2>2. \A i \in Ids : entry'[i].closeAfterCallback = entry[i].closeAfterCallback
    BY <1>c DEF TypeOK
  <2> QED
    BY <2>1, <2>2 DEF TimerInv, SomeOwner
<1>8. MapOwner'
  BY ThreadFacts DEF TypeOK, TimerInv, MapOwner, ClosedOf, CallOf, ThreadInv, ClosedInv,
     CallInv, Works
<1>9. CallOwner'
  <2>1. \A u \in Threads, j \in Ids : Works(u, j)' =>
           /\ Works(u, j)
           /\ Behind(u) => Behind(u)'
           /\ pc[u] \in CancelLabels => pc'[u] \in CancelLabels
    BY DEF TypeOK, Works, Behind
  <2> QED
    BY <2>1 DEF TimerInv, CallOwner, Guest
<1>10. SelfOwner'
  BY ThreadFacts DEF TypeOK, TimerInv, SelfOwner, ClosedOf, CallOf, ThreadInv, ClosedInv,
     MapOwner, CallOwner, CallInv, Works, Behind
<1> QED
  BY <1>1, <1>2, <1>3, <1>4, <1>5, <1>6, <1>7, <1>8, <1>9, <1>10 DEF TimerInv

(* The callback of a cancelled entry leaves. *)
LEMMA CallbackSkipStep ==
    ASSUME TypeOK, TimerInv, NEW t \in Threads, CallbackSkip(t)
    PROVE  (TypeOK /\ TimerInv)'
<1> USE DEF CallbackSkip, At, Goto, Back, Leave, queue, calls
<1>1. TypeOK'
  BY ThreadFacts DEF TypeOK, TimerInv, ThreadInv, Works
<1>2. IdInv'
  <2>1. Creating' = Creating
    BY DEF TypeOK, Creating
  <2> QED
    BY <2>1 DEF TimerInv, IdInv
<1>3. ThreadInv'
  BY ThreadFacts DEF TypeOK, TimerInv, ThreadInv, Works
<1>4. ClosedInv'
  BY ThreadFacts DEF TypeOK, TimerInv, ClosedInv, ClosedOf, CallOf, ThreadInv, Works, CallInv, Behind
<1>5. CallInv'
  BY ThreadFacts DEF TypeOK, TimerInv, CallInv, ClosedOf, CallOf, ThreadInv, ClosedInv,
     MapOwner, CallOwner, SelfOwner, ShutInv, Shutting, Works
<1>6. ShutInv'
  BY ThreadFacts DEF TypeOK, TimerInv, ShutInv, CallOf, ThreadInv, CallInv, Works, Shutting
<1>7. SomeOwner'
  <2>1. \A u \in Threads, j \in Ids : Owns(u, j) => Owns(u, j)'
    BY DEF TypeOK, Owns
  <2> QED
    BY <2>1 DEF TimerInv, SomeOwner
<1>8. MapOwner'
  BY ThreadFacts DEF TypeOK, TimerInv, MapOwner, ClosedOf, CallOf, ThreadInv, ClosedInv,
     CallInv, Works
<1>9. CallOwner'
  <2>1. \A u \in Threads, j \in Ids : Works(u, j)' =>
           /\ Works(u, j)
           /\ Behind(u) => Behind(u)'
           /\ pc[u] \in CancelLabels => pc'[u] \in CancelLabels
    BY DEF TypeOK, Works, Behind
  <2> QED
    BY <2>1 DEF TimerInv, CallOwner, Guest
<1>10. SelfOwner'
  BY ThreadFacts DEF TypeOK, TimerInv, SelfOwner, ClosedOf, CallOf, ThreadInv, ClosedInv,
     MapOwner, CallOwner, CallInv, Works, Behind
<1> QED
  BY <1>1, <1>2, <1>3, <1>4, <1>5, <1>6, <1>7, <1>8, <1>9, <1>10 DEF TimerInv

(* The job returns. *)
LEMMA JobReturnStep ==
    ASSUME TypeOK, TimerInv, NEW t \in Threads, JobReturn(t)
    PROVE  (TypeOK /\ TimerInv)'
<1> USE DEF JobReturn, At, Goto, Back, queue, calls
<1>1. TypeOK'
  BY ThreadFacts DEF TypeOK, TimerInv, ThreadInv, Works
<1>2. IdInv'
  <2>1. Creating' = Creating
    BY DEF TypeOK, Creating
  <2> QED
    BY <2>1 DEF TimerInv, IdInv
<1>3. ThreadInv'
  BY ThreadFacts DEF TypeOK, TimerInv, ThreadInv, Works
<1>4. ClosedInv'
  BY ThreadFacts DEF TypeOK, TimerInv, ClosedInv, ClosedOf, CallOf, ThreadInv, Works, CallInv, Behind
<1>5. CallInv'
  BY ThreadFacts DEF TypeOK, TimerInv, CallInv, ClosedOf, CallOf, ThreadInv, ClosedInv,
     MapOwner, CallOwner, SelfOwner, ShutInv, Shutting, Works
<1>6. ShutInv'
  BY ThreadFacts DEF TypeOK, TimerInv, ShutInv, CallOf, ThreadInv, CallInv, Works, Shutting
<1>7. SomeOwner'
  <2>1. \A u \in Threads, j \in Ids : Owns(u, j) => Owns(u, j)'
    BY DEF TypeOK, Owns
  <2> QED
    BY <2>1 DEF TimerInv, SomeOwner
<1>8. MapOwner'
  BY ThreadFacts DEF TypeOK, TimerInv, MapOwner, ClosedOf, CallOf, ThreadInv, ClosedInv,
     CallInv, Works
<1>9. CallOwner'
  <2>1. \A u \in Threads, j \in Ids : Works(u, j)' =>
           /\ Works(u, j)
           /\ Behind(u) => Behind(u)'
           /\ pc[u] \in CancelLabels => pc'[u] \in CancelLabels
    BY DEF TypeOK, Works, Behind
  <2> QED
    BY <2>1 DEF TimerInv, CallOwner, Guest
<1>10. SelfOwner'
  BY ThreadFacts DEF TypeOK, TimerInv, SelfOwner, ClosedOf, CallOf, ThreadInv, ClosedInv,
     MapOwner, CallOwner, CallInv, Works, Behind
<1> QED
  BY <1>1, <1>2, <1>3, <1>4, <1>5, <1>6, <1>7, <1>8, <1>9, <1>10 DEF TimerInv

(* The callback sets the state after the job. *)
LEMMA CallbackLeaveStep ==
    ASSUME TypeOK, TimerInv, NEW t \in Threads, CallbackLeave(t)
    PROVE  (TypeOK /\ TimerInv)'
<1> USE DEF CallbackLeave, At, Goto, Back, queue, calls
<1>c. t \in Pool /\ cur[t] \in Ids
  BY InCallback DEF TimerInv, At
<1>1. TypeOK'
  <2>1. entry[cur[t]] \in Entries
    BY <1>c DEF TypeOK
  <2>2. \E s \in {"Scheduled", "Running", "Completed", "Cancelled"} :
           entry' = [entry EXCEPT ![cur[t]] = [entry[cur[t]] EXCEPT !.state = s]]
    BY <2>1, <1>c DEF TypeOK
  <2>3. entry' \in [Ids -> Entries]
    BY <2>1, <2>2, <1>c DEF TypeOK
  <2> QED
    BY <2>3 DEF TypeOK
<1>2. IdInv'
  <2>1. Creating' = Creating
    BY DEF TypeOK, Creating
  <2> QED
    BY <2>1 DEF TimerInv, IdInv
<1>3. ThreadInv'
  BY ThreadFacts DEF TypeOK, TimerInv, ThreadInv, Works
<1>4. ClosedInv'
  BY ThreadFacts DEF TypeOK, TimerInv, ClosedInv, ClosedOf, CallOf, ThreadInv, Works, CallInv, Behind
<1>5. CallInv'
  BY ThreadFacts DEF TypeOK, TimerInv, CallInv, ClosedOf, CallOf, ThreadInv, ClosedInv,
     MapOwner, CallOwner, SelfOwner, ShutInv, Shutting, Works
<1>6. ShutInv'
  BY ThreadFacts DEF TypeOK, TimerInv, ShutInv, CallOf, ThreadInv, CallInv, Works, Shutting
<1>7. SomeOwner'
  <2>1. \A u \in Threads, i \in Ids : Owns(u, i) => Owns(u, i)'
    BY DEF TypeOK, Owns
  <2>2. \A i \in Ids : entry'[i].closeAfterCallback = entry[i].closeAfterCallback
    BY <1>c DEF TypeOK
  <2> QED
    BY <2>1, <2>2 DEF TimerInv, SomeOwner
<1>8. MapOwner'
  BY ThreadFacts DEF TypeOK, TimerInv, MapOwner, ClosedOf, CallOf, ThreadInv, ClosedInv,
     CallInv, Works
<1>9. CallOwner'
  <2>1. \A u \in Threads, j \in Ids : Works(u, j)' =>
           /\ Works(u, j)
           /\ Behind(u) => Behind(u)'
           /\ pc[u] \in CancelLabels => pc'[u] \in CancelLabels
    BY DEF TypeOK, Works, Behind
  <2> QED
    BY <2>1 DEF TimerInv, CallOwner, Guest
<1>10. SelfOwner'
  BY ThreadFacts DEF TypeOK, TimerInv, SelfOwner, ClosedOf, CallOf, ThreadInv, ClosedInv,
     MapOwner, CallOwner, CallInv, Works, Behind
<1> QED
  BY <1>1, <1>2, <1>3, <1>4, <1>5, <1>6, <1>7, <1>8, <1>9, <1>10 DEF TimerInv

(* The callback that cancelled itself closes its timer. *)
LEMMA CallbackCloseSelfStep ==
    ASSUME TypeOK, TimerInv, NEW t \in Threads, CallbackClose(t),
           entry[cur[t]].closeAfterCallback
    PROVE  (TypeOK /\ TimerInv)'
<1>c. pc[t] = "cb_close" /\ t \in Pool /\ cur[t] \in Ids
  BY InCallback DEF TimerInv, CallbackClose, At
<1>h. entry[cur[t]].handle /\ timer[cur[t]].open
  BY <1>c DEF TypeOK, TimerInv, ClosedInv, ClosedOf
<1>0. /\ pc' = [pc EXCEPT ![t] = "idle"] /\ cur' = [cur EXCEPT ![t] = 0]
      /\ entry' = [entry EXCEPT ![cur[t]] =
                     [entry[cur[t]] EXCEPT !.closeAfterCallback = FALSE, !.handle = FALSE]]
      /\ timer' = [timer EXCEPT ![cur[t]].open = FALSE]
      /\ UNCHANGED <<queue, calls>>
  BY <1>h DEF CallbackClose, Goto, Leave
<1> USE <1>0, <1>c DEF queue, calls
<1>f. /\ timer'[cur[t]].open = FALSE /\ entry'[cur[t]].handle = FALSE
      /\ timer'[cur[t]].armed = timer[cur[t]].armed /\ timer'[cur[t]].queued = timer[cur[t]].queued
      /\ entry'[cur[t]].closeAfterCallback = FALSE
  BY DEF TypeOK
<1>g. \A i \in Ids : i # cur[t] => timer'[i] = timer[i] /\ entry'[i] = entry[i]
  BY DEF TypeOK
<1>w. \A u \in Threads, i \in Ids : Works(u, i)' <=> Works(u, i)
  BY DEF TypeOK, Works
<1>q. /\ cur[t] \in deferred /\ (timer[cur[t]].armed => cur[t] \in late)
      /\ \A u \in Threads : Works(u, cur[t]) => Behind(u)
      /\ cur[t] \notin m_Entries
  BY DEF TypeOK, TimerInv, SelfOwner, MapOwner
<1>b. \A u \in Threads : Behind(u)' <=> Behind(u)
  BY DEF TypeOK, Behind
<1>1. TypeOK'
  <2>1. entry[cur[t]] \in Entries /\ timer[cur[t]] \in Timers
    BY DEF TypeOK
  <2>2. [entry[cur[t]] EXCEPT !.closeAfterCallback = FALSE, !.handle = FALSE] \in Entries
    BY <2>1
  <2>3. entry' \in [Ids -> Entries]
    BY <2>2 DEF TypeOK
  <2>4. timer' \in [Ids -> Timers]
    BY DEF TypeOK
  <2> QED
    BY <2>3, <2>4, ThreadFacts DEF TypeOK
<1>2. IdInv'
  <2>1. Creating' = Creating
    BY DEF TypeOK, Creating
  <2> QED
    BY <2>1 DEF TimerInv, IdInv
<1>3. ThreadInv'
  BY ThreadFacts DEF TypeOK, TimerInv, ThreadInv, Works
<1>4. ClosedInv'
  <2> SUFFICES ASSUME NEW i \in Ids PROVE ClosedOf(i)'
    BY DEF ClosedInv
  <2>0. ClosedOf(i)
    BY DEF TimerInv, ClosedInv
  <2>1. i # 0
    BY ThreadFacts
  <2>2. \A u \in Pool : cur'[u] = (IF u = t THEN 0 ELSE cur[u])
    BY DEF TypeOK
  <2>3. CASE i = cur[t]
    <3>1. i \in deferred' /\ (timer'[i].armed => i \in late')
      BY <1>f, <1>q, <2>3
    <3>2. \A u \in Threads : Works(u, i)' => Behind(u)'
      BY <1>q, <1>w, <1>b, <2>3
    <3>3. ~(i >= m_NextId)
      BY <1>h, <2>0, <2>3 DEF ClosedOf
    <3> QED
      BY <1>f, <1>q, <2>0, <2>3, <3>1, <3>2, <3>3 DEF ClosedOf
  <2>4. CASE i # cur[t]
    <3>1. \A u \in Pool : cur'[u] = i => cur[u] = i
      BY <2>1, <2>2
    <3> QED
      BY <1>g, <1>w, <1>b, <2>0, <2>4, <3>1 DEF ClosedOf
  <2> QED
    BY <2>3, <2>4
<1>5. CallInv'
  BY ThreadFacts DEF TypeOK, TimerInv, CallInv, ClosedOf, CallOf, ThreadInv, ClosedInv,
     MapOwner, CallOwner, SelfOwner, ShutInv, Shutting, Works
<1>6. ShutInv'
  BY ThreadFacts DEF TypeOK, TimerInv, ShutInv, CallOf, ThreadInv, CallInv, Works, Shutting
<1>7. SomeOwner'
  <2>1. \A u \in Threads, i \in Ids : Owns(u, i) => Owns(u, i)'
    BY DEF TypeOK, Owns
  <2> QED
    BY <1>f, <1>g, <2>1 DEF TimerInv, SomeOwner
<1>8. MapOwner'
  <2>1. \A u \in Threads : u # t => pc'[u] = pc[u]
    BY DEF TypeOK
  <2>2. \A i \in Ids : ~Works(t, i)
    BY DEF Works
  <2> QED
    BY <1>q, <1>g, <1>w, <2>1, <2>2 DEF TypeOK, TimerInv, MapOwner
<1>9. CallOwner'
  <2>1. \A u \in Threads, j \in Ids : Works(u, j)' =>
           /\ Works(u, j)
           /\ Behind(u) => Behind(u)'
           /\ pc[u] \in CancelLabels => pc'[u] \in CancelLabels
    BY DEF TypeOK, Works, Behind
  <2> QED
    BY <2>1 DEF TimerInv, CallOwner, Guest
<1>10. SelfOwner'
  <2>1. \A u \in Threads : u # t => pc'[u] = pc[u] /\ cur'[u] = cur[u]
    BY DEF TypeOK
  <2>2. \A i \in Ids : entry'[i].closeAfterCallback => i # cur[t] /\ entry[i].closeAfterCallback
    BY <1>f, <1>g
  <2> QED
    BY <1>g, <1>w, <1>b, <2>1, <2>2 DEF TimerInv, SelfOwner
<1> QED
  BY <1>1, <1>2, <1>3, <1>4, <1>5, <1>6, <1>7, <1>8, <1>9, <1>10 DEF TimerInv

(* Any other callback leaves. *)
LEMMA CallbackCloseNotStep ==
    ASSUME TypeOK, TimerInv, NEW t \in Threads, CallbackClose(t),
           ~entry[cur[t]].closeAfterCallback
    PROVE  (TypeOK /\ TimerInv)'
<1>0. /\ pc[t] = "cb_close" /\ pc' = [pc EXCEPT ![t] = "idle"] /\ cur' = [cur EXCEPT ![t] = 0]
      /\ UNCHANGED <<queue, entry, timer, calls>>
  BY DEF CallbackClose, Goto, At, Leave
<1> USE <1>0 DEF queue, calls
<1>c. t \in Pool /\ cur[t] \in Ids
  BY InCallback DEF TimerInv, At
<1>1. TypeOK'
  BY ThreadFacts DEF TypeOK, TimerInv, ThreadInv, Works
<1>2. IdInv'
  <2>1. Creating' = Creating
    BY DEF TypeOK, Creating
  <2> QED
    BY <2>1 DEF TimerInv, IdInv
<1>3. ThreadInv'
  BY ThreadFacts DEF TypeOK, TimerInv, ThreadInv, Works
<1>4. ClosedInv'
  BY ThreadFacts DEF TypeOK, TimerInv, ClosedInv, ClosedOf, CallOf, ThreadInv, Works, CallInv, Behind
<1>5. CallInv'
  BY ThreadFacts DEF TypeOK, TimerInv, CallInv, ClosedOf, CallOf, ThreadInv, ClosedInv,
     MapOwner, CallOwner, SelfOwner, ShutInv, Shutting, Works
<1>6. ShutInv'
  BY ThreadFacts DEF TypeOK, TimerInv, ShutInv, CallOf, ThreadInv, CallInv, Works, Shutting
<1>7. SomeOwner'
  <2>1. \A u \in Threads, j \in Ids : Owns(u, j) => Owns(u, j)'
    BY DEF TypeOK, Owns
  <2> QED
    BY <2>1 DEF TimerInv, SomeOwner
<1>8. MapOwner'
  BY ThreadFacts DEF TypeOK, TimerInv, MapOwner, ClosedOf, CallOf, ThreadInv, ClosedInv,
     CallInv, Works
<1>9. CallOwner'
  <2>1. \A u \in Threads, j \in Ids : Works(u, j)' =>
           /\ Works(u, j)
           /\ Behind(u) => Behind(u)'
           /\ pc[u] \in CancelLabels => pc'[u] \in CancelLabels
    BY DEF TypeOK, Works, Behind
  <2> QED
    BY <2>1 DEF TimerInv, CallOwner, Guest
<1>10. SelfOwner'
  BY ThreadFacts DEF TypeOK, TimerInv, SelfOwner, ClosedOf, CallOf, ThreadInv, ClosedInv,
     MapOwner, CallOwner, CallInv, Works, Behind
<1> QED
  BY <1>1, <1>2, <1>3, <1>4, <1>5, <1>6, <1>7, <1>8, <1>9, <1>10 DEF TimerInv

(* The initial state satisfies the invariant: no timer exists. *)
LEMMA InitTimer == Init => TypeOK /\ TimerInv
<1> SUFFICES ASSUME Init PROVE TypeOK /\ TimerInv
  OBVIOUS
<1> USE DEF Init
<1>1. TypeOK
  BY ThreadFacts DEF TypeOK
<1>2. IdInv
  <2>1. Creating = {}
    BY DEF Creating
  <2> QED
    BY <2>1, FS_EmptySet, ThreadFacts DEF IdInv
<1>3. ThreadInv /\ CallInv
  BY ThreadFacts DEF ThreadInv, CallInv, CallOf, Works
<1>4. ClosedInv
  <2>1. \A i \in Ids : \A t \in Pool : cur[t] # i
    BY ThreadFacts
  <2> QED
    BY <2>1 DEF ClosedInv, ClosedOf, Works
<1>5. ShutInv
  BY DEF ShutInv, Shutting
<1>6. SomeOwner /\ MapOwner /\ CallOwner /\ SelfOwner
  BY DEF SomeOwner, MapOwner, CallOwner, SelfOwner, Works, Owns
<1> QED
  BY <1>1, <1>2, <1>3, <1>4, <1>5, <1>6 DEF TimerInv

(* Every step preserves the invariant. *)
LEMMA NextTimer ==
    ASSUME TypeOK, TimerInv, [Next]_vars
    PROVE  (TypeOK /\ TimerInv)'
<1>1. CASE UNCHANGED vars
  <2>1. Creating' = Creating
    BY <1>1 DEF Creating, vars
  <2>2. IdInv'
    BY <1>1, <2>1 DEF vars, queue, TimerInv, IdInv
  <2> USE DEF vars, queue, calls
  <2>3. TypeOK'
    BY <1>1 DEF TypeOK
  <2>4. ThreadInv' /\ ClosedInv' /\ CallInv'
    BY <1>1 DEF TimerInv, ThreadInv, ClosedInv, ClosedOf, CallInv, CallOf, Works, Behind
  <2>5. ShutInv'
    BY <1>1 DEF TimerInv, ShutInv, Shutting
  <2>6. SomeOwner' /\ MapOwner' /\ CallOwner' /\ SelfOwner'
    BY <1>1 DEF TimerInv, SomeOwner, MapOwner, CallOwner, SelfOwner, Works, Owns, Guest, Behind
  <2> QED
    BY <2>2, <2>3, <2>4, <2>5, <2>6 DEF TimerInv
<1>2. CASE Next
  <2>1. CASE \E t \in Threads : Inside(t)
    <3>1. PICK t \in Threads : Inside(t)
      BY <2>1
    <3>2. CASE \E i \in Ids : ShutdownNext(t, i)
      <4>1. PICK i \in Ids : ShutdownNext(t, i)
        BY <3>2
      <4> QED
        BY <4>1, ShutdownNextTakesStep, ShutdownNextSkipsStep
    <3>3. CASE CallbackOwner(t)
      BY <3>3, CallbackOwnerGoesStep, CallbackOwnerLeavesStep
    <3>4. CASE CallbackClose(t)
      BY <3>4, CallbackCloseSelfStep, CallbackCloseNotStep
    <3>5. CASE \E p \in BOOLEAN : ScheduleCreate(t, p)
      BY <3>5, ScheduleCreateStep
    <3>6. CASE ScheduleCreateFailed(t) \/ ScheduleInsert(t) \/ ScheduleArm(t)
      BY <3>6, ScheduleCreateFailedStep, ScheduleInsertStep, ScheduleArmStep
    <3>7. CASE CancelState(t) \/ CancelDisarm(t) \/ CancelDefer(t)
      BY <3>7, CancelStateStep, CancelDisarmStep, CancelDeferStep
    <3>8. CASE CancelWait(t) \/ CancelWaited(t) \/ CancelClose(t)
      BY <3>8, CancelWaitStep, CancelWaitedStep, CancelCloseStep
    <3>9. CASE ShutdownSnapshot(t) \/ ShutdownDead(t) \/ DestroyFree(t)
      BY <3>9, ShutdownSnapshotStep, ShutdownDeadStep, DestroyFreeStep
    <3>10. CASE CallbackKeep(t) \/ CallbackEnter(t) \/ CallbackSkip(t)
      BY <3>10, CallbackKeepStep, CallbackEnterStep, CallbackSkipStep
    <3>11. CASE JobReturn(t) \/ CallbackLeave(t)
      BY <3>11, JobReturnStep, CallbackLeaveStep
    <3> QED
      BY <3>1, <3>2, <3>3, <3>4, <3>5, <3>6, <3>7, <3>8, <3>9, <3>10, <3>11 DEF Inside
  <2>2. CASE \E t \in Threads : Call(t)
    <3>1. PICK t \in Threads : Call(t)
      BY <2>2
    <3>2. CASE ScheduleCheck(t)
      BY <3>2, ScheduleCheckStep
    <3>3. CASE \E i \in Ids : CancelFind(t, i)
      BY <3>3, CancelFindStep
    <3>4. CASE \E w \in BOOLEAN : Shutdown(t, w)
      BY <3>4, ShutdownStep
    <3>5. CASE Destroy(t)
      BY <3>5, DestroyStep
    <3> QED
      BY <3>1, <3>2, <3>3, <3>4, <3>5 DEF Call
  <2>3. CASE \E i \in Ids : Expire(i)
    BY <2>3, ExpireStep
  <2>4. CASE \E i \in Ids : \E t \in Pool : Dispatch(t, i)
    <3>1. PICK i \in Ids, t \in Pool : Dispatch(t, i)
      BY <2>4
    <3> QED
      BY <3>1, DispatchStep
  <2> QED
    BY <1>2, <2>1, <2>2, <2>3, <2>4 DEF Next
<1> QED
  BY <1>1, <1>2

(* Who owns an open timer is settled in every reachable state: the map, one *)
(* call, or the callback that cancelled itself; ids do not run out, and     *)
(* Shutdown leaves in the map only what was inserted since it began.        *)
THEOREM TimerInvariant == Spec => [](TypeOK /\ TimerInv)
<1>1. TypeOK /\ TimerInv /\ [Next]_vars => (TypeOK /\ TimerInv)'
  BY NextTimer
<1> QED
  BY InitTimer, <1>1, PTL DEF Spec

(* Every variable of the TimerQueue keeps its type. *)
THEOREM TimerTypeCorrect == Spec => []TypeOK
BY TimerInvariant, PTL

-----------------------------------------------------------------------------
(* What the invariant implies. *)

(* An entry in the map is alive with Impl, unless it came in too late. *)
LEMMA MapKeepsImpl ==
    ASSUME TimerInv, NEW i \in m_Entries
    PROVE  ImplAlive \/ i \in late
BY DEF TimerInv, ShutInv, ImplAlive

(* An entry with a callback taken from the pool has an open timer, but for  *)
(* the entries left out.                                                    *)
LEMMA RunningIsOpen ==
    ASSUME TypeOK, TimerInv, NEW t \in Pool, pc[t] # "idle"
    PROVE  cur[t] \in Ids /\ (timer[cur[t]].open \/ cur[t] \in deferred \cup late)
<1>1. cur[t] # 0
  BY DEF TimerInv, ThreadInv
<1>2. cur[t] \in Ids
  BY <1>1, ThreadFacts DEF TypeOK
<1> QED
  BY <1>2 DEF TimerInv, ClosedInv, ClosedOf

(* An open timer's Entry is referenced. *)
LEMMA OpenIsReferenced ==
    ASSUME TypeOK, TimerInv, NEW i \in Ids, timer[i].open
    PROVE  Referenced(i) \/ i \in late
<1>1. CASE i \in m_Entries
  BY <1>1, MapKeepsImpl DEF Referenced
<1>2. CASE entry[i].closeAfterCallback
  BY <1>2 DEF TimerInv, SelfOwner, Referenced, Holds
<1>3. CASE \E t \in Threads : Owns(t, i)
  BY <1>3 DEF Owns, Referenced, Holds
<1> QED
  BY <1>1, <1>2, <1>3 DEF TimerInv, SomeOwner

(* TpTimerCallback and RunEntry find their Entry alive. *)
LEMMA InvEntryAlive == TypeOK /\ TimerInv => EntryAlive
<1> SUFFICES ASSUME TypeOK, TimerInv, NEW t \in Pool, pc[t] \in StartLabels
             PROVE  Referenced(cur[t]) \/ cur[t] \in deferred \cup late
  BY DEF EntryAlive
<1> QED
  BY RunningIsOpen, OpenIsReferenced

(* The calls and the closing callback find their timer open. *)
LEMMA InvHandleLive == TypeOK /\ TimerInv => HandleLive
<1> SUFFICES ASSUME TypeOK, TimerInv PROVE HandleLive
  OBVIOUS
<1>1. ASSUME NEW t \in Threads,
             pc[t] \in CancelLabels \/ (pc[t] = "sc_arm" /\ m_QueueState = "Running")
      PROVE  timer[arg[t]].open
  <2>1. Works(t, arg[t]) /\ arg[t] \in Ids
    BY <1>1, HasEntry DEF TimerInv
  <2>2. ~Behind(t)
    BY <1>1 DEF Behind
  <2> QED
    BY <2>1, <2>2 DEF TimerInv, ClosedInv, ClosedOf
<1>2. ASSUME NEW t \in Pool, pc[t] = "cb_close", entry[cur[t]].closeAfterCallback
      PROVE  timer[cur[t]].open
  <2>1. cur[t] \in Ids
    BY <1>2, RunningIsOpen
  <2> QED
    BY <1>2, <2>1 DEF TimerInv, ClosedInv, ClosedOf
<1> QED
  BY <1>1, <1>2 DEF HandleLive

(* No timer is left open without an Entry. *)
LEMMA InvNoTimerLeak == TypeOK /\ TimerInv => NoTimerLeak
BY OpenIsReferenced DEF NoTimerLeak

(* A closed timer is at rest. *)
LEMMA InvQuietAfterCancel == TypeOK /\ TimerInv => QuietAfterCancel
<1> SUFFICES ASSUME TypeOK, TimerInv, NEW i \in Ids, ~timer[i].open
             PROVE  /\ timer[i].armed => i \in late
                    /\ Outstanding(i) > 0 => i \in deferred \cup late
  BY DEF QuietAfterCancel
<1>1. timer[i].armed => i \in late
  BY DEF TimerInv, ClosedInv, ClosedOf
<1>2. CASE i \notin deferred \cup late
  <2>1. timer[i].queued = 0 /\ \A t \in Pool : cur[t] # i
    BY <1>2 DEF TimerInv, ClosedInv, ClosedOf
  <2>2. RunningOf(i) = {}
    BY <2>1 DEF RunningOf
  <2>3. Cardinality(RunningOf(i)) = 0
    BY <2>2, FS_EmptySet
  <2>4. Outstanding(i) = 0
    BY <2>1, <2>3 DEF Outstanding
  <2> QED
    BY <1>1, <2>4
<1> QED
  BY <1>1, <1>2

(* A dead queue leaves nothing that could fire to anybody but a Cancel. *)
LEMMA InvQuietAfterShutdown == TypeOK /\ TimerInv => QuietAfterShutdown
<1> SUFFICES ASSUME TypeOK, TimerInv, m_QueueState = "Dead", NEW i \in Ids \ late,
                    timer[i].armed \/ (timer[i].queued > 0 /\ i \notin deferred)
             PROVE  \E t \in Threads : pc[t] \in CancelLabels /\ arg[t] = i
  BY DEF QuietAfterShutdown
<1>1. timer[i].open
  BY DEF TypeOK, TimerInv, ClosedInv, ClosedOf
<1>2. i \notin m_Entries
  BY DEF TimerInv, ShutInv
<1>3. ~entry[i].closeAfterCallback
  BY DEF TimerInv, SelfOwner
<1>4. PICK t \in Threads : Owns(t, i)
  BY <1>1, <1>2, <1>3 DEF TimerInv, SomeOwner
<1>5. pc[t] # "sc_insert"
  BY <1>4 DEF TypeOK, TimerInv, CallInv, CallOf, Owns
<1> QED
  BY <1>4, <1>5 DEF Owns

(* The raw pointer a callback starts with is never dangling, with any       *)
(* number of threads, timers and overlapping callbacks: the Entry is in the *)
(* map of a living Impl, or held by the call that takes it down, unless the *)
(* entry was cancelled by its own callback or set after Shutdown began.     *)
THEOREM CallbackFindsEntry == Spec => []EntryAlive
BY TimerInvariant, InvEntryAlive, PTL

(* No timer object is set, waited for or closed after it was closed,        *)
(* whatever the interleaving of Cancel, Shutdown and self-cancel, but for   *)
(* the SetThreadpoolTimer of a Schedule that Shutdown has overtaken.        *)
THEOREM HandleClosedOnce == Spec => []HandleLive
BY TimerInvariant, InvHandleLive, PTL

(* No timer object outlives the last reference to its Entry, but for one    *)
(* inserted after Shutdown began.                                           *)
THEOREM TimersAreClosed == Spec => []NoTimerLeak
BY TimerInvariant, InvNoTimerLeak, PTL

(* Once a timer is closed from outside its callbacks none of them is queued *)
(* or running; only a self-cancelled or late timer may still fire.          *)
THEOREM CancelIsQuiet == Spec => []QuietAfterCancel
BY TimerInvariant, InvQuietAfterCancel, PTL

(* After Shutdown, begun at any moment of any other call, no timer can fire *)
(* but one that a concurrent Cancel is still taking down, a second callback *)
(* of one that cancelled itself, and one whose Schedule was in progress.    *)
THEOREM ShutdownIsQuiet == Spec => []QuietAfterShutdown
BY TimerInvariant, InvQuietAfterShutdown, PTL
=============================================================================
