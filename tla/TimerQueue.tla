---------------------------- MODULE TimerQueue ----------------------------
(***************************************************************************)
(* LibCommons/TimerQueue.cpp: timers over the Windows thread pool.         *)
(* Schedule, Cancel, Shutdown and the destructor are called by application *)
(* threads and, from inside a job, by pool threads; callbacks run on pool  *)
(* threads.  One step is one shared access: the map under m_MapMutex, an   *)
(* atomic of the entry or of the queue, a call of the thread pool.         *)
(*                                                                         *)
(* The thread pool is external: a timer object is open until closed, armed *)
(* while set, and has callbacks queued and running.                        *)
(* WaitForThreadpoolTimerCallbacks always waits for what runs; its second  *)
(* argument says whether what is queued is dropped or waited for too.      *)
(*                                                                         *)
(* An Entry is freed when its last shared_ptr goes: the map's, a call's,   *)
(* or keepAlive of RunEntry.  A callback starts with a raw pointer.        *)
(***************************************************************************)
EXTENDS Integers, FiniteSets

CONSTANTS
    Callers,         \* application threads
    Pool,            \* thread pool threads
    MaxTimers,       \* bound: timers ever created
    MaxOutstanding,  \* bound: callbacks of one timer queued or running at once
    JobCalls,        \* what a job may call: schedule, cancel, shutdown, destroy
    WaitOptions      \* arguments Shutdown is called with

ASSUME ThreadsAssumption ==
    IsFiniteSet(Callers) /\ IsFiniteSet(Pool) /\ Callers \cap Pool = {}
ASSUME BoundsAssumption ==
    /\ MaxTimers \in Nat /\ MaxOutstanding \in Nat \ {0}
    /\ WaitOptions \subseteq BOOLEAN

VARIABLES
    m_QueueState, m_NextId, m_Entries,
    entry,     \* the fields of each Entry
    timer,     \* the pool's timer object of each Entry
    known,     \* ids a Schedule call has returned
    late,      \* ids inserted or set by a Schedule after Shutdown began
    deferred,  \* ids whose close Cancel has left to their callback
    owned,     \* the TimerQueue object: alive, destroying, destroyed
    pc, op,    \* per thread: next access; cancel, shutdown or destroy
    cur,       \* g_pCurrentCallbackEntry, 0 outside a callback
    arg,       \* the entry a call works on
    waits, ids \* waitForCallbacks, and the snapshot of Shutdown

ghosts == <<known, late, deferred>>   \* of the model only: no step reads late and deferred
queue == <<m_QueueState, m_NextId, m_Entries, ghosts, owned>>
calls == <<op, arg, waits, ids>>
vars  == <<queue, entry, timer, pc, cur, calls>>

Threads == Callers \cup Pool
Ids     == 1..MaxTimers

Entries == [state : {"Scheduled", "Running", "Completed", "Cancelled"},
            isPeriodic : BOOLEAN, handle : BOOLEAN, closeAfterCallback : BOOLEAN]
Timers  == [open : BOOLEAN, armed : BOOLEAN, queued : Nat]

ScheduleLabels == {"sc_create", "sc_insert", "sc_arm"}
CancelLabels   == {"ca_state", "ca_disarm", "ca_defer", "ca_wait", "ca_waiting", "ca_close"}
ShutdownLabels == {"sd_snap", "sd_next", "sd_free"}
CallLabels     == ScheduleLabels \cup CancelLabels \cup ShutdownLabels
StartLabels    == {"cb_owner", "cb_keep"}
Labels == CallLabels \cup StartLabels \cup {"idle", "cb_enter", "cb_body", "cb_leave", "cb_close"}

Init ==
    /\ m_QueueState = "Running" /\ m_NextId = 1 /\ m_Entries = {}
    /\ entry = [i \in Ids |-> [state |-> "Scheduled", isPeriodic |-> FALSE,
                               handle |-> FALSE, closeAfterCallback |-> FALSE]]
    /\ timer = [i \in Ids |-> [open |-> FALSE, armed |-> FALSE, queued |-> 0]]
    /\ known = {} /\ late = {} /\ deferred = {} /\ owned = "alive"
    /\ pc = [t \in Threads |-> "idle"]
    /\ op = [t \in Threads |-> "cancel"]
    /\ cur = [t \in Threads |-> 0]
    /\ arg = [t \in Threads |-> 0]
    /\ waits = [t \in Threads |-> TRUE]
    /\ ids = [t \in Threads |-> {}]

At(t, l)   == pc[t] = l
Goto(t, l) == pc' = [pc EXCEPT ![t] = l]

(* Callbacks of entry i that a pool thread has taken, and all outstanding. *)
RunningOf(i)   == {t \in Pool : pc[t] # "idle" /\ cur[t] = i}
Outstanding(i) == timer[i].queued + Cardinality(RunningOf(i))

(* Who keeps the Impl and the Entry objects alive. *)
ImplAlive == owned # "destroyed" \/ \E t \in Pool : pc[t] \notin {"idle", "cb_owner"}
Holds(t, i) ==
    \/ pc[t] \in ScheduleLabels \cup CancelLabels /\ arg[t] = i
    \/ t \in Pool /\ cur[t] = i /\ pc[t] \notin StartLabels \cup {"idle"}
Referenced(i) == (ImplAlive /\ i \in m_Entries) \/ \E t \in Threads : Holds(t, i)

(* A call begins outside the queue or inside a job, on a living queue, and  *)
(* goes back there.                                                         *)
MayCall(t, c) ==
    /\ owned = "alive"
    /\ \/ t \in Callers /\ At(t, "idle")
       \/ t \in Pool /\ At(t, "cb_body") /\ c \in JobCalls
Back(t) == IF t \in Pool THEN "cb_body" ELSE "idle"

-----------------------------------------------------------------------------
(* ScheduleImpl.  A call that finds the queue not Running changes nothing. *)

ScheduleCheck(t) ==
    /\ MayCall(t, "schedule")
    /\ m_NextId + Cardinality({u \in Threads : At(u, "sc_create")}) <= MaxTimers
    /\ m_QueueState = "Running"
    /\ Goto(t, "sc_create")
    /\ UNCHANGED <<queue, entry, timer, cur, calls>>

ScheduleCreate(t, periodic) ==
    /\ At(t, "sc_create")
    /\ m_NextId' = m_NextId + 1
    /\ entry' = [entry EXCEPT ![m_NextId] = [@ EXCEPT !.isPeriodic = periodic, !.handle = TRUE]]
    /\ timer' = [timer EXCEPT ![m_NextId].open = TRUE]
    /\ arg' = [arg EXCEPT ![t] = m_NextId]
    /\ Goto(t, "sc_insert")
    /\ UNCHANGED <<m_QueueState, m_Entries, ghosts, owned, cur, op, waits, ids>>

(* CreateThreadpoolTimer fails: the id is spent. *)
ScheduleCreateFailed(t) ==
    /\ At(t, "sc_create")
    /\ m_NextId' = m_NextId + 1
    /\ Goto(t, Back(t))
    /\ UNCHANGED <<m_QueueState, m_Entries, ghosts, owned, entry, timer, cur, calls>>

(* The state is not checked again: Shutdown may have begun since the check. *)
Overtaken(t) == late' = IF m_QueueState = "Running" THEN late ELSE late \cup {arg[t]}

ScheduleInsert(t) ==
    /\ At(t, "sc_insert")
    /\ m_Entries' = m_Entries \cup {arg[t]}
    /\ Overtaken(t)
    /\ Goto(t, "sc_arm")
    /\ UNCHANGED <<m_QueueState, m_NextId, known, deferred, owned, entry, timer, cur, calls>>

(* Mutant: the timer is never set. *)
ScheduleArmMissing(t) ==
    /\ At(t, "sc_arm")
    /\ known' = known \cup {arg[t]}
    /\ Overtaken(t)
    /\ Goto(t, Back(t))
    /\ UNCHANGED <<m_QueueState, m_NextId, m_Entries, deferred, owned, entry, timer, cur, calls>>

(* SetThreadpoolTimer on a closed object is undefined (HandleLive says when *)
(* it happens); the model goes on as if it had no effect.                   *)
ScheduleArm(t) ==
    /\ At(t, "sc_arm")
    /\ timer' = [timer EXCEPT ![arg[t]].armed = timer[arg[t]].open]
    /\ known' = known \cup {arg[t]}
    /\ Overtaken(t)
    /\ Goto(t, Back(t))
    /\ UNCHANGED <<m_QueueState, m_NextId, m_Entries, deferred, owned, entry, cur, calls>>

-----------------------------------------------------------------------------
(* CancelImpl, for Cancel and for each id of Shutdown.  Cancel of an id     *)
(* that is not in the map returns false and changes nothing.                *)

Take(t, i) ==
    /\ m_Entries' = m_Entries \ {i}
    /\ arg' = [arg EXCEPT ![t] = i]
    /\ Goto(t, "ca_state")

AfterCancel(t) == IF op[t] = "cancel" THEN Back(t) ELSE "sd_next"

(* Mutant: the entry stays in the map. *)
CancelFindKeeps(t, i) ==
    /\ MayCall(t, "cancel")
    /\ i \in known \cap m_Entries
    /\ arg' = [arg EXCEPT ![t] = i]
    /\ Goto(t, "ca_state")
    /\ op' = [op EXCEPT ![t] = "cancel"]
    /\ waits' = [waits EXCEPT ![t] = TRUE]
    /\ UNCHANGED <<queue, entry, timer, cur, ids>>

CancelFind(t, i) ==
    /\ MayCall(t, "cancel")
    /\ i \in known \cap m_Entries
    /\ Take(t, i)
    /\ op' = [op EXCEPT ![t] = "cancel"]
    /\ waits' = [waits EXCEPT ![t] = TRUE]
    /\ UNCHANGED <<m_QueueState, m_NextId, ghosts, owned, entry, timer, cur, ids>>

CancelState(t) ==
    /\ At(t, "ca_state")
    /\ entry' = [entry EXCEPT ![arg[t]].state = "Cancelled"]
    /\ Goto(t, "ca_disarm")
    /\ UNCHANGED <<queue, timer, cur, calls>>

(* Mutants: SetThreadpoolTimer(h, nullptr) is missing; a callback that      *)
(* cancels itself is not recognised.                                        *)
CancelDisarmMissing(t) ==
    /\ At(t, "ca_disarm")
    /\ Goto(t, IF cur[t] = arg[t] THEN "ca_defer" ELSE "ca_wait")
    /\ UNCHANGED <<queue, entry, timer, cur, calls>>
CancelDisarmNoSelf(t) ==
    /\ At(t, "ca_disarm")
    /\ timer' = [timer EXCEPT ![arg[t]].armed = FALSE]
    /\ Goto(t, "ca_wait")
    /\ UNCHANGED <<queue, entry, cur, calls>>

CancelDisarm(t) ==
    /\ At(t, "ca_disarm")
    /\ IF entry[arg[t]].handle
         THEN /\ timer' = [timer EXCEPT ![arg[t]].armed = FALSE]
              /\ Goto(t, IF cur[t] = arg[t] THEN "ca_defer" ELSE "ca_wait")
         ELSE UNCHANGED timer /\ Goto(t, AfterCancel(t))
    /\ UNCHANGED <<queue, entry, cur, calls>>

CancelDefer(t) ==
    /\ At(t, "ca_defer")
    /\ entry' = [entry EXCEPT ![arg[t]].closeAfterCallback = TRUE]
    /\ deferred' = deferred \cup {arg[t]}
    /\ Goto(t, AfterCancel(t))
    /\ UNCHANGED <<m_QueueState, m_NextId, m_Entries, known, late, owned, timer, cur, calls>>

CancelWait(t) ==
    /\ At(t, "ca_wait")
    /\ timer' = IF waits[t] THEN [timer EXCEPT ![arg[t]].queued = 0] ELSE timer
    /\ Goto(t, "ca_waiting")
    /\ UNCHANGED <<queue, entry, cur, calls>>

(* Mutant: the wait returns at once. *)
CancelWaitedNot(t) ==
    /\ At(t, "ca_waiting")
    /\ Goto(t, "ca_close")
    /\ UNCHANGED <<queue, entry, timer, cur, calls>>

CancelWaited(t) ==
    /\ At(t, "ca_waiting")
    /\ Outstanding(arg[t]) = 0
    /\ Goto(t, "ca_close")
    /\ UNCHANGED <<queue, entry, timer, cur, calls>>

CancelClose(t) ==
    /\ At(t, "ca_close")
    /\ timer' = [timer EXCEPT ![arg[t]].open = FALSE]
    /\ entry' = [entry EXCEPT ![arg[t]].handle = FALSE]
    /\ Goto(t, AfterCancel(t))
    /\ UNCHANGED <<queue, cur, calls>>

-----------------------------------------------------------------------------
(* ShutdownImpl and ~TimerQueue.  A later Shutdown changes nothing.  A      *)
(* Schedule that has passed its check may still be on its way.              *)

Shutdown(t, wait) ==
    /\ MayCall(t, "shutdown")
    /\ wait \in WaitOptions
    /\ m_QueueState = "Running"
    /\ m_QueueState' = "ShuttingDown"
    /\ op' = [op EXCEPT ![t] = "shutdown"]
    /\ waits' = [waits EXCEPT ![t] = wait]
    /\ Goto(t, "sd_snap")
    /\ UNCHANGED <<m_NextId, m_Entries, ghosts, owned, entry, timer, cur, arg, ids>>

(* The owner destroys the queue when no other thread is inside a call. *)
Destroy(t) ==
    /\ MayCall(t, "destroy")
    /\ \A u \in Threads : pc[u] \notin CallLabels
    /\ owned' = "destroying"
    /\ op' = [op EXCEPT ![t] = "destroy"]
    /\ waits' = [waits EXCEPT ![t] = TRUE]
    /\ IF m_QueueState = "Running"
         THEN m_QueueState' = "ShuttingDown" /\ Goto(t, "sd_snap")
         ELSE UNCHANGED m_QueueState /\ Goto(t, "sd_free")
    /\ UNCHANGED <<m_NextId, m_Entries, ghosts, entry, timer, cur, arg, ids>>

ShutdownSnapshot(t) ==
    /\ At(t, "sd_snap")
    /\ ids' = [ids EXCEPT ![t] = m_Entries]
    /\ Goto(t, "sd_next")
    /\ UNCHANGED <<queue, entry, timer, cur, op, arg, waits>>

(* Mutant: an entry whose callback runs is left to its callback. *)
ShutdownNextSkipsRunning(t, i) ==
    /\ At(t, "sd_next")
    /\ i \in ids[t]
    /\ ids' = [ids EXCEPT ![t] = @ \ {i}]
    /\ IF i \in m_Entries /\ entry[i].state # "Running"
         THEN Take(t, i) ELSE UNCHANGED <<m_Entries, arg, pc>>
    /\ UNCHANGED <<m_QueueState, m_NextId, ghosts, owned, entry, timer, cur, op, waits>>

ShutdownNext(t, i) ==
    /\ At(t, "sd_next")
    /\ i \in ids[t]
    /\ ids' = [ids EXCEPT ![t] = @ \ {i}]
    /\ IF i \in m_Entries THEN Take(t, i) ELSE UNCHANGED <<m_Entries, arg, pc>>
    /\ UNCHANGED <<m_QueueState, m_NextId, ghosts, owned, entry, timer, cur, op, waits>>

ShutdownDead(t) ==
    /\ At(t, "sd_next")
    /\ ids[t] = {}
    /\ m_QueueState' = "Dead"
    /\ Goto(t, IF op[t] = "destroy" THEN "sd_free" ELSE Back(t))
    /\ UNCHANGED <<m_NextId, m_Entries, ghosts, owned, entry, timer, cur, calls>>

DestroyFree(t) ==
    /\ At(t, "sd_free")
    /\ owned' = "destroyed"
    /\ Goto(t, Back(t))
    /\ UNCHANGED <<m_QueueState, m_NextId, m_Entries, ghosts, entry, timer, cur, calls>>

-----------------------------------------------------------------------------
(* TpTimerCallback and RunEntry, on a pool thread. *)

(* The pool (external): a set timer expires and queues a callback; a thread *)
(* takes it.                                                                *)
Expire(i) ==
    /\ timer[i].armed
    /\ Outstanding(i) < MaxOutstanding
    /\ timer' = [timer EXCEPT ![i].queued = @ + 1, ![i].armed = entry[i].isPeriodic]
    /\ UNCHANGED <<queue, entry, pc, cur, calls>>

Dispatch(t, i) ==
    /\ t \in Pool /\ At(t, "idle")
    /\ timer[i].queued > 0
    /\ timer' = [timer EXCEPT ![i].queued = @ - 1]
    /\ cur' = [cur EXCEPT ![t] = i]
    /\ Goto(t, "cb_owner")
    /\ UNCHANGED <<queue, entry, calls>>

Leave(t) == Goto(t, "idle") /\ cur' = [cur EXCEPT ![t] = 0]

CallbackOwner(t) ==
    /\ At(t, "cb_owner")
    /\ IF ImplAlive THEN Goto(t, "cb_keep") /\ UNCHANGED cur ELSE Leave(t)
    /\ UNCHANGED <<queue, entry, timer, calls>>

CallbackKeep(t) ==
    /\ At(t, "cb_keep")
    /\ Goto(t, "cb_enter")
    /\ UNCHANGED <<queue, entry, timer, cur, calls>>

CallbackEnter(t) ==
    /\ At(t, "cb_enter")
    /\ entry[cur[t]].state # "Cancelled"
    /\ entry' = [entry EXCEPT ![cur[t]].state = IF @ = "Scheduled" THEN "Running" ELSE @]
    /\ Goto(t, "cb_body")
    /\ UNCHANGED <<queue, timer, cur, calls>>

CallbackSkip(t) ==
    /\ At(t, "cb_enter")
    /\ entry[cur[t]].state = "Cancelled"
    /\ Leave(t)
    /\ UNCHANGED <<queue, entry, timer, calls>>

(* job.invoke() returns or throws: both go on the same way. *)
JobReturn(t) ==
    /\ At(t, "cb_body")
    /\ Goto(t, "cb_leave")
    /\ UNCHANGED <<queue, entry, timer, cur, calls>>

CallbackLeave(t) ==
    /\ At(t, "cb_leave")
    /\ entry' = [entry EXCEPT ![cur[t]].state =
                    IF ~entry[cur[t]].isPeriodic THEN "Completed"
                    ELSE IF @ = "Running" THEN "Scheduled" ELSE @]
    /\ Goto(t, "cb_close")
    /\ UNCHANGED <<queue, timer, cur, calls>>

(* Mutant: the deferred close is forgotten. *)
CallbackCloseMissing(t) ==
    /\ At(t, "cb_close")
    /\ entry' = [entry EXCEPT ![cur[t]].closeAfterCallback = FALSE]
    /\ Leave(t)
    /\ UNCHANGED <<queue, timer, calls>>

CallbackClose(t) ==
    /\ At(t, "cb_close")
    /\ LET e == entry[cur[t]]
       IN  IF e.closeAfterCallback
             THEN /\ entry' = [entry EXCEPT ![cur[t]] =
                                 [e EXCEPT !.closeAfterCallback = FALSE, !.handle = FALSE]]
                  /\ timer' = IF e.handle THEN [timer EXCEPT ![cur[t]].open = FALSE] ELSE timer
             ELSE UNCHANGED <<entry, timer>>
    /\ Leave(t)
    /\ UNCHANGED <<queue, calls>>

-----------------------------------------------------------------------------
(* The steps of a call or callback that has begun. *)
Inside(t) ==
    \/ \E p \in BOOLEAN : ScheduleCreate(t, p)
    \/ ScheduleCreateFailed(t) \/ ScheduleInsert(t) \/ ScheduleArm(t)
    \/ CancelState(t) \/ CancelDisarm(t) \/ CancelDefer(t)
    \/ CancelWait(t) \/ CancelWaited(t) \/ CancelClose(t)
    \/ ShutdownSnapshot(t) \/ (\E i \in Ids : ShutdownNext(t, i))
    \/ ShutdownDead(t) \/ DestroyFree(t)
    \/ CallbackOwner(t) \/ CallbackKeep(t) \/ CallbackEnter(t) \/ CallbackSkip(t)
    \/ JobReturn(t) \/ CallbackLeave(t) \/ CallbackClose(t)

Call(t) ==
    \/ ScheduleCheck(t)
    \/ \E i \in Ids : CancelFind(t, i)
    \/ \E w \in BOOLEAN : Shutdown(t, w)
    \/ Destroy(t)

Next ==
    \/ \E t \in Threads : Inside(t) \/ Call(t)
    \/ \E i \in Ids : Expire(i) \/ \E t \in Pool : Dispatch(t, i)

Spec == Init /\ [][Next]_vars

(* Threads inside a call or callback go on, jobs return, a set timer        *)
(* expires, and the pool finds a thread for a queued callback.  No call is  *)
(* assumed to be made.                                                      *)
Fairness ==
    /\ \A t \in Threads : WF_vars(Inside(t))
    /\ \A i \in Ids : WF_vars(Expire(i)) /\ WF_vars(\E t \in Pool : Dispatch(t, i))

FairSpec == Spec /\ Fairness

-----------------------------------------------------------------------------
(* Properties. *)

(* Every field has its type; ids are given out one at a time. *)
TypeOK ==
    /\ m_QueueState \in {"Running", "ShuttingDown", "Dead"}
    /\ m_NextId \in 1..(MaxTimers + 1)
    /\ m_Entries \subseteq Ids
    /\ known \subseteq Ids /\ late \subseteq Ids /\ deferred \subseteq Ids
    /\ owned \in {"alive", "destroying", "destroyed"}
    /\ entry \in [Ids -> Entries] /\ timer \in [Ids -> Timers]
    /\ pc \in [Threads -> Labels]
    /\ op \in [Threads -> {"cancel", "shutdown", "destroy"}]
    /\ cur \in [Threads -> 0..MaxTimers] /\ arg \in [Threads -> 0..MaxTimers]
    /\ waits \in [Threads -> BOOLEAN] /\ ids \in [Threads -> SUBSET Ids]

(* The raw pointer a callback starts with points to an Entry that is still  *)
(* alive when TpTimerCallback reads its owner and RunEntry takes keepAlive, *)
(* with callbacks of one timer overlapping.  Two kinds of entry are left    *)
(* out, because for them it is false: one that its own callback cancelled,  *)
(* which nobody waits for before the Entry goes, and one whose Schedule was *)
(* overtaken by Shutdown.                                                   *)
EntryAlive ==
    \A t \in Pool : pc[t] \in StartLabels =>
        Referenced(cur[t]) \/ cur[t] \in deferred \cup late

(* No timer object is set, waited for or closed after it was closed: it is  *)
(* closed once, by the Cancel that took the entry or by the callback that   *)
(* found closeAfterCallback.  Only the SetThreadpoolTimer of a Schedule     *)
(* that Shutdown has overtaken may come after the close.                    *)
HandleLive ==
    /\ \A t \in Threads :
          \/ pc[t] \in {"ca_disarm", "ca_wait", "ca_waiting", "ca_close"}
          \/ pc[t] = "sc_arm" /\ m_QueueState = "Running"
            => timer[arg[t]].open
    /\ \A t \in Pool :
          pc[t] = "cb_close" /\ entry[cur[t]].closeAfterCallback => timer[cur[t]].open

(* No timer object outlives its Entry: whatever path drops the last         *)
(* reference has closed the object first.  Only a timer inserted after      *)
(* Shutdown began may stay in the map until the queue is freed.             *)
NoTimerLeak == \A i \in Ids : timer[i].open => Referenced(i) \/ i \in late

(* Once an entry's timer is closed, no callback of it is queued or runs: a  *)
(* Cancel from outside the callback returns only then.  A callback that     *)
(* cancels its own entry waits for no other callback of it, and Cancel does *)
(* not wait for a timer set behind its back by an overtaken Schedule.       *)
QuietAfterCancel ==
    \A i \in Ids : i < m_NextId /\ ~timer[i].open =>
        /\ timer[i].armed => i \in late
        /\ Outstanding(i) > 0 => i \in deferred \cup late

(* After Shutdown no timer is left that could fire ("Shutdown must stop all *)
(* further callback fires", TimerQueueTests.cpp:342), except one that a     *)
(* concurrent Cancel took out of the map and is still taking down, one that *)
(* its own callback cancelled while another was queued, and one whose       *)
(* Schedule had passed its check when Shutdown began: the check and the     *)
(* insert are two steps, and the snapshot may come between them.            *)
QuietAfterShutdown ==
    m_QueueState = "Dead" =>
        \A i \in Ids \ late : timer[i].armed \/ (timer[i].queued > 0 /\ i \notin deferred) =>
            \E t \in Threads : pc[t] \in CancelLabels /\ arg[t] = i

(* Waits that need not end: threads that wait for each other's callbacks,   *)
(* and a wait for a timer that an overtaken Schedule has set again, which   *)
(* keeps firing when it is periodic.  Nobody ever waits for itself.         *)
Stalled(t) ==
    \E S \in SUBSET Threads :
        /\ t \in S
        /\ \A u \in S :
              /\ At(u, "ca_waiting")
              /\ arg[u] \in late \/ \E v \in S \ {u} : cur[v] = arg[u]

(* A Cancel or Shutdown that waits for callbacks gets its turn, whatever it *)
(* cancels and from wherever, its own entry included; only jobs that cancel *)
(* each other's timers, or shut the queue down while another job waits for  *)
(* them, may wait for each other.                                           *)
CancelReturns ==
    \A t \in Threads : At(t, "ca_waiting") ~> (~At(t, "ca_waiting") \/ Stalled(t))

(* A one-shot timer that was set starts its job or is cancelled, whatever   *)
(* other jobs are running or waiting; only one that Shutdown did not see    *)
(* may meet a queue that is already gone.                                   *)
OneShotFires ==
    \A i \in Ids :
        (i \in known \ late /\ ~entry[i].isPeriodic) ~> (entry[i].state # "Scheduled")

(* A Shutdown that began ends, with every entry out of the map but those    *)
(* inserted since it began, unless it waits for a job that waits for it.     *)
ShutdownEnds ==
    m_QueueState = "ShuttingDown" ~>
        \/ m_QueueState = "Dead" /\ m_Entries \subseteq late
        \/ \E t \in Threads : op[t] # "cancel" /\ Stalled(t)
=============================================================================
