------------------------- MODULE ServiceModeProofs -------------------------
(***************************************************************************)
(* Proofs about ServiceMode, for every number of commands that run beside  *)
(* the service, whether it can pause or not, and with calls that fail and  *)
(* hooks that throw: the status always settles, and a stop command tells   *)
(* the truth.                                                              *)
(***************************************************************************)
EXTENDS ServiceMode, TLAPS

-----------------------------------------------------------------------------
(* The inductive strengthening. *)

(* What the status says about the hook that runs: a stop begins from a     *)
(* settled status, which is what a throw restores; OnShutdown reports      *)
(* nothing beforehand.                                                     *)
HookInv ==
    /\ Settled
    /\ m_Status = "STOPPED" => hook = "none"
    /\ hook = "OnStopped" => dwOriginalState \in Stable
    /\ hook = "OnShutdown" => m_Status \in Stable
    /\ hook # "none" => main = "dispatch"

(* A service is STOPPED for good once it was started: the process is asked *)
(* to start only once.                                                     *)
Over == m_Status = "STOPPED" /\ main # "off"

(* A command that has sent its control has found the service started, and  *)
(* one that read STOPPED afterwards read the last status there is.         *)
ToolOK(p) ==
    /\ tool[p] \in {"sent", "poll"} => main # "off"
    /\ tool[p] = "poll" /\ ssp[p] = "STOPPED" => Over
    /\ result[p] = "stopped" => Over

SvcInv == SvcTypeOK /\ HookInv /\ \A p \in Tools : ToolOK(p)

-----------------------------------------------------------------------------
(* SvcInit establishes the invariant. *)
LEMMA SvcInitInv == SvcInit => SvcInv
BY DEF SvcInit, SvcInv, SvcTypeOK, HookInv, Settled, ToolOK, Over, Stable, Moving, Hooks

(* A step of the service process keeps the types, the hook's invariant and *)
(* the end, and leaves the commands alone.                                 *)
ServiceStep ==
    \/ ServiceMain \/ HookReturns \/ HookThrows \/ DispatcherReturns
    \/ \E c \in {"STOP", "SHUTDOWN", "PAUSE", "CONTINUE"} : Control(c)

(* ServiceMode::Start, ServiceCtrlHandler and what they report keep the    *)
(* invariant.                                                              *)
LEMMA ServiceKeeps == SvcInv /\ ServiceStep => SvcInv'
<1> SUFFICES ASSUME SvcInv, ServiceStep PROVE SvcInv'
  OBVIOUS
<1> USE DEF SvcInv, toolVars
<1>1. CASE ServiceMain
  BY <1>1 DEF ServiceMain, SvcTypeOK, HookInv, Settled, ToolOK, Over, Stable, Moving, Hooks
<1>2. CASE HookReturns
  BY <1>2 DEF HookReturns, Reported, SvcTypeOK, HookInv, Settled, ToolOK, Over, Stable,
              Moving, Hooks
<1>3. CASE HookThrows
  BY <1>3 DEF HookThrows, ReportedThrow, SvcTypeOK, HookInv, Settled, ToolOK, Over,
              Stable, Moving, Hooks
<1>4. CASE DispatcherReturns
  BY <1>4 DEF DispatcherReturns, SvcTypeOK, HookInv, Settled, ToolOK, Over, Stable,
              Moving, Hooks
<1>5. ASSUME NEW c \in {"STOP", "SHUTDOWN", "PAUSE", "CONTINUE"}, Control(c)
      PROVE  SvcInv'
  BY <1>5 DEF Control, Deliver, Deliverable, SvcTypeOK, HookInv, Settled, ToolOK, Over,
              Stable, Moving, Hooks
<1>6. QED
  BY <1>1, <1>2, <1>3, <1>4, <1>5 DEF ServiceStep

(* A delivered stop control leaves the other commands as they were. *)
LEMMA DeliverKeeps ==
    ASSUME SvcInv, Deliver("STOP")
    PROVE  /\ HookInv'
           /\ m_Status' \in Stable \cup Moving \cup {"STOPPED"}
           /\ dwOriginalState' \in Stable \cup {"STOPPED"}
           /\ hook' \in Hooks \cup {"none"}
           /\ main' = main /\ main = "dispatch" /\ m_Status # "STOPPED"
BY DEF SvcInv, SvcTypeOK, HookInv, Settled, Deliver, Deliverable, Stable, Moving, Hooks

(* A command that answers r and ends: r = "stopped" is said only of a      *)
(* service that is over.                                                   *)
LEMMA SayKeeps ==
    ASSUME SvcInv, NEW p \in Tools, ServiceUnchanged,
           installed' \in {"no", "yes", "deleted"},
           NEW r \in {"true", "false", "already", "stopped"}, Say(p, r),
           r = "stopped" => Over
    PROVE  SvcInv'
<1> USE DEF SvcInv, SvcTypeOK, ServiceUnchanged, Say
<1>1. SvcTypeOK'
  OBVIOUS
<1>2. HookInv'
  BY DEF HookInv, Settled
<1>3. ASSUME NEW q \in Tools PROVE ToolOK(q)'
  <2>1. ToolOK(q) /\ (Over' <=> Over) /\ main' = main
    BY DEF Over
  <2>2. CASE q = p
    BY <2>1, <2>2 DEF ToolOK
  <2>3. CASE q # p
    BY <2>1, <2>3 DEF ToolOK
  <2>4. QED
    BY <2>2, <2>3
<1>4. QED
  BY <1>1, <1>2, <1>3

(* A command that goes on to l, where it needs no more than it has. *)
LEMMA ContinueKeeps ==
    ASSUME SvcInv, NEW p \in Tools, ServiceUnchanged, UNCHANGED installed,
           NEW l \in {"query", "control", "stopping", "waiting", "sleeping", "deleting"},
           tool' = [tool EXCEPT ![p] = l], pending' \in [Tools -> BOOLEAN],
           UNCHANGED <<result, ssp>>
    PROVE  SvcInv'
BY DEF SvcInv, SvcTypeOK, ServiceUnchanged, HookInv, Settled, ToolOK, Over

(* A command that reads the status: the status it reads is the last one    *)
(* there is, or not STOPPED.                                               *)
LEMMA QueryKeeps ==
    ASSUME SvcInv, NEW p \in Tools, ServiceUnchanged, UNCHANGED installed,
           NEW l \in {"decide", "poll", "waiting", "deleting"}, Query(p, l), l = "poll" => main # "off"
    PROVE  SvcInv'
BY DEF SvcInv, SvcTypeOK, ServiceUnchanged, Query, HookInv, Settled, ToolOK, Over

(* One step of a command keeps the invariant: what it does to its own      *)
(* locals, and that it changes the service only by a delivered control.    *)
LEMMA ToolKeeps ==
    ASSUME SvcInv, NEW p \in Tools, Tool(p) \/ StopTimeout(p) \/ ToolFails(p)
    PROVE  SvcInv'
<1>1. SvcTypeOK /\ HookInv /\ ToolOK(p) /\ installed \in {"no", "yes", "deleted"}
  BY DEF SvcInv, SvcTypeOK
<1>2. CASE Install(p)
  BY <1>1, <1>2, SayKeeps DEF Install
<1>3. CASE StopOpen(p)
  <2>1. CASE Say(p, "false")
    BY <1>1, <1>3, <2>1, SayKeeps DEF StopOpen
  <2>2. CASE Continue(p, "query")
    BY <1>1, <1>3, <2>2, ContinueKeeps DEF StopOpen, Continue, SvcTypeOK
  <2>3. QED
    BY <1>3, <2>1, <2>2 DEF StopOpen
<1>4. CASE StopQuery(p)
  BY <1>4, QueryKeeps DEF StopQuery
<1>5. CASE StopDecide(p)
  <2>1. CASE Say(p, "already")
    BY <1>1, <1>5, <2>1, SayKeeps DEF StopDecide
  <2>2. CASE ~Say(p, "already")
    <3>1. pending' \in [Tools -> BOOLEAN]
      BY <1>1, <1>5, <2>2 DEF StopDecide, SvcTypeOK
    <3>2. PICK l \in {"query", "control"} : tool' = [tool EXCEPT ![p] = l]
      BY <1>5, <2>2 DEF StopDecide
    <3>3. QED
      BY <1>5, <2>2, <3>1, <3>2, ContinueKeeps DEF StopDecide
  <2>3. QED
    BY <2>1, <2>2
<1>6. CASE StopControl(p)
  <2>1. CASE Deliver("STOP") /\ Continue(p, "sent")
    BY <1>1, <1>6, <2>1, DeliverKeeps
    DEF StopControl, Continue, SvcInv, SvcTypeOK, ToolOK, Over
  <2>2. CASE ~Deliverable /\ Say(p, "false") /\ ServiceUnchanged
    BY <1>1, <1>6, <2>2, SayKeeps DEF StopControl
  <2>3. QED
    BY <1>6, <2>1, <2>2 DEF StopControl
<1>7. CASE StopSent(p)
  <2>1. CASE Query(p, "poll")
    BY <1>1, <1>7, <2>1, QueryKeeps DEF StopSent, ToolOK
  <2>2. CASE Say(p, "false")
    BY <1>1, <1>7, <2>2, SayKeeps DEF StopSent
  <2>3. QED
    BY <1>7, <2>1, <2>2 DEF StopSent
<1>8. CASE StopPoll(p)
  <2>1. CASE ssp[p] # "STOPPED" /\ Query(p, "poll")
    BY <1>1, <1>8, <2>1, QueryKeeps DEF StopPoll, ToolOK
  <2>2. CASE ssp[p] = "STOPPED" /\ Say(p, "stopped")
    BY <1>1, <1>8, <2>2, SayKeeps DEF StopPoll, ToolOK
  <2>3. QED
    BY <1>8, <2>1, <2>2 DEF StopPoll
<1>9. CASE UnInstallOpen(p)
  <2>1. CASE Say(p, "true")
    BY <1>1, <1>9, <2>1, SayKeeps DEF UnInstallOpen
  <2>2. CASE Continue(p, "stopping")
    BY <1>1, <1>9, <2>2, ContinueKeeps DEF UnInstallOpen, Continue, SvcTypeOK
  <2>3. QED
    BY <1>9, <2>1, <2>2 DEF UnInstallOpen
<1>12. CASE UnInstallControl(p)
  <2>1. CASE Deliver("STOP") /\ Continue(p, "asked")
    BY <1>1, <1>12, <2>1, DeliverKeeps
    DEF UnInstallControl, Continue, SvcInv, SvcTypeOK, ToolOK, Over
  <2>2. CASE Query(p, "waiting") /\ ServiceUnchanged
    BY <1>1, <1>12, <2>2, QueryKeeps DEF UnInstallControl
  <2>3. CASE Continue(p, "waiting") /\ ServiceUnchanged
    BY <1>1, <1>12, <2>3, ContinueKeeps DEF UnInstallControl, Continue, SvcTypeOK
  <2>4. QED
    BY <1>12, <2>1, <2>2, <2>3 DEF UnInstallControl
<1>13. CASE UnInstallSent(p)
  <2>1. CASE Query(p, "waiting")
    BY <1>13, <2>1, QueryKeeps DEF UnInstallSent
  <2>2. CASE Continue(p, "waiting")
    BY <1>1, <1>13, <2>2, ContinueKeeps DEF UnInstallSent, Continue, SvcTypeOK
  <2>3. QED
    BY <1>13, <2>1, <2>2 DEF UnInstallSent
<1>14. CASE UnInstallQuery(p)
  <2>1. CASE Query(p, "deleting")
    BY <1>14, <2>1, QueryKeeps DEF UnInstallQuery
  <2>2. CASE ~Query(p, "deleting")
    <3>1. PICK l \in {"sleeping", "deleting"} : Continue(p, l)
      BY <1>14, <2>2 DEF UnInstallQuery
    <3>2. QED
      BY <1>1, <1>14, <3>1, ContinueKeeps DEF UnInstallQuery, Continue, SvcTypeOK
  <2>3. QED
    BY <2>1, <2>2
<1>15. CASE UnInstallSleep(p)
  BY <1>1, <1>15, ContinueKeeps DEF UnInstallSleep, Continue, SvcTypeOK
<1>10. CASE UnInstallDelete(p)
  BY <1>1, <1>10, SayKeeps DEF UnInstallDelete
<1>11. CASE StopTimeout(p) \/ ToolFails(p)
  BY <1>1, <1>11, SayKeeps DEF StopTimeout, ToolFails
<1>16. QED
  BY <1>2, <1>3, <1>4, <1>5, <1>6, <1>7, <1>8, <1>9, <1>10, <1>11, <1>12, <1>13, <1>14, <1>15
     DEF Tool, UnInstall

(* Every step keeps the invariant. *)
LEMMA SvcNextKeeps == SvcInv /\ [SvcNext]_svcVars => SvcInv'
<1> SUFFICES ASSUME SvcInv, [SvcNext]_svcVars PROVE SvcInv'
  OBVIOUS
<1>1. CASE ServiceStep
  BY <1>1, ServiceKeeps
<1>2. ASSUME NEW p \in Tools, Tool(p) \/ StopTimeout(p) \/ ToolFails(p)
      PROVE  SvcInv'
  BY <1>2, ToolKeeps
<1>3. CASE UNCHANGED svcVars
  BY <1>3 DEF svcVars, toolVars, SvcInv, SvcTypeOK, HookInv, Settled, ToolOK, Over
<1>4. QED
  BY <1>1, <1>2, <1>3 DEF SvcNext, ServiceStep

(* The inductive invariant holds in every reachable state. *)
LEMMA SvcInvariant == SvcSpec => []SvcInv
<1>1. SvcInit /\ [][SvcNext]_svcVars => []SvcInv
  BY SvcInitInv, SvcNextKeeps, PTL
<1>2. QED
  BY <1>1, PTL DEF SvcSpec

(* The service process and its commands are well typed. *)
THEOREM SvcTypeCorrect == SvcSpec => []SvcTypeOK
BY SvcInvariant, PTL DEF SvcInv

(* While no control is handled the status is RUNNING, PAUSED or STOPPED,   *)
(* whichever hooks threw and whatever Start, Stop, Pause, Continue and     *)
(* Shutdown reported before.                                               *)
THEOREM StatusSettles == SvcSpec => []Settled
BY SvcInvariant, PTL DEF SvcInv, HookInv

(* When Installer::Stop reports success the service is STOPPED, and stays  *)
(* so, for any number of commands at once.                                 *)
THEOREM StopIsTrue == SvcSpec => []StopTold
<1>1. SvcInv => StopTold
  BY DEF SvcInv, ToolOK, Over, StopTold
<1>2. QED
  BY <1>1, SvcInvariant, PTL
=============================================================================
