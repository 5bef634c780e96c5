---------------------------- MODULE ServiceMode ----------------------------
(***************************************************************************)
(* The Windows service base class of both servers (LibCommons,             *)
(* ServiceMode.cpp) in the Release build: the service process with its     *)
(* ServiceMain thread and its control dispatcher, and other processes of   *)
(* the same executable that install, stop or uninstall the service.        *)
(*                                                                         *)
(* The service control manager (SCM) is external.  It delivers one control *)
(* at a time, none in a STOPPED or in a starting or stopping service, and  *)
(* tells everybody the status last reported.                               *)
(*                                                                         *)
(* The virtual functions OnStarted ... OnShutdown are hooks: hook names    *)
(* the one that runs, a module that extends this one says what it does.    *)
(* Time is left out: a poll may time out after any number of rounds.       *)
(***************************************************************************)
EXTENDS Integers, Sequences, FiniteSets

CONSTANTS
    Tools,      \* processes started with install, uninstall or stop
    CanPause,   \* bCanPauseContinue of the constructor
    Faults      \* may calls fail and hooks throw

ASSUME ServiceFlags == CanPause \in BOOLEAN /\ Faults \in BOOLEAN

VARIABLES
    installed,        \* the SCM database has the service: no, yes, deleted
    m_Status,         \* dwCurrentState as last reported
    dwOriginalState,  \* local of ServiceMode::Stop
    hook,             \* the hook that runs, or none
    main,             \* main(): off, dispatch, returned, exited
    tool, ssp, pending, result   \* per tool: next step, status read, bPending, answer

toolVars == <<tool, ssp, pending, result>>
svcVars  == <<installed, m_Status, dwOriginalState, hook, main, toolVars>>

Stable == {"RUNNING", "PAUSED"}
Moving == {"START_PENDING", "STOP_PENDING", "PAUSE_PENDING", "CONTINUE_PENDING"}
Hooks  == {"OnStarted", "OnStopped", "OnPaused", "OnContinue", "OnShutdown"}

SvcInit ==
    /\ installed \in {"no", "yes"} /\ m_Status = "STOPPED" /\ dwOriginalState = "STOPPED"
    /\ hook = "none" /\ main = "off"
    /\ tool = [p \in Tools |-> "execute"]
    /\ ssp = [p \in Tools |-> "STOPPED"]
    /\ pending = [p \in Tools |-> FALSE]
    /\ result = [p \in Tools |-> "none"]

-----------------------------------------------------------------------------
(* The service process.                                                    *)

(* The SCM starts the installed service: main, Execute without an option,  *)
(* Run, and StartServiceCtrlDispatcher with ServiceMain on a new thread.   *)
ServiceMain ==
    /\ installed = "yes" /\ main = "off"
    /\ main' = "dispatch"
    /\ m_Status' = "START_PENDING"
    /\ hook' = "OnStarted"
    /\ UNCHANGED <<installed, dwOriginalState, toolVars>>

Accepts(c) == c \in {"STOP", "SHUTDOWN"} \/ (CanPause /\ c \in {"PAUSE", "CONTINUE"})

Deliverable ==
    main = "dispatch" /\ hook = "none"
      /\ m_Status \notin {"STOPPED", "START_PENDING", "STOP_PENDING"}

(* ServiceCtrlHandler up to the call of the hook. *)
Deliver(c) ==
    /\ Deliverable /\ Accepts(c)
    /\ dwOriginalState' = IF c = "STOP" THEN m_Status ELSE dwOriginalState
    /\ m_Status' = CASE c = "STOP" -> "STOP_PENDING" [] c = "PAUSE" -> "PAUSE_PENDING"
                     [] c = "CONTINUE" -> "CONTINUE_PENDING" [] OTHER -> m_Status
    /\ hook' = CASE c = "STOP" -> "OnStopped" [] c = "PAUSE" -> "OnPaused"
                 [] c = "CONTINUE" -> "OnContinue" [] OTHER -> "OnShutdown"
    /\ UNCHANGED main

(* A control from the system or from another program. *)
Control(c) == Deliver(c) /\ UNCHANGED <<installed, toolVars>>

(* What Start, Stop, Pause, Continue and Shutdown report after the hook ... *)
Reported(h) ==
    CASE h \in {"OnStarted", "OnContinue"} -> "RUNNING"
      [] h = "OnPaused" -> "PAUSED"
      [] OTHER -> "STOPPED"

ReportedThrowNothing(h) == IF h = "OnStarted" THEN "STOPPED" ELSE m_Status

(* ... and when it threw. *)
ReportedThrow(h) ==
    CASE h = "OnStarted" -> "STOPPED"
      [] h = "OnStopped" -> dwOriginalState
      [] h = "OnPaused" -> "RUNNING"
      [] h = "OnContinue" -> "PAUSED"
      [] OTHER -> m_Status

HookReturns ==
    /\ hook # "none"
    /\ m_Status' = Reported(hook)
    /\ hook' = "none"
    /\ UNCHANGED <<installed, dwOriginalState, main, toolVars>>

HookThrows ==
    /\ Faults /\ hook # "none"
    /\ m_Status' = ReportedThrow(hook)
    /\ hook' = "none"
    /\ UNCHANGED <<installed, dwOriginalState, main, toolVars>>

(* All services of the process are STOPPED: the dispatcher, Run and Execute *)
(* return.                                                                  *)
DispatcherReturns ==
    /\ main = "dispatch" /\ hook = "none" /\ m_Status = "STOPPED"
    /\ main' = "returned"
    /\ UNCHANGED <<installed, m_Status, dwOriginalState, hook, toolVars>>

-----------------------------------------------------------------------------
(* The tools.  Every one ends in Run, whose dispatcher call fails because  *)
(* the SCM did not start the process; Execute then returns.                *)

(* The command answers r and the process ends, its locals with it. *)
Say(p, r) ==
    /\ tool' = [tool EXCEPT ![p] = "exit"]
    /\ result' = [result EXCEPT ![p] = r]
    /\ ssp' = [ssp EXCEPT ![p] = "STOPPED"]
    /\ pending' = [pending EXCEPT ![p] = FALSE]

Continue(p, l) == tool' = [tool EXCEPT ![p] = l] /\ UNCHANGED <<result, ssp, pending>>

Query(p, l) ==
    /\ tool' = [tool EXCEPT ![p] = l]
    /\ ssp' = [ssp EXCEPT ![p] = m_Status]
    /\ UNCHANGED <<result, pending>>

ServiceUnchanged == UNCHANGED <<m_Status, dwOriginalState, hook, main>>

(* Execute with --install: CreateService fails if the name is taken. *)
Install(p) ==
    /\ tool[p] = "execute"
    /\ IF installed = "no"
       THEN installed' = "yes" /\ Say(p, "true")
       ELSE UNCHANGED installed /\ Say(p, "false")
    /\ ServiceUnchanged

(* Execute with --stop: Installer::Stop opens the SCM and the service. *)
StopOpen(p) ==
    /\ tool[p] = "execute"
    /\ IF installed = "no" THEN Say(p, "false") ELSE Continue(p, "query")
    /\ ServiceUnchanged /\ UNCHANGED installed

(* QueryServiceStatusEx; a repeated query is followed by a sleep, so what  *)
(* StopDecide looks at may be old.                                         *)
StopQuery(p) ==
    /\ tool[p] = "query"
    /\ Query(p, "decide")
    /\ ServiceUnchanged /\ UNCHANGED installed

StopDecide(p) ==
    /\ tool[p] = "decide"
    /\ \/ ssp[p] = "STOPPED" /\ Say(p, "already")
       \/ /\ ssp[p] # "STOPPED"
          /\ tool' = [tool EXCEPT ![p] =
                         IF ssp[p] = "STOP_PENDING" THEN "query" ELSE "control"]
          /\ pending' = [pending EXCEPT ![p] = TRUE]
          /\ UNCHANGED <<ssp, result>>
    /\ ServiceUnchanged /\ UNCHANGED installed

(* ControlService returns when the control handler has returned, or fails: *)
(* refused, or after 30 s.                                                 *)
StopControl(p) ==
    /\ tool[p] = "control"
    /\ \/ Deliver("STOP") /\ Continue(p, "sent")
       \/ ~Deliverable /\ Say(p, "false") /\ ServiceUnchanged
    /\ UNCHANGED installed

StopSent(p) ==
    /\ tool[p] = "sent"
    /\ \/ hook = "none" /\ Query(p, "poll")
       \/ hook # "none" /\ Say(p, "false")
    /\ ServiceUnchanged /\ UNCHANGED installed

(* The loop that waits for STOPPED: query, compare, time out. *)
StopPollOnce(p) ==
    /\ tool[p] = "poll"
    /\ Say(p, "stopped")
    /\ ServiceUnchanged /\ UNCHANGED installed

StopPoll(p) ==
    /\ tool[p] = "poll"
    /\ \/ ssp[p] = "STOPPED" /\ Say(p, "stopped")
       \/ ssp[p] # "STOPPED" /\ Query(p, "poll")
    /\ ServiceUnchanged /\ UNCHANGED installed

StopTimeoutFirst(p) ==
    /\ tool[p] = "decide" /\ pending[p] /\ ssp[p] # "STOPPED"
    /\ Say(p, "false")
    /\ ServiceUnchanged /\ UNCHANGED installed

(* 30 s are over: in the first loop after a query that found it pending,   *)
(* in the second after one that did not find it stopped.                   *)
StopTimeout(p) ==
    /\ \/ tool[p] = "decide" /\ pending[p] /\ ssp[p] # "STOPPED"
       \/ tool[p] = "poll" /\ ssp[p] # "STOPPED" /\ m_Status # "STOPPED"
    /\ Say(p, "false")
    /\ ServiceUnchanged /\ UNCHANGED installed

(* Execute with --uninstall: Installer::UnInstall.  A service that cannot  *)
(* be opened counts as uninstalled.                                        *)
UnInstallOpen(p) ==
    /\ tool[p] = "execute"
    /\ \/ (installed = "no" \/ Faults) /\ Say(p, "true")
       \/ installed # "no" /\ Continue(p, "stopping")
    /\ ServiceUnchanged /\ UNCHANGED installed

(* It asks the service to stop and ignores whether that worked.  A control *)
(* that is refused hands the present status back too; any other failure    *)
(* leaves ss as it is (the zero of ss is told from STOPPED by a log only). *)
UnInstallControl(p) ==
    /\ tool[p] = "stopping"
    /\ \/ Deliver("STOP") /\ Continue(p, "asked")
       \/ ~Deliverable /\ Query(p, "waiting") /\ ServiceUnchanged
       \/ Faults /\ Continue(p, "waiting") /\ ServiceUnchanged
    /\ UNCHANGED installed

UnInstallSent(p) ==
    /\ tool[p] = "asked"
    /\ \/ hook = "none" /\ Query(p, "waiting")
       \/ hook # "none" /\ Continue(p, "waiting")
    /\ ServiceUnchanged /\ UNCHANGED installed

(* One QueryServiceStatus of the wait loop.  The loop ends when the call   *)
(* succeeds, whatever status it finds, and goes on, without a limit, while *)
(* it fails and the status ControlService returned is STOP_PENDING.        *)
UnInstallQuery(p) ==
    /\ tool[p] = "waiting"
    /\ \/ Query(p, "deleting")
       \/ /\ Faults
          /\ Continue(p, IF ssp[p] = "STOP_PENDING" THEN "sleeping" ELSE "deleting")
    /\ ServiceUnchanged /\ UNCHANGED installed

UnInstallSleep(p) ==
    /\ tool[p] = "sleeping"
    /\ Continue(p, "waiting")
    /\ ServiceUnchanged /\ UNCHANGED installed

UnInstallDelete(p) ==
    /\ tool[p] = "deleting"
    /\ IF installed = "yes"
       THEN installed' = "deleted" /\ Say(p, "true")
       ELSE UNCHANGED installed /\ Say(p, "false")
    /\ ServiceUnchanged

(* A call of the SCM fails and the command answers false: each of Install  *)
(* and of Stop, and the first and the last of UnInstall.                   *)
ToolFails(p) ==
    /\ Faults
    /\ \/ tool[p] \in {"execute", "query", "control", "sent", "deleting"}
       \/ tool[p] = "poll" /\ ssp[p] # "STOPPED"
    /\ Say(p, "false")
    /\ ServiceUnchanged /\ UNCHANGED installed

UnInstall(p) ==
    \/ UnInstallOpen(p) \/ UnInstallControl(p) \/ UnInstallSent(p)
    \/ UnInstallQuery(p) \/ UnInstallSleep(p) \/ UnInstallDelete(p)

Tool(p) ==
    \/ Install(p) \/ StopOpen(p) \/ StopQuery(p) \/ StopDecide(p)
    \/ StopControl(p) \/ StopSent(p) \/ StopPoll(p) \/ UnInstall(p)

SvcNext ==
    \/ ServiceMain \/ HookReturns \/ HookThrows \/ DispatcherReturns
    \/ \E c \in {"STOP", "SHUTDOWN", "PAUSE", "CONTINUE"} : Control(c)
    \/ \E p \in Tools : Tool(p) \/ StopTimeout(p) \/ ToolFails(p)

(* Hooks return, or throw; tools run; time passes, so that a poll that is  *)
(* repeated for ever times out.  Nothing makes a failing call of the SCM   *)
(* succeed in the end.                                                     *)
SvcSpec ==
    /\ SvcInit /\ [][SvcNext]_svcVars
    /\ WF_svcVars(HookReturns \/ HookThrows)
    /\ \A p \in Tools : WF_svcVars(Tool(p)) /\ SF_svcVars(StopTimeout(p))

-----------------------------------------------------------------------------
SvcTypeOK ==
    /\ installed \in {"no", "yes", "deleted"}
    /\ m_Status \in Stable \cup Moving \cup {"STOPPED"}
    /\ dwOriginalState \in Stable \cup {"STOPPED"}
    /\ hook \in Hooks \cup {"none"} /\ main \in {"off", "dispatch", "returned", "exited"}
    /\ tool \in [Tools -> {"execute", "query", "decide", "control", "sent", "poll",
                            "stopping", "asked", "waiting", "sleeping", "deleting",
                            "exit"}]
    /\ ssp \in [Tools -> Stable \cup Moving \cup {"STOPPED"}]
    /\ pending \in [Tools -> BOOLEAN]
    /\ result \in [Tools -> {"none", "true", "false", "already", "stopped"}]

(* When the stop command reports that it stopped the service, the service  *)
(* is STOPPED: neither the status ControlService hands back, nor a hook    *)
(* that threw and restored RUNNING, nor another control in between makes   *)
(* Installer::Stop report a stop that did not take place.                  *)
StopTold == \A p \in Tools : result[p] = "stopped" => m_Status = "STOPPED"

(* While no control is handled the status is a settled one: no path        *)
(* through Start, Stop, Pause, Continue and Shutdown, thrown or not, leaves *)
(* a pending state with nobody to finish it.                               *)
Settled == hook = "none" => m_Status \in Stable \cup {"STOPPED"}

(* Every command answers: the two loops of Installer::Stop end, also when  *)
(* OnStopped throws and the service goes on, or others keep stopping it.   *)
(* The one exception is the loop of Installer::UnInstall, which has no     *)
(* limit: QueryServiceStatus fails again and again after a control that    *)
(* met a service in STOP_PENDING.                                          *)
CommandEnds == \A p \in Tools : <>(tool[p] = "exit") \/ []<>(tool[p] = "sleeping")
=============================================================================
