-------------------------- MODULE OutboundSession --------------------------
(***************************************************************************)
(* A client's connections: OutboundSession on top of IOSession, made by    *)
(* IOSocketConnector (LibNetworks).  Who keeps a session object alive is   *)
(* explicit: the connector (m_pSession), itself kept by m_pLifecycleHold   *)
(* or by the application; the application (user); a completion handler,    *)
(* which takes shared_from_this.  The completion port and the kernel only  *)
(* have raw pointers.                                                      *)
(*                                                                         *)
(* Each session has two handler threads, c for the completion of ConnectEx *)
(* and r for that of WSARecv, which overlap once OnConnected has posted    *)
(* the first receive.  Sends and frames are left to IOSession.  A module   *)
(* that extends this one says what happens at "app" (the rest of           *)
(* OnConnected of a derived class), "packet" (OnPacketReceived) and        *)
(* "handler" (the rest of OnDisconnected).                                 *)
(***************************************************************************)
EXTENDS Integers, Sequences, FiniteSets

CONSTANTS
    Sessions,
    Faults        \* may Winsock calls fail and connections break

ASSUME OutboundAssumption == IsFiniteSet(Sessions) /\ Faults \in BOOLEAN

VARIABLES
    m_pSession,           \* sessions whose connector has a strong pointer
    m_pLifecycleHold,     \* sessions whose connector holds itself
    connectors, user,     \* connectors and sessions the application holds
    kernel,               \* per session: the pending ones of connect and recv
    m_OutstandingIoCount, \* per session
    requested, fired,     \* m_DisconnectRequested, m_bOnDisconnectedFired
    pc,                   \* per handler thread
    failure               \* how the process died

connVars == <<m_pSession, m_pLifecycleHold>>
appHolds == <<connectors, user>>
ioVars   == <<kernel, m_OutstandingIoCount>>
outVars  == <<connVars, appHolds, ioVars, requested, fired, pc, failure>>

Threads == Sessions \X {"c", "r"}

OutInit ==
    /\ m_pSession = {} /\ m_pLifecycleHold = {} /\ connectors = {} /\ user = {}
    /\ kernel = [s \in Sessions |-> {}]
    /\ m_OutstandingIoCount = [s \in Sessions |-> 0]
    /\ requested = {} /\ fired = {}
    /\ pc = [t \in Threads |-> "idle"]
    /\ failure = "none"

Goto(t, l) == pc' = [pc EXCEPT ![t] = l]

Held(s) ==
    \/ s \in user
    \/ s \in m_pSession /\ s \in m_pLifecycleHold \cup connectors
    \/ \E k \in {"c", "r"} : pc[<<s, k>>] # "idle"

-----------------------------------------------------------------------------
(* IOSocketConnector::Connect, called by the application.                  *)

(* Bind fails, or there is no session: nothing is left of the attempt. *)
ConnectNull(s) == UNCHANGED outVars

(* Steps up to the ConnectEx of a session fail: DisConnect requests the    *)
(* disconnect, nothing is pending, so OnDisconnected is called right here  *)
(* and its observer releases what Connect had set.                         *)
ConnectRefused(s) ==
    /\ requested' = requested \cup {s}
    /\ fired' = fired \cup {s}
    /\ UNCHANGED <<connVars, connectors, ioVars, pc, failure>>

ConnectUnheld(s) ==
    /\ m_pSession' = m_pSession \cup {s}
    /\ kernel' = [kernel EXCEPT ![s] = {"connect"}]
    /\ m_OutstandingIoCount' = [m_OutstandingIoCount EXCEPT ![s] = 1]
    /\ UNCHANGED <<m_pLifecycleHold, requested, fired, pc, failure>>

(* m_pSession, m_pLifecycleHold, the observers, Associate and ConnectEx,   *)
(* counted before it is posted.                                            *)
ConnectPosted(s) ==
    /\ m_pSession' = m_pSession \cup {s}
    /\ m_pLifecycleHold' = m_pLifecycleHold \cup {s}
    /\ kernel' = [kernel EXCEPT ![s] = {"connect"}]
    /\ m_OutstandingIoCount' = [m_OutstandingIoCount EXCEPT ![s] = 1]
    /\ UNCHANGED <<requested, fired, pc, failure>>

-----------------------------------------------------------------------------
(* Completion handlers.                                                    *)

Freed == failure' = "freed_session" /\ UNCHANGED <<pc, requested>>

(* OnIOCompleted of the connect: ignored after a disconnect request;       *)
(* RequestDisconnect on failure, of UpdateConnectContext too; OnConnected. *)
ConnectDone(s) ==
    /\ "connect" \in kernel[s]
    /\ kernel' = [kernel EXCEPT ![s] = @ \ {"connect"}]
    /\ IF ~Held(s) THEN Freed
       ELSE /\ UNCHANGED failure
            /\ \/ s \notin requested /\ Goto(<<s, "c">>, "connected") /\ UNCHANGED requested
               \/ /\ s \in requested \/ Faults
                  /\ requested' = requested \cup {s}
                  /\ Goto(<<s, "c">>, "guard")
    /\ UNCHANGED <<connVars, appHolds, m_OutstandingIoCount, fired>>

(* StartReceiveLoop of OnConnected, RequestReceived after a receive. *)
PostRecv(t) ==
    LET s == t[1] IN
    /\ pc[t] \in {"connected", "rearm"}
    /\ \/ /\ s \notin requested
          /\ kernel' = [kernel EXCEPT ![s] = @ \cup {"recv"}]
          /\ m_OutstandingIoCount' = [m_OutstandingIoCount EXCEPT ![s] = @ + 1]
          /\ UNCHANGED requested
       \/ /\ s \in requested \/ Faults
          /\ requested' = requested \cup {s}
          /\ UNCHANGED ioVars
    /\ Goto(t, IF pc[t] = "connected" THEN "activate" ELSE "guard")
    /\ UNCHANGED <<connVars, appHolds, fired, failure>>

(* NotifyActivationObserver: ReleaseSessionAfterActivation. *)
Activate(t) ==
    /\ pc[t] = "activate"
    /\ m_pSession' = m_pSession \ {t[1]}
    /\ m_pLifecycleHold' = m_pLifecycleHold \ {t[1]}
    /\ Goto(t, "app")
    /\ UNCHANGED <<appHolds, ioVars, requested, fired, failure>>

(* A receive fails or ends the connection: RequestDisconnect. *)
RecvLost(s) ==
    /\ "recv" \in kernel[s] /\ pc[<<s, "r">>] = "idle"
    /\ s \in requested \/ Faults
    /\ kernel' = [kernel EXCEPT ![s] = @ \ {"recv"}]
    /\ IF ~Held(s) THEN Freed
       ELSE /\ requested' = requested \cup {s}
            /\ Goto(<<s, "r">>, "guard")
            /\ UNCHANGED failure
    /\ UNCHANGED <<connVars, appHolds, m_OutstandingIoCount, fired>>

(* A receive brings a frame (there is one to bring). *)
RecvFrame(s) ==
    /\ "recv" \in kernel[s] /\ pc[<<s, "r">>] = "idle" /\ s \notin requested
    /\ kernel' = [kernel EXCEPT ![s] = @ \ {"recv"}]
    /\ IF ~Held(s) THEN Freed ELSE Goto(<<s, "r">>, "packet") /\ UNCHANGED <<failure, requested>>
    /\ UNCHANGED <<connVars, appHolds, m_OutstandingIoCount, fired>>

GuardAnyCount(t) ==
    LET s == t[1] IN
    /\ pc[t] = "guard"
    /\ m_OutstandingIoCount' = [m_OutstandingIoCount EXCEPT ![s] = @ - 1]
    /\ Goto(t, IF s \in requested THEN "fire" ELSE "idle")
    /\ UNCHANGED <<connVars, appHolds, kernel, requested, fired, failure>>

(* ~IoCompletionGuard. *)
Guard(t) ==
    LET s == t[1] IN
    /\ pc[t] = "guard"
    /\ m_OutstandingIoCount' = [m_OutstandingIoCount EXCEPT ![s] = @ - 1]
    /\ Goto(t, IF m_OutstandingIoCount[s] = 1 /\ s \in requested THEN "fire" ELSE "idle")
    /\ UNCHANGED <<connVars, appHolds, kernel, requested, fired, failure>>

(* TryFireOnDisconnected, OnDisconnected up to the observer's              *)
(* ReleaseSessionAfterDisconnect.                                          *)
Fire(t) ==
    LET s == t[1] IN
    /\ pc[t] = "fire"
    /\ fired' = fired \cup {s}
    /\ m_pSession' = m_pSession \ {s} /\ m_pLifecycleHold' = m_pLifecycleHold \ {s}
    /\ Goto(t, IF s \in fired THEN "idle" ELSE "handler")
    /\ UNCHANGED <<appHolds, ioVars, requested, failure>>

Handler(t) == PostRecv(t) \/ Activate(t) \/ Guard(t) \/ Fire(t)
Completion(s) == ConnectDone(s) \/ RecvLost(s)
=============================================================================
