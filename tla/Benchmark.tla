----------------------------- MODULE Benchmark -----------------------------
(***************************************************************************)
(* The programs that use OutboundSession: FastPortBenchmark, whose main    *)
(* runs LatencyBenchmarkRunner (one session asked in turn, "seq", or       *)
(* several at once, "multi"; "rio" is seq with RIO sessions), and          *)
(* FastPortClient ("client"), which keeps its session in the container.    *)
(*                                                                         *)
(* The runner's thread, the handlers on the I/O threads and main           *)
(* interleave.  The handlers capture locals of the runner's function by    *)
(* reference: a handler that runs after the function returned is a         *)
(* failure.  A request is a pair <<measured, ticket>>; the server          *)
(* (external) answers each connection in order or drops it.  Timed waits   *)
(* may time out whenever their predicate is false.                         *)
(***************************************************************************)
EXTENDS OutboundSession

CONSTANTS
    Modes,              \* subset of {"seq", "multi", "rio", "client"}
    First,              \* the one session of seq and of client
    warmupIterations,
    iterations

ASSUME BenchmarkAssumption ==
    /\ Modes \subseteq {"seq", "multi", "rio", "client"}
    /\ First \in Sessions
    /\ warmupIterations \in Nat /\ iterations \in Nat \ {0}

VARIABLES
    mode,
    m_State,
    setting,            \* a SetState that has passed its check: runner, sessions
    m_StopRequested,
    run, todo,          \* the runner's next statement; sessions its loop has left
    how,                \* how the runner's function ended
    connected,          \* sessions whose connect handler has run
    abortRequested, inactive,
    next, done,         \* tickets handed out, responses counted; by measured
    runningMeasured,
    sent,               \* per session: the request its SendTimeNs belongs to
    asked, reply,       \* per session: requests on the wire; the response handled
    signaled,           \* BenchmarkWaiter: the response that set it
    samples,            \* what AddSample got: request timed, response that ended it
    replaced, drained,  \* sessions whose disconnect handler is the one of the drain;
                        \* for which it has run
    late,               \* a wait for a response has timed out
    container,          \* sessions of FastPortClient's SessionContainer
    finished, completed, results, main

runVars  == <<run, todo, how>>
askVars  == <<next, done, sent, asked, reply, samples>>
mainVars == <<m_StopRequested, main, mode>>
flagVars == <<connected, abortRequested, inactive, runningMeasured, signaled,
              replaced, drained, late, container, results>>
stVars   == <<m_State, setting, finished, completed>>
vars     == <<outVars, mainVars, stVars, runVars, askVars, flagVars>>

Final  == {"Completed", "Failed"}
Multi  == mode = "multi"
Used   == IF Multi THEN Sessions ELSE {First}
Target(m) == IF m THEN iterations
             ELSE IF Multi THEN warmupIterations * Cardinality(Sessions)
             ELSE warmupIterations

Init ==
    /\ OutInit
    /\ mode \in Modes
    /\ m_State = "Idle" /\ setting = [t \in Sessions \cup {"run"} |-> "none"]
    /\ m_StopRequested = FALSE
    /\ run = "off" /\ todo = {} /\ how = "none"
    /\ connected = {} /\ abortRequested = FALSE /\ inactive = {}
    /\ next = [m \in BOOLEAN |-> 0] /\ done = [m \in BOOLEAN |-> 0]
    /\ runningMeasured = FALSE
    /\ sent = [s \in Sessions |-> <<>>] /\ reply = [s \in Sessions |-> <<>>]
    /\ asked = [s \in Sessions |-> <<>>]
    /\ signaled = <<>> /\ samples = <<>> /\ replaced = {} /\ drained = {} /\ late = FALSE
    /\ container = {}
    /\ finished = FALSE /\ completed = FALSE /\ results = 0 /\ main = "start"

Alive  == failure = "none" /\ main # "returned"

(* The runner's locals exist from its start to its return. *)
Locals == run \notin {"off", "returned"}

-----------------------------------------------------------------------------
(* SetState checks the previous state, then stores; the callback of main   *)
(* notes the end.                                                          *)

SetState(t, st) ==
    /\ setting' = [setting EXCEPT ![t] = IF m_State \in Final \cup {st} THEN "none" ELSE st]
    /\ UNCHANGED <<m_State, finished, completed>>

StoreState(t) ==
    /\ Alive /\ setting[t] # "none"
    /\ m_State' = setting[t]
    /\ setting' = [setting EXCEPT ![t] = "none"]
    /\ finished' = (finished \/ setting[t] \in Final)
    /\ completed' = (completed \/ setting[t] = "Completed")
    /\ UNCHANGED <<outVars, mainVars, runVars, askVars, flagVars>>

(* The runner is at statement l. *)
At(l) == Alive /\ run = l /\ setting["run"] = "none"

Then(l, todo1) == run' = l /\ todo' = todo1 /\ UNCHANGED <<how, mainVars>>

(* The runner's function returns: its locals and what they own go.  In     *)
(* multi the handlers of a session hold the context that holds the session. *)
Return(h) ==
    /\ run' = "returned" /\ todo' = {} /\ how' = h
    /\ user' = IF Multi THEN user ELSE {}
    /\ connectors' = {}
    /\ UNCHANGED <<mainVars, connVars, ioVars, requested, fired, pc, failure>>

-----------------------------------------------------------------------------
(* Connecting.                                                             *)

Begin ==
    /\ At("begin")
    /\ IF mode = "client" THEN UNCHANGED stVars ELSE SetState("run", "Connecting")
    /\ Then("connect", Used)
    /\ UNCHANGED <<outVars, askVars, flagVars>>

(* What the disconnect handler of a session does on thread t: in multi it  *)
(* first aborts the run, unless it is stopped anyway.                      *)
Counts == m_State # "Completed" /\ ~(Multi /\ m_StopRequested)

OnLostQuiet(t, s) ==
    /\ inactive' = inactive \cup {s}
    /\ abortRequested' = (abortRequested \/ (Multi /\ Counts))
    /\ UNCHANGED stVars

OnLost(t, s) ==
    /\ inactive' = inactive \cup {s}
    /\ abortRequested' = (abortRequested \/ (Multi /\ Counts))
    /\ IF Counts THEN SetState(t, "Failed") ELSE UNCHANGED stVars

(* IOSocketConnector::Create for the next session. multi throws when it    *)
(* returns null, the others do not look at the result.  A RIO session is   *)
(* no OutboundSession, which Connect requires.                             *)
Connect ==
    /\ At("connect") /\ todo # {}
    /\ \E s \in todo :
          \/ /\ mode # "rio" /\ ConnectPosted(s)
             /\ user' = IF mode = "client" THEN user ELSE user \cup {s}
             /\ connectors' = IF mode \in {"multi", "client"} THEN connectors \cup {s}
                              ELSE connectors
             /\ Then("connect", todo \ {s})
             /\ UNCHANGED <<stVars, inactive, abortRequested>>
          \/ /\ Faults /\ mode # "rio" /\ ConnectRefused(s)
             /\ user' = IF mode = "client" THEN user ELSE user \cup {s}
             /\ IF mode = "client" THEN UNCHANGED <<stVars, inactive, abortRequested>>
                ELSE OnLost("run", s)
             /\ Then(IF Multi THEN "throw" ELSE "connect", todo \ {s})
          \/ /\ Faults \/ mode = "rio"
             /\ ConnectNull(s)
             /\ Then(IF Multi THEN "throw" ELSE "connect", todo \ {s})
             /\ UNCHANGED <<stVars, inactive, abortRequested>>
    /\ UNCHANGED <<askVars, connected, runningMeasured, signaled, replaced, drained,
                   late, container, results>>

Throw ==
    /\ At("throw")
    /\ SetState("run", "Failed") /\ Return("early")
    /\ UNCHANGED <<askVars, flagVars>>

(* The wait for the connections; FastPortClient waits for its workers,     *)
(* which never end.                                                        *)
WaitConnected ==
    /\ At("connect") /\ todo = {} /\ mode # "client"
    /\ LET all == Used \subseteq connected IN
       \/ /\ all \/ abortRequested
          /\ IF abortRequested THEN Return("early")
             ELSE Then("warmup", Used) /\ UNCHANGED outVars
          /\ UNCHANGED stVars
       \/ ~all /\ ~abortRequested /\ SetState("run", "Failed") /\ Return("early")
    /\ UNCHANGED <<askVars, flagVars>>

(* NotifyConnected: the connect handler of the benchmark touches locals of *)
(* the runner; FastPortClient adds the session and says hello.             *)
OnConnected(t) ==
    LET s == t[1] IN
    /\ Alive /\ pc[t] = "app"
    /\ Goto(t, "guard")
    /\ failure' = IF mode = "client" \/ Locals THEN failure ELSE "dangling_handler"
    /\ IF mode = "client"
       THEN /\ container' = container \cup {s} /\ user' = user \cup {s}
            /\ asked' = [asked EXCEPT ![s] = IF s \in requested THEN @
                                             ELSE Append(@, <<FALSE, 0>>)]
            /\ UNCHANGED connected
       ELSE connected' = connected \cup {s} /\ UNCHANGED <<container, user, asked>>
    /\ UNCHANGED <<connVars, connectors, ioVars, requested, fired, mainVars, stVars,
                   runVars, next, done, sent, reply, samples, abortRequested, inactive,
                   runningMeasured, signaled, replaced, drained, late, results>>

(* OnDisconnected of the derived session: the runner's handler or the one  *)
(* of DisconnectAndWaitDrain; FastPortClient removes the session.          *)
OnDisconnected(t) ==
    LET s == t[1] IN
    /\ Alive /\ pc[t] = "handler"
    /\ Goto(t, "idle")
    /\ IF mode = "client"
       THEN /\ container' = container \ {s} /\ user' = user \ {s}
            /\ UNCHANGED <<stVars, inactive, abortRequested, drained, failure>>
       ELSE /\ IF s \in replaced
               THEN /\ drained' = drained \cup {s}
                    /\ UNCHANGED <<stVars, inactive, abortRequested>>
               ELSE OnLost(s, s) /\ UNCHANGED drained
            /\ failure' = IF (s \in replaced /\ ~(run = "await" /\ s \in todo))
                               \/ (s \notin replaced /\ Multi /\ Counts /\ ~Locals)
                          THEN "dangling_handler" ELSE failure
            /\ UNCHANGED <<container, user>>
    /\ UNCHANGED <<connVars, connectors, ioVars, requested, fired, mainVars, runVars,
                   askVars, connected, runningMeasured, signaled, replaced, late, results>>

-----------------------------------------------------------------------------
(* Requests and responses.                                                 *)

(* SendMessage, which drops the message after a disconnect request. *)
Send(s, q) ==
    /\ sent' = [sent EXCEPT ![s] = q]
    /\ asked' = [asked EXCEPT ![s] = IF s \in requested THEN @ ELSE Append(@, q)]

(* sendNext: the next ticket, if there is one left. *)
SendNext(s, m) ==
    /\ IF s \in inactive \/ m_StopRequested THEN UNCHANGED <<next, sent, asked>>
       ELSE /\ next' = [next EXCEPT ![m] = @ + 1]
            /\ IF next[m] < Target(m) THEN Send(s, <<m, next[m]>>) ELSE UNCHANGED <<sent, asked>>
    /\ UNCHANGED <<done, reply, samples>>

HandlerOnly == UNCHANGED <<mainVars, stVars, runVars, connected, abortRequested, inactive,
                           runningMeasured, replaced, drained, late, container, results>>

Response(s) ==
    /\ Alive /\ asked[s] # <<>> /\ RecvFrame(s)
    /\ reply' = [reply EXCEPT ![s] = Head(asked[s])]
    /\ asked' = [asked EXCEPT ![s] = Tail(@)]
    /\ HandlerOnly /\ UNCHANGED <<next, done, sent, samples, signaled>>

(* A step of the packet handler on thread t, which needs the locals. *)
HandlerStep(t, l) ==
    /\ Goto(t, l)
    /\ failure' = IF Locals THEN failure ELSE "dangling_handler"
    /\ HandlerOnly
    /\ UNCHANGED <<connVars, appHolds, ioVars, requested, fired>>

(* multi: count a response of the warm-up, or take a sample with the       *)
(* session's SendTimeNs.                                                   *)
OnPacketReceived(t) ==
    LET s == t[1] IN
    /\ Alive /\ pc[t] = "packet" /\ Multi
    /\ IF runningMeasured
       THEN /\ samples' = Append(samples, <<sent[s], reply[s]>>)
            /\ HandlerStep(t, "sampled")
            /\ UNCHANGED done
       ELSE /\ done' = [done EXCEPT ![FALSE] = @ + 1]
            /\ HandlerStep(t, "warm")
            /\ UNCHANGED samples
    /\ UNCHANGED <<next, sent, asked, reply, signaled>>

CountSample(t) ==
    /\ Alive /\ pc[t] = "sampled"
    /\ done' = [done EXCEPT ![TRUE] = @ + 1]
    /\ HandlerStep(t, "counted")
    /\ UNCHANGED <<next, sent, asked, reply, samples, signaled>>

AskAgain(t) ==
    /\ Alive /\ pc[t] \in {"warm", "counted"}
    /\ SendNext(t[1], pc[t] = "counted")
    /\ HandlerStep(t, "rearm")
    /\ UNCHANGED signaled

(* seq: responseWaiter.Signal(), whatever response it is. *)
Signal(t) ==
    /\ Alive /\ pc[t] = "packet" /\ mode = "seq"
    /\ signaled' = IF signaled = <<>> THEN reply[t[1]] ELSE signaled
    /\ HandlerStep(t, "rearm")
    /\ UNCHANGED askVars

(* FastPortClient answers every packet. *)
Echo(t) ==
    /\ Alive /\ pc[t] = "packet" /\ mode = "client"
    /\ Send(t[1], reply[t[1]])
    /\ Goto(t, "rearm")
    /\ HandlerOnly
    /\ UNCHANGED <<connVars, appHolds, ioVars, requested, fired, failure, next, done,
                   reply, samples, signaled>>

-----------------------------------------------------------------------------
(* The runner after the connections.                                       *)

RunnerOnly == UNCHANGED <<outVars, connected, abortRequested, inactive, container>>

Warmup ==
    /\ At("warmup")
    /\ IF Target(FALSE) > 0 THEN SetState("run", "Warmup") /\ Then("ask", Used)
       ELSE Then("running", {}) /\ UNCHANGED stVars
    /\ RunnerOnly /\ UNCHANGED <<askVars, runningMeasured, signaled, replaced, drained,
                                 late, results>>

Running ==
    /\ At("running")
    /\ SetState("run", "Running")
    /\ Then("measure", {})
    /\ RunnerOnly /\ UNCHANGED <<askVars, runningMeasured, signaled, replaced, drained,
                                 late, results>>

Measure ==
    /\ At("measure")
    /\ runningMeasured' = TRUE
    /\ Then("ask", Used)
    /\ RunnerOnly /\ UNCHANGED <<stVars, askVars, signaled, replaced, drained, late, results>>

Ask ==
    /\ At("ask") /\ Multi
    /\ \E s \in todo : SendNext(s, runningMeasured) /\ Then("ask", todo \ {s})
    /\ RunnerOnly /\ UNCHANGED <<stVars, runningMeasured, signaled, replaced, drained,
                                 late, results>>

AllAsked(m) == next[m] >= Target(m)

AllDone(m) == done[m] >= Target(m)

(* The wait on doneCv: over, given up, or timed out. *)
WaitDone ==
    /\ At("ask") /\ Multi /\ todo = {}
    /\ LET good == AllDone(runningMeasured) /\ ~m_StopRequested /\ ~abortRequested IN
       \/ /\ good
          /\ Then(IF runningMeasured THEN "results" ELSE "running", {})
          /\ UNCHANGED <<stVars, outVars>>
       \/ ~good /\ SetState("run", "Failed") /\ Return("early")
    /\ UNCHANGED <<askVars, flagVars>>

(* seq: the loop over the iterations, Reset, SendMessage ... *)
AskOne ==
    /\ At("ask") /\ mode = "seq"
    /\ IF AllAsked(runningMeasured) \/ m_StopRequested
       THEN /\ Then(IF runningMeasured THEN "results" ELSE "running", {})
            /\ UNCHANGED <<next, sent, asked, signaled>>
       ELSE /\ next' = [next EXCEPT ![runningMeasured] = @ + 1]
            /\ Send(First, <<runningMeasured, next[runningMeasured]>>)
            /\ signaled' = <<>>
            /\ Then("wait", {})
    /\ RunnerOnly /\ UNCHANGED <<stVars, done, reply, samples, runningMeasured, replaced,
                                 drained, late, results>>

(* ... and Wait: a response, or the time-out and the next iteration. *)
WaitOne ==
    /\ At("wait")
    /\ samples' = IF signaled # <<>> /\ runningMeasured
                  THEN Append(samples, <<sent[First], signaled>>) ELSE samples
    /\ late' = (late \/ signaled = <<>>)
    /\ Then("ask", {})
    /\ RunnerOnly /\ UNCHANGED <<stVars, next, done, sent, asked, reply, runningMeasured,
                                 signaled, replaced, drained, results>>

(* m_Results, SetState(Completed), onCompleted. *)
Results ==
    /\ At("results")
    /\ SetState("run", "Completed")
    /\ Then("completed", {})
    /\ RunnerOnly /\ UNCHANGED <<askVars, runningMeasured, signaled, replaced, drained,
                                 late, results>>

Completed ==
    /\ At("completed")
    /\ results' = results + 1
    /\ Then("drain", Used)
    /\ RunnerOnly /\ UNCHANGED <<stVars, askVars, runningMeasured, signaled, replaced,
                                 drained, late>>

(* DisconnectAndWaitDrain: the new handler (a race with a thread that is   *)
(* about to call the old one), RequestDisconnect, and if nothing is        *)
(* pending any more the runner itself calls OnDisconnected.                *)
Drain ==
    /\ At("drain")
    /\ \E s \in todo :
          /\ replaced' = replaced \cup {s}
          /\ requested' = requested \cup {s}
          /\ LET fires == m_OutstandingIoCount[s] = 0 /\ s \notin fired IN
             /\ fired' = IF fires THEN fired \cup {s} ELSE fired
             /\ drained' = IF fires THEN drained \cup {s} ELSE drained
          /\ failure' = IF \E k \in {"c", "r"} : pc[<<s, k>>] = "handler"
                        THEN "handler_race" ELSE failure
    /\ Then("await", todo)
    /\ UNCHANGED <<connVars, appHolds, ioVars, pc, stVars, askVars, connected,
                   abortRequested, inactive, runningMeasured, signaled, late,
                   container, results>>

(* Its wait: drained, or 5 seconds. *)
AwaitDrain ==
    /\ At("await")
    /\ Then("drain", todo \ replaced)
    /\ RunnerOnly /\ UNCHANGED <<stVars, askVars, runningMeasured, signaled, replaced,
                                 drained, late, results>>

Drained ==
    /\ At("drain") /\ todo = {}
    /\ Return(IF Used \subseteq drained THEN "clean" ELSE "drain_timeout")
    /\ UNCHANGED <<stVars, askVars, flagVars>>

Runner ==
    \/ Begin \/ Connect \/ Throw \/ WaitConnected \/ Warmup \/ Running \/ Measure
    \/ Ask \/ WaitDone \/ AskOne \/ WaitOne \/ Results \/ Completed \/ Drain
    \/ AwaitDrain \/ Drained

-----------------------------------------------------------------------------
(* main: start the runner, wait for the end, Stop, return.                 *)

Start ==
    /\ main = "start"
    /\ main' = "wait" /\ run' = "begin"
    /\ UNCHANGED <<outVars, mode, m_StopRequested, stVars, todo, how, askVars, flagVars>>

Stop ==
    /\ Alive /\ main = "wait" /\ finished
    /\ m_StopRequested' = TRUE
    /\ main' = "join"
    /\ UNCHANGED <<outVars, mode, stVars, runVars, askVars, flagVars>>

ExitUnjoined ==
    /\ Alive /\ main = "join"
    /\ main' = "returned" /\ m_State' = "Idle"
    /\ UNCHANGED <<outVars, mode, m_StopRequested, setting, finished, completed, runVars,
                   askVars, flagVars>>

(* The join, SetState(Idle), and the destructor, which stops the workers. *)
Exit ==
    /\ Alive /\ main = "join" /\ run = "returned" /\ setting["run"] = "none"
    /\ main' = "returned" /\ m_State' = "Idle"
    /\ UNCHANGED <<outVars, mode, m_StopRequested, setting, finished, completed, runVars,
                   askVars, flagVars>>

-----------------------------------------------------------------------------
(* The I/O threads.                                                        *)
AppUnchanged == UNCHANGED <<mainVars, stVars, runVars, askVars, flagVars>>

Io(t) ==
    /\ Alive
    /\ \/ Handler(t) /\ AppUnchanged
       \/ OnConnected(t) \/ OnDisconnected(t) \/ OnPacketReceived(t)
       \/ CountSample(t) \/ AskAgain(t) \/ Signal(t) \/ Echo(t)

Network(s) == Alive /\ Completion(s) /\ AppUnchanged

Next ==
    \/ Start \/ Stop \/ Exit \/ Runner
    \/ \E t \in Sessions \cup {"run"} : StoreState(t)
    \/ \E t \in Threads : Io(t)
    \/ \E s \in Sessions : Network(s) \/ Response(s)

(* Threads run and timed waits end; the network owes nothing. *)
Fairness ==
    /\ WF_vars(Start) /\ WF_vars(Stop) /\ WF_vars(Exit) /\ WF_vars(Runner)
    /\ \A t \in Sessions \cup {"run"} : WF_vars(StoreState(t))
    /\ \A t \in Threads : WF_vars(Io(t))

Spec == Init /\ [][Next]_vars /\ Fairness

-----------------------------------------------------------------------------
Requests == BOOLEAN \X (0..iterations + warmupIterations * Cardinality(Sessions))

TypeOK ==
    /\ {m_State} \cup {setting[t] : t \in Sessions \cup {"run"}} \subseteq
          {"none", "Idle", "Connecting", "Warmup", "Running"} \cup Final
    /\ \A s \in Sessions : m_OutstandingIoCount[s] \in 0..3
    /\ \A m \in BOOLEAN : done[m] \in 0..Target(m)
    /\ \A s \in Sessions : sent[s] \in Requests \cup {<<>>} /\ reply[s] \in Requests \cup {<<>>}
    /\ results \in 0..1

(* The kernel has a pending operation of a session only while somebody     *)
(* holds the session: the connector with m_pLifecycleHold until the        *)
(* connect has completed, even when the runner gave up waiting; then the   *)
(* application until OnDisconnected.  The exception is the sequential      *)
(* runner that gave up, on connecting or on draining.                      *)
PendingHeld ==
    \A s \in Sessions : kernel[s] # {} =>
        \/ Held(s)
        \/ mode = "seq" /\ kernel[s] = {"recv"} /\ how \in {"early", "drain_timeout"}

(* A sample times a request against its own response, unless a response    *)
(* came after its time-out: no response of the warm-up and none to another *)
(* request of the session ends a measurement.                              *)
SampleOwn == ~late => \A i \in DOMAIN samples : samples[i][1] = samples[i][2]

(* Results are those of the whole run, and exit code 0 comes with them:    *)
(* when those of several sessions are reported, each ticket was sampled    *)
(* once, by whichever session; and main, which sees Completed before the   *)
(* statistics are handed over, does not return 0 without them.  The        *)
(* converse is not claimed: when a connection is lost after the last       *)
(* response, Failed comes first, SetState(Completed) returns early, the    *)
(* results are handed over all the same and main returns 1.                *)
AllMeasured ==
    /\ Multi /\ results > 0 =>
          /\ Len(samples) = iterations
          /\ \A m \in 0..iterations - 1 : \E i \in DOMAIN samples : samples[i][2] = <<TRUE, m>>
    /\ main = "returned" /\ completed => results = 1

(* A disconnect does not overtake the connect: FastPortClient's container  *)
(* has no session whose OnDisconnected is over, although the first receive *)
(* is posted, and may fail, before the session is added.                   *)
NoZombie ==
    \A s \in container : s \in fired => \E k \in {"c", "r"} : pc[<<s, k>>] # "idle"

(* The benchmark ends: whatever connection fails, no end of the runner     *)
(* leaves main waiting for a final state.                                  *)
Ends == mode # "client" => <>(main = "returned" \/ failure # "none")
=============================================================================
