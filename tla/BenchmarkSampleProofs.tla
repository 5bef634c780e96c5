----------------------- MODULE BenchmarkSampleProofs -----------------------
(***************************************************************************)
(* Proofs about the measurement of Benchmark, for every number of          *)
(* sessions, iterations and warm-up iterations.                            *)
(*                                                                         *)
(* SampleOwn and AllMeasured rest on the tickets.  multi: a session has at *)
(* most one request open, with a ticket of the phase the runner is in;     *)
(* open and sampled tickets are all different; the warm-up ends only when  *)
(* its responses and open requests, together not more than the tickets,    *)
(* are all responses, so that no response of it reaches the measurement.   *)
(* Samples are then as many different tickets below iterations: reported   *)
(* when there are iterations of them, they are each ticket once.  seq: as  *)
(* long as no wait has timed out the one open request is the one the       *)
(* runner waits for.                                                       *)
(***************************************************************************)
EXTENDS BenchmarkProofs, SequenceTheorems

States == {"none", "Idle", "Connecting", "Warmup", "Running"} \cup Final

(* How the runner, its states and main go together: Completed is stored     *)
(* only between the measurement and onCompleted, and main returns only      *)
(* after the runner.                                                        *)
CtlInv ==
    /\ m_State \in States /\ setting \in [Sessions \cup {"run"} -> States]
    /\ finished \in BOOLEAN /\ completed \in BOOLEAN
    /\ results \in {0, 1}
    /\ \A t \in Sessions \cup {"run"} : setting[t] = "Completed" => t = "run" /\ run = "completed"
    /\ completed = TRUE => run = "completed" \/ results = 1
    /\ results = 1 => run \in {"drain", "await", "returned"}
    /\ main = "returned" => run = "returned"
    /\ main = "start" => run = "off"

Label(s) == pc[<<s, "r">>]

(* A request of the session is on the wire or its response is at the        *)
(* handler.                                                                 *)
Open(s)  == asked[s] # <<>> \/ Label(s) = "packet"
OpenSet  == {s \in Sessions : Open(s)}
Sampled  == {s \in Sessions : Label(s) = "sampled"}

(* The tickets and the counts of the measurement (M) and of the warm-up     *)
(* (W).                                                                     *)
Measuring  == runningMeasured = TRUE
TicketM(k) == <<TRUE, k>>
TicketW(k) == <<FALSE, k>>
nextM == next[TRUE]
nextW == next[FALSE]
doneM == done[TRUE]
doneW == done[FALSE]
goalW == Target(FALSE)

Pairs == (Requests \cup {<<>>}) \X (Requests \cup {<<>>})

AskType ==
    /\ next \in [BOOLEAN -> Nat] /\ done \in [BOOLEAN -> Nat]
    /\ sent \in [Sessions -> Requests \cup {<<>>}]
    /\ reply \in [Sessions -> Requests \cup {<<>>}]
    /\ asked \in [Sessions -> Seq(Requests \cup {<<>>})]
    /\ samples \in Seq(Pairs) /\ signaled \in Requests \cup {<<>>}
    /\ runningMeasured \in BOOLEAN /\ late \in BOOLEAN
    /\ run = "wait" => mode = "seq"
    /\ mode # "multi" => /\ doneM = 0 /\ doneW = 0
                         /\ \A s \in Sessions : Label(s) \notin {"sampled", "warm", "counted"}

(* The request of a session is a ticket of the phase the runner is in. *)
Ticketed(s) ==
    \E k \in Nat :
        \/ /\ Measuring /\ sent[s] = TicketM(k)
           /\ k < nextM /\ k < iterations
        \/ /\ ~Measuring /\ sent[s] = TicketW(k)
           /\ k < nextW /\ k < goalW

(* multi: a session has at most one request open, of the phase the runner   *)
(* is in.                                                                   *)
AskOf(s) ==
    /\ asked[s] = <<>> \/ asked[s] = <<sent[s]>>
    /\ asked[s] # <<>> => Label(s) \notin {"packet", "sampled", "counted"}
    /\ asked[s] # <<>> /\ Label(s) = "warm" => Measuring
    /\ Label(s) = "packet" => reply[s] = sent[s]
    /\ Open(s) => Ticketed(s)
    /\ Label(s) \in {"sampled", "counted"} => Measuring

(* The responses of the warm-up and the requests still open are not more    *)
(* than the tickets handed out.                                             *)
WarmCount ==
    /\ doneW <= nextW /\ doneW <= goalW
    /\ ~Measuring =>
         /\ doneW + Cardinality(OpenSet) <= nextW
         /\ doneW + Cardinality(OpenSet) <= goalW
         /\ samples = <<>> /\ doneM = 0

(* A sample is of a ticket and of its own response. *)
SampleAt(i) ==
    \E k \in Nat : samples[i] = <<TicketM(k), TicketM(k)>> /\ k < nextM /\ k < iterations

(* No ticket is sampled twice, or open and sampled. *)
Tickets ==
    /\ \A s, u \in Sessions : s # u /\ Open(s) /\ Open(u) => sent[s] # sent[u]
    /\ \A i \in 1..Len(samples) :
         /\ SampleAt(i)
         /\ \A s \in Sessions : Open(s) => samples[i][2] # sent[s]
         /\ \A j \in 1..Len(samples) : i # j => samples[i][2] # samples[j][2]
    /\ doneM + Cardinality(Sampled) <= Len(samples)

NoneOpen(s) == asked[s] = <<>> /\ Label(s) \notin {"packet", "sampled", "counted"}

(* multi: what the runner may rely on at its statements. *)
PhaseInv ==
    /\ run \in {"off", "begin", "connect", "throw", "warmup"} =>
         \A s \in Sessions : NoneOpen(s) /\ Label(s) # "warm"
    /\ run \in {"running", "measure"} => \A s \in Sessions : NoneOpen(s)
    /\ run = "ask" => \A s \in todo : NoneOpen(s) /\ (Label(s) = "warm" => Measuring)
    /\ run \in {"running", "measure"} \/ Measuring => doneW >= goalW
    /\ run \in {"results", "completed", "drain", "await"} \/ results = 1 => doneM >= iterations

MultiInv ==
    mode = "multi" => WarmCount /\ Tickets /\ PhaseInv /\ \A s \in Sessions : AskOf(s)

(* seq: as long as no wait has timed out, the one open request is the one   *)
(* the runner waits for.                                                    *)
SeqInv ==
    mode = "seq" /\ late = FALSE =>
        /\ run # "wait" => ~Open(First)
        /\ run = "wait" =>
             /\ asked[First] = <<>> \/ asked[First] = <<sent[First]>>
             /\ Label(First) = "packet" => asked[First] = <<>> /\ reply[First] = sent[First]
             /\ Open(First) => signaled = <<>>
             /\ signaled = <<>> \/ signaled = sent[First]
        /\ \A i \in 1..Len(samples) : samples[i][1] = samples[i][2]

(* In the other modes nothing is measured. *)
OtherInv == mode \notin {"seq", "multi"} => samples = <<>>

AskInv == AskType /\ MultiInv /\ SeqInv /\ OtherInv

USE DEF States, Final

(* Before main starts the runner no state is set.                           *)
LEMMA CtlInit == Init => CtlInv
<1> SUFFICES ASSUME Init PROVE CtlInv
  OBVIOUS
<1>1. setting = [t \in Sessions \cup {"run"} |-> "none"] /\ m_State = "Idle"
  BY DEF Init
<1>2. /\ setting \in [Sessions \cup {"run"} -> States] /\ m_State \in States
      /\ \A t \in Sessions \cup {"run"} : setting[t] # "Completed"
  BY <1>1
<1>3. finished = FALSE /\ completed = FALSE /\ results = 0 /\ run = "off" /\ main = "start"
  BY DEF Init
<1>4. finished \in BOOLEAN /\ completed \in BOOLEAN /\ completed # TRUE
  BY <1>3
<1>5. results \in {0, 1} /\ results # 1 /\ run = "off" /\ main = "start"
  BY <1>3
<1> QED
  BY <1>2, <1>4, <1>5, Zenon DEF CtlInv

(* SetState of a state other than Completed. *)
LEMMA SetStateKeeps ==
    ASSUME CtlInv, NEW t \in Sessions \cup {"run"}, NEW st \in States \ {"Completed"}, SetState(t, st)
    PROVE  /\ setting' \in [Sessions \cup {"run"} -> States]
           /\ \A u \in Sessions \cup {"run"} : setting'[u] = "Completed" => setting[u] = "Completed"
           /\ UNCHANGED <<m_State, finished, completed>>
BY DEF CtlInv, SetState

(* A step that stores no state and does not complete the run. *)
LEMMA CtlStep ==
    ASSUME CtlInv, setting' \in [Sessions \cup {"run"} -> States],
           \A u \in Sessions \cup {"run"} : setting'[u] = "Completed" => setting[u] = "Completed",
           UNCHANGED <<m_State, finished, completed, results>>,
           \/ UNCHANGED run
           \/ run \notin {"off", "completed", "drain", "await", "returned"} /\ run' # "off"
           \/ run \in {"drain", "await"} /\ run' \in {"drain", "await", "returned"},
           main' = main \/ (main' = "returned" /\ run' = "returned") \/ main' \in {"wait", "join"}
    PROVE  CtlInv'
<1>1. \A u \in Sessions \cup {"run"} : setting'[u] = "Completed" => u = "run" /\ run = "completed"
  BY DEF CtlInv
<1>2. run = "completed" => run' = "completed"
  OBVIOUS
<1>3. /\ completed = TRUE => run' = "completed" \/ results = 1
      /\ results = 1 => run' \in {"drain", "await", "returned"}
      /\ main' = "returned" => run' = "returned"
      /\ main' = "start" => run' = "off"
  BY DEF CtlInv
<1> QED
  BY <1>1, <1>2, <1>3 DEF CtlInv

(* OnLost, the disconnect handler, fails the run or leaves its state. *)
LEMMA OnLostKeeps ==
    ASSUME CtlInv, NEW t \in Sessions \cup {"run"}, NEW s, OnLost(t, s)
    PROVE  /\ setting' \in [Sessions \cup {"run"} -> States]
           /\ \A u \in Sessions \cup {"run"} : setting'[u] = "Completed" => setting[u] = "Completed"
           /\ UNCHANGED <<m_State, finished, completed>>
<1>1. CASE SetState(t, "Failed")
  BY <1>1, SetStateKeeps
<1>2. CASE UNCHANGED stVars
  BY <1>2 DEF stVars, CtlInv
<1> QED
  BY <1>1, <1>2 DEF OnLost

(* The settings a step leaves, or sets to something other than Completed. *)
Settles ==
    /\ setting' \in [Sessions \cup {"run"} -> States]
    /\ \A u \in Sessions \cup {"run"} : setting'[u] = "Completed" => setting[u] = "Completed"
    /\ UNCHANGED <<m_State, finished, completed>>

(* The ways a step settles: it leaves the states alone, the runner sets     *)
(* one, a disconnect handler fails the run.                                 *)
LEMMA SettledSame == ASSUME CtlInv, UNCHANGED stVars PROVE Settles
BY DEF stVars, CtlInv, Settles

LEMMA SettledRun ==
    ASSUME CtlInv, NEW st \in States \ {"Completed"}, SetState("run", st)
    PROVE  Settles
BY SetStateKeeps DEF Settles

LEMMA SettledLost ==
    ASSUME CtlInv, NEW t \in Sessions \cup {"run"}, NEW s, OnLost(t, s)
    PROVE  Settles
BY OnLostKeeps DEF Settles

(* The runner's steps but the two that complete the run. *)
LEMMA CtlRunner ==
    ASSUME CtlInv, Runner, ~Results, ~Completed
    PROVE  CtlInv'
<1>1. ASSUME Settles, UNCHANGED <<results, main>>,
             \/ run \notin {"off", "completed", "drain", "await", "returned"} /\ run' # "off"
             \/ run \in {"drain", "await"} /\ run' \in {"drain", "await", "returned"}
      PROVE  CtlInv'
  BY <1>1, CtlStep DEF Settles
<1> USE DEF flagVars, mainVars, At, Then
<1>2. CASE Begin
  <2>1. Settles
    BY <1>2, SettledSame, SettledRun DEF Begin
  <2> QED
    BY <1>1, <1>2, <2>1 DEF Begin
<1>3. CASE Connect
  <2>1. Settles
    BY <1>3, SettledSame, SettledLost DEF Connect
  <2>2. UNCHANGED <<results, main>> /\ run = "connect" /\ run' \in {"connect", "throw"}
    BY <1>3 DEF Connect
  <2> QED
    BY <1>1, <2>1, <2>2
<1>4. CASE Throw
  <2>1. Settles
    BY <1>4, SettledRun DEF Throw
  <2> QED
    BY <1>1, <1>4, <2>1 DEF Throw, Return
<1>5. CASE WaitConnected
  <2>1. Settles
    BY <1>5, SettledSame, SettledRun DEF WaitConnected
  <2>2. UNCHANGED <<results, main>> /\ run = "connect" /\ run' \in {"warmup", "returned"}
    BY <1>5 DEF WaitConnected, Return
  <2> QED
    BY <1>1, <2>1, <2>2
<1>6. CASE Warmup
  <2>1. Settles
    BY <1>6, SettledSame, SettledRun DEF Warmup
  <2>2. UNCHANGED <<results, main>> /\ run = "warmup" /\ run' \in {"ask", "running"}
    BY <1>6 DEF Warmup
  <2> QED
    BY <1>1, <2>1, <2>2
<1>7. CASE Running
  <2>1. Settles
    BY <1>7, SettledRun DEF Running
  <2> QED
    BY <1>1, <1>7, <2>1 DEF Running
<1>8. CASE WaitDone
  <2>1. Settles
    BY <1>8, SettledSame, SettledRun DEF WaitDone
  <2>2. UNCHANGED <<results, main>> /\ run = "ask" /\ run' \in {"results", "running", "returned"}
    BY <1>8 DEF WaitDone, Return
  <2> QED
    BY <1>1, <2>1, <2>2
<1>9. CASE Measure \/ Ask \/ AskOne \/ WaitOne
  <2>1. UNCHANGED stVars /\ UNCHANGED <<results, main>> /\ run \in {"measure", "ask", "wait"}
        /\ run' \in {"ask", "wait", "results", "running"}
    BY <1>9 DEF Measure, Ask, AskOne, WaitOne
  <2> QED
    BY <1>1, <2>1, SettledSame
<1>10. CASE Drain \/ AwaitDrain \/ Drained
  <2>1. UNCHANGED stVars /\ UNCHANGED <<results, main>> /\ run \in {"drain", "await"}
        /\ run' \in {"drain", "await", "returned"}
    BY <1>10 DEF Drain, AwaitDrain, Drained, Return
  <2> QED
    BY <1>1, <2>1, SettledSame
<1> QED
  BY <1>2, <1>3, <1>4, <1>5, <1>6, <1>7, <1>8, <1>9, <1>10 DEF Runner

(* The measurement is over, and onCompleted is called. *)
LEMMA CtlCompletes ==
    ASSUME CtlInv, Results \/ Completed
    PROVE  CtlInv'
<1> USE DEF mainVars, At, Then
<1>1. CASE Results
  <2>1. /\ run = "results" /\ run' = "completed" /\ UNCHANGED <<results, main, m_State, finished, completed>>
        /\ setting' = [setting EXCEPT !["run"] = "Completed"] \/ setting' = [setting EXCEPT !["run"] = "none"]
    BY <1>1 DEF Results, SetState
  <2>2. /\ setting' \in [Sessions \cup {"run"} -> States]
        /\ \A u \in Sessions \cup {"run"} : setting'[u] = "Completed" => u = "run"
    BY <2>1 DEF CtlInv
  <2>3. main # "start" /\ results = 0 /\ main # "returned"
    BY <2>1 DEF CtlInv
  <2> QED
    BY <2>1, <2>2, <2>3 DEF CtlInv
<1>2. CASE Completed
  <2>1. /\ run = "completed" /\ run' = "drain" /\ results' = results + 1 /\ setting["run"] = "none"
        /\ UNCHANGED <<main, m_State, finished, completed, setting>>
    BY <1>2 DEF Completed, stVars
  <2>2. results = 0 /\ main # "start" /\ main # "returned"
    BY <2>1 DEF CtlInv
  <2>3. \A u \in Sessions \cup {"run"} : setting[u] # "Completed"
    BY <2>1 DEF CtlInv
  <2> QED
    BY <2>1, <2>2, <2>3 DEF CtlInv
<1> QED
  BY <1>1, <1>2

(* A thread stores the state it had set. *)
LEMMA CtlStore ==
    ASSUME CtlInv, NEW t \in Sessions \cup {"run"}, StoreState(t)
    PROVE  CtlInv'
<1> USE DEF mainVars, runVars, flagVars
<1>1. /\ m_State' = setting[t] /\ setting' = [setting EXCEPT ![t] = "none"]
      /\ UNCHANGED <<main, run, results>>
  BY DEF StoreState
<1>2. /\ m_State' \in States /\ setting' \in [Sessions \cup {"run"} -> States]
      /\ \A u \in Sessions \cup {"run"} : setting'[u] = "Completed" => setting[u] = "Completed"
  BY <1>1 DEF CtlInv
<1>3. finished' \in BOOLEAN /\ completed' \in BOOLEAN
  BY DEF StoreState
<1>4. completed' = TRUE => completed = TRUE \/ setting[t] = "Completed"
  BY DEF StoreState, CtlInv
<1>5. completed' = TRUE => run = "completed" \/ results = 1
  BY <1>4 DEF CtlInv
<1> QED
  BY <1>1, <1>2, <1>3, <1>5 DEF CtlInv

(* main and the I/O threads. *)
LEMMA CtlRest ==
    ASSUME CtlInv,
           \/ Start \/ Stop \/ Exit \/ UNCHANGED vars
           \/ \E t \in Threads : Io(t)
           \/ \E s \in Sessions : Network(s) \/ Response(s)
    PROVE  CtlInv'
<1> USE DEF mainVars, runVars, flagVars
<1>1. CASE Start
  BY <1>1 DEF Start, stVars, CtlInv
<1>2. CASE Exit
  BY <1>2 DEF Exit, CtlInv
<1>3. ASSUME Settles, UNCHANGED <<results, run>>, main' = main \/ main' = "join" PROVE CtlInv'
  BY <1>3, CtlStep DEF Settles
<1>4. CASE Stop
  BY <1>3, <1>4, SettledSame DEF Stop
<1>5. CASE UNCHANGED vars
  BY <1>3, <1>5, SettledSame DEF vars
<1>6. CASE \E s \in Sessions : Network(s) \/ Response(s)
  BY <1>3, <1>6, SettledSame DEF Network, Response, AppUnchanged, HandlerOnly
<1>7. CASE \E t \in Threads : Io(t)
  <2>1. PICK t \in Threads : Io(t)
    BY <1>7
  <2>a. t[1] \in Sessions
    BY ThreadPair
  <2>2. CASE OnDisconnected(t)
    <3>1. Settles
      BY <2>2, <2>a, SettledSame, SettledLost DEF OnDisconnected
    <3> QED
      BY <1>3, <2>2, <3>1 DEF OnDisconnected
  <2>3. CASE Handler(t) /\ AppUnchanged
    BY <1>3, <2>3, SettledSame DEF AppUnchanged
  <2>4. CASE OnConnected(t)
    BY <1>3, <2>4, SettledSame DEF OnConnected
  <2>5. CASE OnPacketReceived(t) \/ CountSample(t) \/ AskAgain(t) \/ Signal(t) \/ Echo(t)
    <3>1. HandlerOnly
      BY <2>5 DEF OnPacketReceived, CountSample, AskAgain, Signal, Echo, HandlerStep
    <3> QED
      BY <1>3, <3>1, SettledSame DEF HandlerOnly
  <2> QED
    BY <2>1, <2>2, <2>3, <2>4, <2>5 DEF Io
<1> QED
  BY <1>1, <1>2, <1>4, <1>5, <1>6, <1>7

(* CtlInv is inductive.                                                     *)
LEMMA CtlNext ==
    ASSUME CtlInv, [Next]_vars
    PROVE  CtlInv'
BY CtlRunner, CtlCompletes, CtlStore, CtlRest DEF Next, Runner

(* The targets are numbers of tickets, and a ticket below one is a request. *)
LEMMA TargetFacts ==
    /\ Target(TRUE) = iterations /\ Target(FALSE) \in Nat /\ iterations \in Nat \ {0}
    /\ IsFiniteSet(Sessions)
<1>1. IsFiniteSet(Sessions) /\ Cardinality(Sessions) \in Nat
  BY OutboundAssumption, FS_CardinalityType
<1>2. warmupIterations * Cardinality(Sessions) \in Nat
  BY <1>1, BenchmarkAssumption
<1> QED
  BY <1>1, <1>2, BenchmarkAssumption DEF Target

(* The counters are numbers.                                                *)
LEMMA AskNat ==
    ASSUME AskType
    PROVE  /\ nextM \in Nat /\ nextW \in Nat /\ doneM \in Nat /\ doneW \in Nat
           /\ goalW \in Nat /\ iterations \in Nat \ {0}
<1>1. TRUE \in BOOLEAN /\ FALSE \in BOOLEAN
  OBVIOUS
<1>2. nextM \in Nat /\ nextW \in Nat /\ doneM \in Nat /\ doneW \in Nat
  BY <1>1, Zenon DEF AskType, nextM, nextW, doneM, doneW
<1> QED
  BY <1>2, TargetFacts DEF goalW

(* A ticket below the target is a request. *)
LEMMA TicketRequest ==
    ASSUME NEW k \in Nat
    PROVE  /\ k < iterations => TicketM(k) \in Requests
           /\ k < goalW => TicketW(k) \in Requests
           /\ TicketW(0) \in Requests
<1>1. IsFiniteSet(Sessions) /\ Cardinality(Sessions) \in Nat
  BY OutboundAssumption, FS_CardinalityType
<1>2. Cardinality(Sessions) # 0
  BY <1>1, FS_EmptySet, BenchmarkAssumption
<1> DEFINE c == Cardinality(Sessions)
           w == warmupIterations
           wc == w * c
<1>3. wc \in Nat /\ wc >= w /\ w \in Nat
  <2>1. c \in Nat \ {0} /\ w \in Nat
    BY <1>1, <1>2, BenchmarkAssumption
  <2> HIDE DEF c, w
  <2>2. c - 1 \in Nat
    BY <2>1
  <2>3. w * (c - 1) \in Nat /\ w * c = w * (c - 1) + w
    BY <2>1, <2>2
  <2> QED
    BY <2>1, <2>3
<1>4. goalW <= wc /\ goalW \in Nat
  BY <1>3 DEF goalW, Target
<1>5. Requests = BOOLEAN \X (0..iterations + wc) /\ iterations \in Nat
  BY BenchmarkAssumption DEF Requests
<1> HIDE DEF wc, w
<1>6. k < iterations \/ k < goalW => k \in 0..iterations + wc
  BY <1>3, <1>4, <1>5
<1>7. 0 \in 0..iterations + wc
  BY <1>3, <1>5
<1> DEFINE R == 0..iterations + wc
<1> HIDE DEF R
<1> QED
  BY <1>5, <1>6, <1>7 DEF R, TicketM, TicketW

(* Tickets do not depend on the state, and differ with their numbers. *)
LEMMA TicketFacts ==
    ASSUME NEW k, NEW j
    PROVE  /\ TicketM(k)' = TicketM(k) /\ TicketW(k)' = TicketW(k)
           /\ TicketM(k) = TicketM(j) => k = j
           /\ TicketW(k) = TicketW(j) => k = j
           /\ TicketM(k)[2] = k
BY DEF TicketM, TicketW

(* The target of the warm-up is fixed with the mode.                        *)
LEMMA GoalSame ==
    ASSUME mode' = mode
    PROVE  goalW' = goalW
BY DEF goalW, Target, Multi

USE DEF Label

Pk == {"packet", "sampled", "warm", "counted"}

(* The thread of a session stays where it is, or outside the packet         *)
(* handler, or leaves it.                                                   *)
Eased(s) ==
    \/ Label(s)' = Label(s)
    \/ Label(s) \notin Pk /\ Label(s)' \notin Pk
    \/ Label(s) \in {"warm", "counted"} /\ Label(s)' \notin Pk

(* A step that leaves the requests alone, but for tickets that nobody       *)
(* sends.                                                                   *)
EaseStep ==
    /\ UNCHANGED <<done, sent, asked, reply, samples, runningMeasured, late, mode>>
    /\ next' \in [BOOLEAN -> Nat] /\ nextM' >= nextM /\ nextW' >= nextW
    /\ \A s \in Sessions : Eased(s)

(* Such a step opens and closes no request.                                 *)
LEMMA EasedFacts ==
    ASSUME EaseStep, NEW s \in Sessions
    PROVE  /\ Open(s)' <=> Open(s)
           /\ Label(s)' = "packet" <=> Label(s) = "packet"
           /\ Label(s)' = "sampled" <=> Label(s) = "sampled"
           /\ Label(s)' = "counted" => Label(s) = "counted"
           /\ Label(s)' = "warm" => Label(s) = "warm"
           /\ NoneOpen(s) => NoneOpen(s)'
BY DEF EaseStep, Eased, Pk, Open, NoneOpen

(* It keeps what multi says of tickets and counts ...                       *)
LEMMA EasedMulti ==
    ASSUME AskType, EaseStep, WarmCount, Tickets, \A s \in Sessions : AskOf(s)
    PROVE  WarmCount' /\ Tickets' /\ \A s \in Sessions : AskOf(s)'
<1>0. /\ sent' = sent /\ asked' = asked /\ reply' = reply /\ samples' = samples
      /\ Measuring' <=> Measuring
  BY DEF EaseStep, Measuring
<1>1. /\ doneM' = doneM /\ doneW' = doneW /\ nextM' >= nextM /\ nextW' >= nextW
      /\ nextM' \in Nat /\ nextW' \in Nat /\ goalW' = goalW
  <2>1. doneM' = doneM /\ doneW' = doneW
    BY DEF EaseStep, doneM, doneW
  <2>2. nextM' \in Nat /\ nextW' \in Nat
    BY Zenon DEF EaseStep, nextM, nextW
  <2>3. goalW' = goalW
    BY GoalSame DEF EaseStep
  <2> QED
    BY <2>1, <2>2, <2>3 DEF EaseStep
<1>2. OpenSet' = OpenSet /\ Sampled' = Sampled
  BY EasedFacts DEF OpenSet, Sampled
<1>3. WarmCount'
  <2>1. IsFiniteSet(OpenSet) /\ Cardinality(OpenSet) \in Nat
    BY TargetFacts, FS_Subset, FS_CardinalityType DEF OpenSet
  <2> QED
    BY <1>0, <1>1, <1>2, <2>1, AskNat DEF WarmCount
<1>4. ASSUME NEW s \in Sessions PROVE AskOf(s)'
  <2>1. ASSUME Open(s) PROVE Ticketed(s)'
    <3>1. PICK k \in Nat :
            \/ Measuring /\ sent[s] = TicketM(k) /\ k < nextM /\ k < iterations
            \/ ~Measuring /\ sent[s] = TicketW(k) /\ k < nextW /\ k < goalW
      BY <2>1 DEF AskOf, Ticketed
    <3>2. (k < nextM => k < nextM') /\ (k < nextW => k < nextW')
      BY <1>1, AskNat
    <3>3. TicketM(k)' = TicketM(k) /\ TicketW(k)' = TicketW(k)
      BY TicketFacts
    <3> QED
      BY <1>0, <1>1, <3>1, <3>2, <3>3 DEF Ticketed
  <2>2. AskOf(s)
    OBVIOUS
  <2> QED
    BY <1>0, <2>1, <2>2, EasedFacts DEF AskOf
<1>5. Tickets'
  <2>1. ASSUME NEW i \in 1..Len(samples) PROVE SampleAt(i)'
    <3>1. PICK k \in Nat : samples[i] = <<TicketM(k), TicketM(k)>> /\ k < nextM /\ k < iterations
      BY DEF Tickets, SampleAt
    <3>2. k < nextM'
      BY <1>1, <3>1, AskNat
    <3> QED
      BY <1>0, <3>1, <3>2, TicketFacts DEF SampleAt
  <2>2. \A s \in Sessions : Open(s)' <=> Open(s)
    BY EasedFacts
  <2> QED
    BY <1>0, <1>1, <1>2, <2>1, <2>2 DEF Tickets
<1> QED
  BY <1>3, <1>4, <1>5

(* ... and, as long as the runner stays, what the runner relies on.         *)
LEMMA EasedPhase ==
    ASSUME PhaseInv, EaseStep, UNCHANGED <<run, results>>, todo' \subseteq todo, todo \subseteq Sessions
    PROVE  PhaseInv'
<1>1. goalW' = goalW /\ (Measuring' <=> Measuring) /\ doneM' = doneM /\ doneW' = doneW
  BY GoalSame DEF EaseStep, Measuring, doneM, doneW
<1> QED
  BY <1>1, EasedFacts DEF PhaseInv

(* A step that leaves the requests alone, with what the runner relies on    *)
(* after it.                                                                *)
LEMMA EasedInv ==
    ASSUME AskInv, EaseStep, mode = "multi" => PhaseInv', signaled' = signaled,
           run' = "wait" <=> run = "wait"
    PROVE  AskInv'
<1>0. AskType /\ mode' = mode
  BY DEF AskInv, EaseStep
<1>1. AskType'
  <2>1. \A s \in Sessions : Label(s) \notin {"sampled", "warm", "counted"}
                            => Label(s)' \notin {"sampled", "warm", "counted"}
    BY EasedFacts
  <2>2. UNCHANGED <<done, sent, asked, reply, samples, runningMeasured, late>> /\ next' \in [BOOLEAN -> Nat]
    BY DEF EaseStep
  <2>3. Requests' = Requests /\ Pairs' = Pairs
    BY DEF Requests, Pairs
  <2>4. doneM' = doneM /\ doneW' = doneW
    BY <2>2 DEF doneM, doneW
  <2> QED
    BY <1>0, <2>1, <2>2, <2>3, <2>4 DEF AskType
<1>2. MultiInv'
  BY <1>0, EasedMulti DEF AskInv, MultiInv
<1>3. SeqInv'
  <2>1. First \in Sessions
    BY BenchmarkAssumption
  <2>2. (Open(First)' <=> Open(First)) /\ (Label(First)' = "packet" <=> Label(First) = "packet")
    BY <2>1, EasedFacts
  <2>3. UNCHANGED <<sent, asked, reply, samples, late>>
    BY DEF EaseStep
  <2> QED
    BY <1>0, <2>2, <2>3 DEF AskInv, SeqInv
<1>4. OtherInv'
  BY <1>0 DEF AskInv, OtherInv, EaseStep
<1> QED
  BY <1>1, <1>2, <1>3, <1>4 DEF AskInv

(* A step that leaves the requests alone altogether is one.                 *)
LEMMA EaseSame ==
    ASSUME AskType, UNCHANGED <<askVars, runningMeasured, late, mode>>, \A s \in Sessions : Eased(s)
    PROVE  EaseStep
<1>1. UNCHANGED <<next, done, sent, asked, reply, samples, runningMeasured, late, mode>>
  BY DEF askVars
<1>2. nextM' = nextM /\ nextW' = nextW
  BY <1>1 DEF nextM, nextW
<1>3. nextM' >= nextM /\ nextW' >= nextW
  BY <1>2, AskNat
<1>4. next' \in [BOOLEAN -> Nat]
  BY <1>1 DEF AskType
<1> QED
  BY <1>1, <1>3, <1>4 DEF EaseStep

(* A thread moves outside the packet handler, or leaves it. *)
LEMMA EasedPc ==
    ASSUME CoreType, NEW t \in Threads, NEW l, pc' = [pc EXCEPT ![t] = l], l \notin Pk,
           pc[t] \notin Pk \/ pc[t] \in {"warm", "counted"}
    PROVE  \A s \in Sessions : Eased(s)
<1> SUFFICES ASSUME NEW s \in Sessions PROVE Eased(s)
  OBVIOUS
<1>1. CASE t = <<s, "r">>
  BY <1>1 DEF CoreType, Eased
<1>2. CASE t # <<s, "r">>
  BY <1>2 DEF CoreType, Eased
<1> QED
  BY <1>1, <1>2

(* A step that leaves the requests and the runner alone. *)
LEMMA QuietAsk ==
    ASSUME AskInv, CoreType, UNCHANGED <<askVars, runningMeasured, late, mode, signaled, run, todo, results>>,
           \A s \in Sessions : Eased(s)
    PROVE  AskInv'
<1>1. EaseStep
  BY EaseSame DEF AskInv
<1>2. todo \subseteq Sessions
  BY UsedSessions DEF CoreType
<1>3. mode = "multi" => PhaseInv'
  BY <1>1, <1>2, EasedPhase DEF AskInv, MultiInv
<1> QED
  BY <1>1, <1>3, EasedInv

Early == {"off", "begin", "connect", "throw", "warmup"}
Late  == {"results", "completed", "drain", "await"}

(* The runner moves on, with what its next statement relies on. *)
LEMMA PhaseMove ==
    ASSUME PhaseInv, EaseStep, results' = results \/ run = "completed",
           \/ run \in Early /\ run' \in Early
           \/ run \in Early /\ run' = "ask" /\ todo' \subseteq Sessions
           \/ run \in Early /\ run' = "running" /\ doneW >= goalW
           \/ run = "running" /\ run' = "measure"
           \/ run \in Late /\ run' \in Late
           \/ run' = "returned"
    PROVE  PhaseInv'
<1>1. goalW' = goalW /\ (Measuring' <=> Measuring) /\ doneM' = doneM /\ doneW' = doneW
  BY GoalSame DEF EaseStep, Measuring, doneM, doneW
<1>2. \A s \in Sessions : /\ NoneOpen(s) => NoneOpen(s)'
                          /\ Label(s)' = "warm" => Label(s) = "warm"
  BY EasedFacts
<1>3. run \in Early => \A s \in Sessions : NoneOpen(s) /\ Label(s) # "warm"
  BY DEF PhaseInv, Early
<1>4. run = "running" => \A s \in Sessions : NoneOpen(s)
  BY DEF PhaseInv
<1>5. run' \in {"running", "measure"} \/ Measuring => doneW >= goalW
  BY DEF PhaseInv, Early, Late
<1>6. run' \in Late \/ results' = 1 => doneM >= iterations
  BY DEF PhaseInv, Early, Late
<1>7. /\ run' \in Early => \A s \in Sessions : NoneOpen(s)' /\ Label(s)' # "warm"
      /\ run' \in {"running", "measure"} => \A s \in Sessions : NoneOpen(s)'
      /\ run' = "ask" => \A s \in todo' : NoneOpen(s)' /\ Label(s)' # "warm"
  BY <1>2, <1>3, <1>4 DEF Early, Late
<1> QED
  BY <1>1, <1>5, <1>6, <1>7 DEF PhaseInv, Early, Late

(* The runner's statements that send nothing. *)
LEMMA QuietRunner ==
    ASSUME AskInv,
           UNCHANGED <<askVars, runningMeasured, late, mode, signaled, pc>>,
           results' = results \/ run = "completed", run # "wait",
           \/ run \in Early /\ run' \in Early
           \/ run \in Early /\ run' = "ask" /\ todo' \subseteq Sessions
           \/ run \in Early /\ run' = "running" /\ goalW = 0
           \/ run = "running" /\ run' = "measure"
           \/ run \in Late /\ run' \in Late
           \/ run' = "returned"
    PROVE  AskInv'
<1>1. \A s \in Sessions : Eased(s)
  BY DEF Eased
<1>2. EaseStep
  BY <1>1, EaseSame DEF AskInv
<1>3. goalW = 0 => doneW >= goalW
  BY AskNat DEF AskInv
<1>4. mode = "multi" => PhaseInv'
  BY <1>2, <1>3, PhaseMove DEF AskInv, MultiInv
<1>5. run' # "wait"
  BY DEF Early, Late
<1> QED
  BY <1>2, <1>4, <1>5, EasedInv

(* The runner's statements outside the two loops of requests, one by one.   *)
LEMMA QuietRunnerSteps ==
    ASSUME AskInv, CoreType, main = "start" => run = "off",
           \/ Start \/ Begin \/ Connect \/ Throw \/ WaitConnected \/ Warmup \/ Running
           \/ Results \/ Completed \/ Drain \/ AwaitDrain \/ Drained
    PROVE  AskInv'
<1> USE DEF mainVars, flagVars, outVars, At, Then, RunnerOnly, Early, Late
<1>1. ASSUME UNCHANGED <<askVars, runningMeasured, late, mode, signaled, pc>>,
             results' = results \/ run = "completed", run # "wait",
             \/ run \in Early /\ run' \in Early
             \/ run \in Early /\ run' = "ask" /\ todo' \subseteq Sessions
             \/ run \in Early /\ run' = "running" /\ goalW = 0
             \/ run = "running" /\ run' = "measure"
             \/ run \in Late /\ run' \in Late
             \/ run' = "returned"
      PROVE  AskInv'
  BY <1>1, QuietRunner
<1>2. CASE Start \/ Begin
  <2>1. /\ UNCHANGED <<askVars, runningMeasured, late, mode, signaled, pc>>
        /\ results' = results /\ run \in {"off", "begin"} /\ run' \in {"begin", "connect"}
    BY <1>2 DEF Start, Begin
  <2> QED
    BY <1>1, <2>1
<1>3. CASE Connect
  <2>1. /\ UNCHANGED <<askVars, runningMeasured, late, mode, signaled, pc>>
        /\ results' = results /\ run = "connect" /\ run' \in {"connect", "throw"}
    BY <1>3 DEF Connect, ConnectPosted, ConnectRefused, ConnectNull
  <2> QED
    BY <1>1, <2>1
<1>4. CASE Throw \/ WaitConnected
  <2>1. /\ UNCHANGED <<askVars, runningMeasured, late, mode, signaled, pc>>
        /\ results' = results /\ run \in {"connect", "throw"} /\ run' \in {"warmup", "returned"}
    BY <1>4 DEF Throw, WaitConnected, Return
  <2> QED
    BY <1>1, <2>1
<1>5. CASE Warmup
  <2>1. /\ UNCHANGED <<askVars, runningMeasured, late, mode, signaled, pc>>
        /\ results' = results /\ run = "warmup"
    BY <1>5 DEF Warmup
  <2>2. \/ run' = "ask" /\ todo' = Used
        \/ run' = "running" /\ ~(goalW > 0)
    BY <1>5 DEF Warmup, goalW
  <2>3. ~(goalW > 0) => goalW = 0
    BY AskNat DEF AskInv
  <2> QED
    BY <1>1, <2>1, <2>2, <2>3, UsedSessions
<1>6. CASE Running
  <2>1. /\ UNCHANGED <<askVars, runningMeasured, late, mode, signaled, pc>>
        /\ results' = results /\ run = "running" /\ run' = "measure"
    BY <1>6 DEF Running
  <2> QED
    BY <1>1, <2>1
<1>7. CASE Results \/ Completed
  <2>1. /\ UNCHANGED <<askVars, runningMeasured, late, mode, signaled, pc>>
        /\ results' = results \/ run = "completed"
        /\ run \in {"results", "completed"} /\ run' \in {"completed", "drain"}
    BY <1>7 DEF Results, Completed
  <2> QED
    BY <1>1, <2>1
<1>8. CASE Drain \/ AwaitDrain \/ Drained
  <2>1. /\ UNCHANGED <<askVars, runningMeasured, late, mode, signaled, pc>>
        /\ results' = results
        /\ run \in {"drain", "await"} /\ run' \in {"drain", "await", "returned"}
    BY <1>8 DEF Drain, AwaitDrain, Drained, Return
  <2> QED
    BY <1>1, <2>1
<1> QED
  BY <1>2, <1>3, <1>4, <1>5, <1>6, <1>7, <1>8

(* The steps of main, of the network and of a handler outside OnConnected   *)
(* and OnPacketReceived.                                                    *)
LEMMA QuietRest ==
    ASSUME AskInv, CoreType,
           \/ Stop \/ Exit \/ UNCHANGED vars
           \/ \E t \in Sessions \cup {"run"} : StoreState(t)
           \/ \E s \in Sessions : Network(s)
           \/ \E t \in Threads : \/ Handler(t) /\ AppUnchanged
                                 \/ OnDisconnected(t)
    PROVE  AskInv'
<1> USE DEF mainVars, flagVars, outVars, runVars
<1>1. ASSUME UNCHANGED <<askVars, runningMeasured, late, mode, signaled, run, todo, results>>,
             \/ UNCHANGED pc
             \/ \E t \in Threads, l \in {"activate", "app", "guard", "idle", "fire", "handler", "connected"} :
                   pc[t] \notin Pk /\ pc' = [pc EXCEPT ![t] = l]
      PROVE  AskInv'
  <2>1. \A s \in Sessions : Eased(s)
    <3>1. CASE UNCHANGED pc
      BY <3>1 DEF Eased
    <3>2. CASE \E t \in Threads, l \in {"activate", "app", "guard", "idle", "fire", "handler", "connected"} :
                   pc[t] \notin Pk /\ pc' = [pc EXCEPT ![t] = l]
      BY <3>2, EasedPc DEF Pk
    <3> QED
      BY <1>1, <3>1, <3>2
  <2> QED
    BY <1>1, <2>1, QuietAsk
<1>2. CASE Stop \/ Exit \/ UNCHANGED vars \/ \E t \in Sessions \cup {"run"} : StoreState(t)
  <2>1. UNCHANGED <<askVars, runningMeasured, late, mode, signaled, run, todo, results>> /\ UNCHANGED pc
    BY <1>2 DEF Stop, Exit, StoreState, vars
  <2> QED
    BY <1>1, <2>1
<1>3. CASE \E s \in Sessions : Network(s)
  <2>1. PICK s \in Sessions : Network(s)
    BY <1>3
  <2>2. UNCHANGED <<askVars, runningMeasured, late, mode, signaled, run, todo, results>>
    BY <2>1 DEF Network, AppUnchanged
  <2>3. CASE UNCHANGED pc
    BY <1>1, <2>2, <2>3
  <2>4. CASE ~UNCHANGED pc
    <3>1. \/ \E l \in {"connected", "guard"} : pc' = [pc EXCEPT ![<<s, "c">>] = l]
          \/ pc[<<s, "r">>] = "idle" /\ pc' = [pc EXCEPT ![<<s, "r">>] = "guard"]
      BY <2>1, <2>4 DEF Network, Completion, ConnectDone, RecvLost, Freed, Goto
    <3>2. pc[<<s, "c">>] \notin Pk /\ <<s, "c">> \in Threads /\ <<s, "r">> \in Threads
      BY DEF CoreType, Pk, Threads, CLabels
    <3>3. \E t \in Threads, l \in {"activate", "app", "guard", "idle", "fire", "handler", "connected"} :
                   pc[t] \notin Pk /\ pc' = [pc EXCEPT ![t] = l]
      BY <3>1, <3>2 DEF Pk
    <3> QED
      BY <1>1, <2>2, <3>3
  <2> QED
    BY <2>3, <2>4
<1>4. CASE \E t \in Threads : (Handler(t) /\ AppUnchanged) \/ OnDisconnected(t)
  <2>1. PICK t \in Threads : (Handler(t) /\ AppUnchanged) \/ OnDisconnected(t)
    BY <1>4
  <2>2. UNCHANGED <<askVars, runningMeasured, late, mode, signaled, run, todo, results>>
    BY <2>1 DEF AppUnchanged, OnDisconnected
  <2>3. pc[t] \in {"connected", "rearm", "activate", "guard", "fire", "handler"}
    BY <2>1 DEF Handler, PostRecv, Activate, Guard, Fire, OnDisconnected
  <2>4. \E l \in {"activate", "app", "guard", "idle", "fire", "handler"} : pc' = [pc EXCEPT ![t] = l]
    BY <2>1 DEF Handler, PostRecv, Activate, Guard, Fire, OnDisconnected, Goto
  <2>5. pc[t] \notin Pk
    BY <2>3 DEF Pk
  <2> QED
    BY <1>1, <2>2, <2>4, <2>5
<1> QED
  BY <1>2, <1>3, <1>4

(* A ticket more, or a response more, of the measurement or of the         *)
(* warm-up.                                                                 *)
LEMMA NextNumbered ==
    ASSUME AskType
    PROVE  /\ next' = [next EXCEPT ![TRUE] = @ + 1] =>
                next' \in [BOOLEAN -> Nat] /\ nextM' = nextM + 1 /\ nextW' = nextW
           /\ next' = [next EXCEPT ![FALSE] = @ + 1] =>
                next' \in [BOOLEAN -> Nat] /\ nextW' = nextW + 1 /\ nextM' = nextM
<1>1. nextM + 1 \in Nat /\ nextW + 1 \in Nat
  BY AskNat
<1>2. next \in [BOOLEAN -> Nat] /\ TRUE \in BOOLEAN /\ FALSE \in BOOLEAN /\ TRUE # FALSE
  BY DEF AskType
<1>3. ASSUME next' = [next EXCEPT ![TRUE] = @ + 1]
      PROVE  next' \in [BOOLEAN -> Nat] /\ nextM' = nextM + 1 /\ nextW' = nextW
  BY <1>1, <1>2, <1>3, Zenon DEF nextM, nextW
<1>4. ASSUME next' = [next EXCEPT ![FALSE] = @ + 1]
      PROVE  next' \in [BOOLEAN -> Nat] /\ nextW' = nextW + 1 /\ nextM' = nextM
  BY <1>1, <1>2, <1>4, Zenon DEF nextM, nextW
<1> QED
  BY <1>3, <1>4

LEMMA DoneNumbered ==
    ASSUME AskType
    PROVE  /\ done' = [done EXCEPT ![TRUE] = @ + 1] =>
                done' \in [BOOLEAN -> Nat] /\ doneM' = doneM + 1 /\ doneW' = doneW
           /\ done' = [done EXCEPT ![FALSE] = @ + 1] =>
                done' \in [BOOLEAN -> Nat] /\ doneW' = doneW + 1 /\ doneM' = doneM
<1>1. doneM + 1 \in Nat /\ doneW + 1 \in Nat
  BY AskNat
<1>2. done \in [BOOLEAN -> Nat] /\ TRUE \in BOOLEAN /\ FALSE \in BOOLEAN /\ TRUE # FALSE
  BY DEF AskType
<1>3. ASSUME done' = [done EXCEPT ![TRUE] = @ + 1]
      PROVE  done' \in [BOOLEAN -> Nat] /\ doneM' = doneM + 1 /\ doneW' = doneW
  BY <1>1, <1>2, <1>3, Zenon DEF doneM, doneW
<1>4. ASSUME done' = [done EXCEPT ![FALSE] = @ + 1]
      PROVE  done' \in [BOOLEAN -> Nat] /\ doneW' = doneW + 1 /\ doneM' = doneM
  BY <1>1, <1>2, <1>4, Zenon DEF doneM, doneW
<1> QED
  BY <1>3, <1>4

(* A request that goes out, with its ticket. *)
Posted(s, q) ==
    /\ sent' = [sent EXCEPT ![s] = q]
    /\ asked' = asked \/ asked' = [asked EXCEPT ![s] = Append(@, q)]

(* What SendNext does: nothing, a ticket beyond the target, or a request,   *)
(* which SendMessage may drop.                                              *)
SendsM(s) ==
    \/ UNCHANGED <<next, sent, asked>>
    \/ /\ next' \in [BOOLEAN -> Nat] /\ nextM' = nextM + 1 /\ nextW' = nextW
       /\ \/ ~(nextM < iterations) /\ UNCHANGED <<sent, asked>>
          \/ nextM < iterations /\ Posted(s, TicketM(nextM))

SendsW(s) ==
    \/ UNCHANGED <<next, sent, asked>>
    \/ /\ next' \in [BOOLEAN -> Nat] /\ nextW' = nextW + 1 /\ nextM' = nextM
       /\ \/ ~(nextW < goalW) /\ UNCHANGED <<sent, asked>>
          \/ nextW < goalW /\ Posted(s, TicketW(nextW))

(* SendNext in either phase.                                                *)
LEMMA SendFacts ==
    ASSUME AskType, NEW s \in Sessions
    PROVE  /\ SendNext(s, TRUE) => SendsM(s) /\ UNCHANGED <<done, reply, samples>>
           /\ SendNext(s, FALSE) => SendsW(s) /\ UNCHANGED <<done, reply, samples>>
<1>1. Target(TRUE) = iterations
  BY TargetFacts
<1>2. ASSUME SendNext(s, TRUE) PROVE SendsM(s) /\ UNCHANGED <<done, reply, samples>>
  <2>1. \/ UNCHANGED <<next, sent, asked>>
        \/ /\ next' = [next EXCEPT ![TRUE] = @ + 1]
           /\ \/ ~(nextM < iterations) /\ UNCHANGED <<sent, asked>>
              \/ nextM < iterations /\ Send(s, TicketM(nextM))
    BY <1>1, <1>2, Zenon DEF SendNext, nextM, TicketM
  <2>2. \A q : Send(s, q) => Posted(s, q)
    BY DEF Send, Posted, AskType
  <2> QED
    BY <1>2, <2>1, <2>2, NextNumbered, Zenon DEF SendsM, SendNext
<1>3. ASSUME SendNext(s, FALSE) PROVE SendsW(s) /\ UNCHANGED <<done, reply, samples>>
  <2>1. \/ UNCHANGED <<next, sent, asked>>
        \/ /\ next' = [next EXCEPT ![FALSE] = @ + 1]
           /\ \/ ~(nextW < goalW) /\ UNCHANGED <<sent, asked>>
              \/ nextW < goalW /\ Send(s, TicketW(nextW))
    BY <1>3, Zenon DEF SendNext, nextW, TicketW, goalW
  <2>2. \A q : Send(s, q) => Posted(s, q)
    BY DEF Send, Posted, AskType
  <2> QED
    BY <1>3, <2>1, <2>2, NextNumbered, Zenon DEF SendsW, SendNext
<1> QED
  BY <1>2, <1>3

(* A ticket of the current phase, the next one. *)
NewTicket(q) ==
    \/ /\ Measuring /\ q = TicketM(nextM) /\ nextM < iterations
       /\ nextM' = nextM + 1 /\ nextW' = nextW
    \/ /\ ~Measuring /\ q = TicketW(nextW) /\ nextW < goalW
       /\ nextW' = nextW + 1 /\ nextM' = nextM

(* multi: a session that has nothing open sends the next ticket. *)
LEMMA PostedKeeps ==
    ASSUME AskType, WarmCount, Tickets, \A s \in Sessions : AskOf(s),
           NEW s \in Sessions, NEW q, NewTicket(q), Posted(s, q),
           UNCHANGED <<done, reply, samples, runningMeasured, mode>>,
           asked[s] = <<>>, Label(s) \notin {"packet", "sampled"},
           Label(s)' \notin {"packet", "sampled", "counted"}, Label(s)' = "warm" => Measuring,
           \A u \in Sessions \ {s} : Label(u)' = Label(u)
    PROVE  WarmCount' /\ Tickets' /\ \A u \in Sessions : AskOf(u)'
<1>0. /\ doneM' = doneM /\ doneW' = doneW /\ (Measuring' <=> Measuring) /\ goalW' = goalW
      /\ reply' = reply /\ samples' = samples
  BY GoalSame DEF Measuring, doneM, doneW
<1>1. /\ nextM \in Nat /\ nextW \in Nat /\ nextM' \in Nat /\ nextW' \in Nat
      /\ nextM' >= nextM /\ nextW' >= nextW
      /\ doneM \in Nat /\ doneW \in Nat /\ goalW \in Nat /\ iterations \in Nat
  BY AskNat DEF NewTicket
<1>2. /\ sent'[s] = q /\ \A u \in Sessions \ {s} : sent'[u] = sent[u] /\ asked'[u] = asked[u]
      /\ asked'[s] = <<>> \/ asked'[s] = <<q>>
  BY DEF AskType, Posted
<1>3. ~Open(s) /\ \A u \in Sessions \ {s} : Open(u)' <=> Open(u)
  BY <1>2 DEF Open
<1>4. Open(s)' => asked'[s] = <<q>>
  BY <1>2 DEF Open
<1>5. Sampled' = Sampled
  BY DEF Sampled
<1>6. \A u \in Sessions \ {s} : Open(u) => Ticketed(u)' /\ sent[u] # q
  <2> SUFFICES ASSUME NEW u \in Sessions \ {s}, Open(u) PROVE Ticketed(u)' /\ sent[u] # q
    OBVIOUS
  <2>1. PICK k \in Nat :
          \/ Measuring /\ sent[u] = TicketM(k) /\ k < nextM /\ k < iterations
          \/ ~Measuring /\ sent[u] = TicketW(k) /\ k < nextW /\ k < goalW
    BY DEF AskOf, Ticketed
  <2>2. (k < nextM => k < nextM' /\ k # nextM) /\ (k < nextW => k < nextW' /\ k # nextW)
    BY <1>1
  <2>3. TicketM(k)' = TicketM(k) /\ TicketW(k)' = TicketW(k)
    BY TicketFacts
  <2>4. Ticketed(u)'
    BY <1>0, <1>2, <2>1, <2>2, <2>3 DEF Ticketed
  <2>5. sent[u] # q
    BY <2>1, <2>2, TicketFacts DEF NewTicket
  <2> QED
    BY <2>4, <2>5
<1>7. Ticketed(s)'
  <2>1. (Measuring => nextM < nextM') /\ (~Measuring => nextW < nextW')
    BY <1>1 DEF NewTicket
  <2>2. PICK k \in Nat :
          \/ Measuring /\ q = TicketM(k) /\ k < nextM' /\ k < iterations
          \/ ~Measuring /\ q = TicketW(k) /\ k < nextW' /\ k < goalW
    BY <1>1, <2>1 DEF NewTicket
  <2>3. TicketM(k)' = TicketM(k) /\ TicketW(k)' = TicketW(k)
    BY TicketFacts
  <2> QED
    BY <1>0, <1>2, <2>2, <2>3 DEF Ticketed
<1>8. ASSUME NEW u \in Sessions PROVE AskOf(u)'
  <2>1. CASE u = s
    BY <1>0, <1>2, <1>4, <1>7, <2>1 DEF AskOf, Open
  <2>2. CASE u # s
    <3>1. AskOf(u) /\ asked'[u] = asked[u] /\ sent'[u] = sent[u] /\ Label(u)' = Label(u)
      BY <1>2, <2>2
    <3>2. Open(u)' => Ticketed(u)'
      BY <1>3, <1>6, <2>2
    <3> QED
      BY <1>0, <3>1, <3>2 DEF AskOf
  <2> QED
    BY <2>1, <2>2
<1>9. WarmCount'
  <2>1. IsFiniteSet(OpenSet) /\ IsFiniteSet(OpenSet \cup {s})
    BY TargetFacts, FS_Subset, FS_AddElement DEF OpenSet
  <2>2. s \notin OpenSet /\ OpenSet' \subseteq OpenSet \cup {s}
    BY <1>3 DEF OpenSet
  <2>3. Cardinality(OpenSet \cup {s}) = Cardinality(OpenSet) + 1
    BY <2>1, <2>2, FS_AddElement
  <2>4. Cardinality(OpenSet') <= Cardinality(OpenSet) + 1
    BY <2>1, <2>2, <2>3, FS_Subset
  <2>5. Cardinality(OpenSet) \in Nat /\ Cardinality(OpenSet') \in Nat
    BY <2>1, <2>2, FS_Subset, FS_CardinalityType
  <2>6. doneW <= nextW' /\ doneW <= goalW
    BY <1>1 DEF WarmCount
  <2>7. ASSUME ~Measuring
        PROVE  /\ doneW + Cardinality(OpenSet') <= nextW'
               /\ doneW + Cardinality(OpenSet') <= goalW
               /\ samples = <<>> /\ doneM = 0
    <3>1. doneW + Cardinality(OpenSet) <= nextW /\ nextW < goalW /\ nextW' = nextW + 1
      BY <2>7 DEF WarmCount, NewTicket
    <3>2. samples = <<>> /\ doneM = 0
      BY <2>7 DEF WarmCount
    <3> QED
      BY <1>1, <2>4, <2>5, <3>1, <3>2
  <2>8. Cardinality(OpenSet)' = Cardinality(OpenSet')
    OBVIOUS
  <2> QED
    BY <1>0, <2>6, <2>7, <2>8 DEF WarmCount
<1>10. Tickets'
  <2>1. ASSUME NEW i \in 1..Len(samples) PROVE SampleAt(i)' /\ samples[i][2] # q
    <3>0. Measuring
      BY DEF WarmCount
    <3>1. PICK k \in Nat : samples[i] = <<TicketM(k), TicketM(k)>> /\ k < nextM /\ k < iterations
      BY DEF Tickets, SampleAt
    <3>2. k < nextM' /\ k # nextM
      BY <1>1, <3>1
    <3>3. SampleAt(i)'
      BY <1>0, <3>1, <3>2, TicketFacts DEF SampleAt
    <3>4. q = TicketM(nextM) /\ samples[i][2] = TicketM(k)
      BY <3>0, <3>1 DEF NewTicket
    <3> QED
      BY <3>2, <3>3, <3>4, TicketFacts
  <2>2. ASSUME NEW u \in Sessions, NEW v \in Sessions, u # v, Open(u)', Open(v)'
        PROVE  sent'[u] # sent'[v]
    <3>1. CASE u # s /\ v # s
      <4>1. Open(u) /\ Open(v) /\ sent'[u] = sent[u] /\ sent'[v] = sent[v]
        BY <1>2, <1>3, <2>2, <3>1
      <4> QED
        BY <2>2, <4>1 DEF Tickets
    <3>2. CASE u = s
      BY <1>2, <1>3, <1>6, <2>2, <3>2
    <3>3. CASE v = s
      BY <1>2, <1>3, <1>6, <2>2, <3>3
    <3> QED
      BY <3>1, <3>2, <3>3
  <2>3. ASSUME NEW i \in 1..Len(samples), NEW u \in Sessions, Open(u)'
        PROVE  samples[i][2] # sent'[u]
    <3>1. CASE u = s
      BY <1>2, <2>1, <3>1
    <3>2. CASE u # s
      <4>1. Open(u) /\ sent'[u] = sent[u]
        BY <1>2, <1>3, <2>3, <3>2
      <4> QED
        BY <4>1 DEF Tickets
    <3> QED
      BY <3>1, <3>2
  <2>4. \A i, j \in 1..Len(samples) : i # j => samples[i][2] # samples[j][2]
    BY DEF Tickets
  <2>5. doneM + Cardinality(Sampled) <= Len(samples)
    BY DEF Tickets
  <2> QED
    BY <1>0, <1>5, <2>1, <2>2, <2>3, <2>4, <2>5 DEF Tickets
<1> QED
  BY <1>8, <1>9, <1>10

(* multi: the session's requests change where the runner does not rely on   *)
(* them.                                                                    *)
LEMMA PhaseOther ==
    ASSUME AskType, PhaseInv, NEW s \in Sessions, todo \subseteq Sessions,
           UNCHANGED <<run, results, runningMeasured, mode>>, todo' \subseteq todo,
           doneM' >= doneM, doneW' >= doneW, doneM' \in Nat, doneW' \in Nat,
           \A u \in Sessions \ {s} : Label(u)' = Label(u) /\ asked'[u] = asked[u],
           run \notin Early \cup {"running", "measure"}, run = "ask" => s \notin todo'
    PROVE  PhaseInv'
<1>1. goalW' = goalW /\ (Measuring' <=> Measuring)
  BY GoalSame DEF Measuring
<1>2. \A u \in Sessions \ {s} : NoneOpen(u) => NoneOpen(u)'
  BY DEF NoneOpen
<1>3. /\ doneW >= goalW => doneW' >= goalW
      /\ doneM >= iterations => doneM' >= iterations
  BY AskNat
<1> QED
  BY <1>1, <1>2, <1>3 DEF PhaseInv, Early

(* The runner is not at a statement that relies on a session which has a    *)
(* request open.                                                            *)
LEMMA PhaseFacts ==
    ASSUME PhaseInv, NEW s \in Sessions, ~NoneOpen(s)
    PROVE  run \notin Early \cup {"running", "measure"} /\ (run = "ask" => s \notin todo)
BY DEF PhaseInv, Early

(* A step of multi, from its parts.                                         *)
LEMMA MultiStep ==
    ASSUME AskType, mode = "multi", mode' = mode, run' = run \/ run' = "ask",
           next' \in [BOOLEAN -> Nat], done' \in [BOOLEAN -> Nat],
           sent' \in [Sessions -> Requests \cup {<<>>}],
           reply' \in [Sessions -> Requests \cup {<<>>}],
           asked' \in [Sessions -> Seq(Requests \cup {<<>>})], samples' \in Seq(Pairs),
           runningMeasured' \in BOOLEAN, UNCHANGED <<signaled, late>>,
           WarmCount', Tickets', PhaseInv', \A s \in Sessions : AskOf(s)'
    PROVE  AskInv'
<1>1. Requests' = Requests /\ Pairs' = Pairs
  BY DEF Requests, Pairs
<1>2. AskType'
  BY <1>1 DEF AskType
<1> QED
  BY <1>2 DEF AskInv, MultiInv, SeqInv, OtherInv

(* A request that goes out leaves the types.                                *)
LEMMA PostedType ==
    ASSUME AskType, NEW s \in Sessions, NEW q \in Requests \cup {<<>>}, Posted(s, q)
    PROVE  sent' \in [Sessions -> Requests \cup {<<>>}] /\ asked' \in [Sessions -> Seq(Requests \cup {<<>>})]
<1>1. asked[s] \in Seq(Requests \cup {<<>>})
  BY DEF AskType
<1>2. Append(asked[s], q) \in Seq(Requests \cup {<<>>})
  BY <1>1
<1> QED
  BY <1>2 DEF AskType, Posted

(* multi: a session with nothing open sends. *)
LEMMA SendStep ==
    ASSUME AskInv, mode = "multi", NEW s \in Sessions, todo \subseteq Sessions,
           NEW q, NewTicket(q), Posted(s, q), next' \in [BOOLEAN -> Nat],
           UNCHANGED <<done, reply, samples, runningMeasured, signaled, late, mode, results, run>>,
           asked[s] = <<>>, Label(s) \notin {"packet", "sampled"},
           Label(s)' \notin {"packet", "sampled", "counted"}, Label(s)' = "warm" => Measuring,
           \A u \in Sessions \ {s} : Label(u)' = Label(u),
           run \notin Early \cup {"running", "measure"},
           todo' \subseteq todo, run = "ask" => s \notin todo'
    PROVE  AskInv'
<1>0. AskType /\ WarmCount /\ Tickets /\ PhaseInv /\ \A u \in Sessions : AskOf(u)
  BY DEF AskInv, MultiInv
<1>1. WarmCount' /\ Tickets' /\ \A u \in Sessions : AskOf(u)'
  BY <1>0, PostedKeeps
<1>2. q \in Requests
  BY <1>0, AskNat, TicketRequest DEF NewTicket
<1>3. sent' \in [Sessions -> Requests \cup {<<>>}] /\ asked' \in [Sessions -> Seq(Requests \cup {<<>>})]
  BY <1>0, <1>2, PostedType
<1>4. doneM' = doneM /\ doneW' = doneW
  BY DEF doneM, doneW
<1>5. doneM' >= doneM /\ doneW' >= doneW /\ doneM' \in Nat /\ doneW' \in Nat
  BY <1>0, <1>4, AskNat
<1>6. \A u \in Sessions \ {s} : asked'[u] = asked[u]
  BY <1>0 DEF Posted, AskType
<1>7. PhaseInv'
  BY <1>0, <1>5, <1>6, PhaseOther
<1>8. /\ done' \in [BOOLEAN -> Nat] /\ reply' \in [Sessions -> Requests \cup {<<>>}]
      /\ samples' \in Seq(Pairs) /\ runningMeasured' \in BOOLEAN
  BY <1>0 DEF AskType
<1> QED
  BY <1>0, <1>1, <1>3, <1>7, <1>8, MultiStep

(* multi: a session that sends nothing. *)
LEMMA NoSendStep ==
    ASSUME AskInv, mode = "multi", todo \subseteq Sessions, \A u \in Sessions : Eased(u),
           next' \in [BOOLEAN -> Nat], nextM' >= nextM, nextW' >= nextW,
           UNCHANGED <<sent, asked, done, reply, samples, runningMeasured, signaled, late, mode,
                       results, run>>,
           todo' \subseteq todo
    PROVE  AskInv'
<1>1. EaseStep
  BY DEF EaseStep
<1>2. PhaseInv'
  BY <1>1, EasedPhase DEF AskInv, MultiInv
<1> QED
  BY <1>1, <1>2, EasedInv

(* What SendNext comes to: the next ticket goes out, or nothing does. *)
LEMMA SendCases ==
    ASSUME AskType, NEW s \in Sessions, (Measuring /\ SendsM(s)) \/ (~Measuring /\ SendsW(s))
    PROVE  /\ next' \in [BOOLEAN -> Nat] /\ nextM' >= nextM /\ nextW' >= nextW
           /\ UNCHANGED <<sent, asked>> \/ \E q : NewTicket(q) /\ Posted(s, q)
<1>1. CASE UNCHANGED <<next, sent, asked>>
  <2>1. nextM' = nextM /\ nextW' = nextW /\ next' \in [BOOLEAN -> Nat]
    BY <1>1 DEF nextM, nextW, AskType
  <2> QED
    BY <1>1, <2>1, AskNat
<1>2. CASE Measuring /\ next' \in [BOOLEAN -> Nat] /\ nextM' = nextM + 1 /\ nextW' = nextW
           /\ (UNCHANGED <<sent, asked>> \/ (nextM < iterations /\ Posted(s, TicketM(nextM))))
  BY <1>2, AskNat DEF NewTicket
<1>3. CASE ~Measuring /\ next' \in [BOOLEAN -> Nat] /\ nextW' = nextW + 1 /\ nextM' = nextM
           /\ (UNCHANGED <<sent, asked>> \/ (nextW < goalW /\ Posted(s, TicketW(nextW))))
  BY <1>3, AskNat DEF NewTicket
<1> QED
  BY <1>1, <1>2, <1>3 DEF SendsM, SendsW

(* The runner's first request of a phase for each session. *)
LEMMA AskStep ==
    ASSUME AskInv, CoreType, Ask
    PROVE  AskInv'
<1> USE DEF mainVars, outVars, At, Then, RunnerOnly, Multi
<1>0. AskType /\ mode = "multi" /\ run = "ask" /\ run' = "ask" /\ todo \subseteq Sessions
  BY UsedSessions DEF Ask, AskInv, CoreType
<1>1. /\ UNCHANGED <<runningMeasured, signaled, late, mode, results, pc>>
      /\ \E s \in todo : SendNext(s, runningMeasured) /\ todo' = todo \ {s}
  BY DEF Ask
<1>2. PICK s \in todo : SendNext(s, runningMeasured) /\ todo' = todo \ {s}
  BY <1>1
<1>3. s \in Sessions
  BY <1>0
<1>4. (Measuring /\ SendNext(s, TRUE)) \/ (~Measuring /\ SendNext(s, FALSE))
  <2>1. runningMeasured = TRUE \/ runningMeasured = FALSE
    BY <1>0 DEF AskType
  <2> QED
    BY <1>2, <2>1, Zenon DEF Measuring
<1>5. /\ (Measuring /\ SendsM(s)) \/ (~Measuring /\ SendsW(s))
      /\ UNCHANGED <<done, reply, samples>>
  BY <1>0, <1>3, <1>4, SendFacts
<1>6. /\ next' \in [BOOLEAN -> Nat] /\ nextM' >= nextM /\ nextW' >= nextW
      /\ UNCHANGED <<sent, asked>> \/ \E q : NewTicket(q) /\ Posted(s, q)
  BY <1>0, <1>3, <1>5, SendCases
<1>7. NoneOpen(s) /\ (Label(s) = "warm" => Measuring)
  BY <1>0 DEF AskInv, MultiInv, PhaseInv
<1>8. CASE UNCHANGED <<sent, asked>>
  BY <1>0, <1>1, <1>2, <1>5, <1>6, <1>8, NoSendStep DEF Eased
<1>9. CASE \E q : NewTicket(q) /\ Posted(s, q)
  <2>1. PICK q : NewTicket(q) /\ Posted(s, q)
    BY <1>9
  <2>2. run \notin Early \cup {"running", "measure"}
    BY <1>0 DEF Early
  <2> QED
    BY <1>0, <1>1, <1>2, <1>3, <1>5, <1>6, <1>7, <2>1, <2>2, SendStep DEF NoneOpen
<1> QED
  BY <1>6, <1>8, <1>9

(* sendNext at the end of a packet handler. *)
LEMMA AskAgainStep ==
    ASSUME AskInv, CoreType, NEW t \in Threads, AskAgain(t)
    PROVE  AskInv'
<1> USE DEF HandlerStep, HandlerOnly, mainVars, runVars, Goto
<1>a. PICK s \in Sessions, k \in {"c", "r"} : t = <<s, k>> /\ t[1] = s
  BY ThreadPair
<1>0. AskType /\ todo \subseteq Sessions
  BY UsedSessions DEF AskInv, CoreType
<1>1. /\ k = "r" /\ Label(s) \in {"warm", "counted"} /\ t = <<s, "r">>
      /\ pc' = [pc EXCEPT ![<<s, "r">>] = "rearm"]
  BY <1>a DEF AskAgain, CoreType, CLabels
<1>2. UNCHANGED <<runningMeasured, signaled, late, mode, results, run, todo>>
  BY DEF AskAgain
<1>3. mode = "multi"
  BY <1>0, <1>1 DEF AskType
<1>4. Label(s)' = "rearm" /\ \A u \in Sessions \ {s} : Label(u)' = Label(u)
  BY <1>1 DEF CoreType, Threads
<1>5. \A u \in Sessions : Eased(u)
  BY <1>1, <1>4 DEF Eased, Pk
<1>6. WarmCount /\ PhaseInv /\ AskOf(s)
  BY <1>3 DEF AskInv, MultiInv
<1>7. CASE Label(s) = "counted"
  <2>1. SendNext(s, TRUE)
    BY <1>a, <1>7, <1>1 DEF AskAgain
  <2>2. Measuring /\ asked[s] = <<>> /\ ~NoneOpen(s)
    BY <1>6, <1>7 DEF AskOf, NoneOpen
  <2>3. SendsM(s) /\ UNCHANGED <<done, reply, samples>>
    BY <1>0, <2>1, SendFacts
  <2>4. /\ next' \in [BOOLEAN -> Nat] /\ nextM' >= nextM /\ nextW' >= nextW
        /\ UNCHANGED <<sent, asked>> \/ \E q : NewTicket(q) /\ Posted(s, q)
    BY <1>0, <2>2, <2>3, SendCases
  <2>5. CASE UNCHANGED <<sent, asked>>
    BY <1>0, <1>2, <1>3, <1>5, <2>3, <2>4, <2>5, NoSendStep
  <2>6. CASE \E q : NewTicket(q) /\ Posted(s, q)
    <3>1. PICK q : NewTicket(q) /\ Posted(s, q)
      BY <2>6
    <3>2. run \notin Early \cup {"running", "measure"} /\ (run = "ask" => s \notin todo)
      BY <1>6, <2>2, PhaseFacts
    <3> QED
      BY <1>0, <1>2, <1>3, <1>4, <1>7, <2>2, <2>3, <2>4, <3>1, <3>2, SendStep
  <2> QED
    BY <2>4, <2>5, <2>6
<1>8. CASE Label(s) = "warm"
  <2>1. SendNext(s, FALSE)
    <3>1. SendNext(s, pc[t] = "counted") /\ (pc[t] = "counted") = FALSE
      BY <1>a, <1>8, <1>1 DEF AskAgain
    <3> QED
      BY <3>1
  <2>2. SendsW(s) /\ UNCHANGED <<done, reply, samples>>
    BY <1>0, <2>1, SendFacts
  <2>3. CASE UNCHANGED <<next, sent, asked>>
    <3>1. nextM' = nextM /\ nextW' = nextW /\ next' \in [BOOLEAN -> Nat]
      BY <1>0, <2>3 DEF nextM, nextW, AskType
    <3>2. nextM' >= nextM /\ nextW' >= nextW
      BY <1>0, <3>1, AskNat
    <3> QED
      BY <1>0, <1>2, <1>3, <1>5, <2>2, <2>3, <3>1, <3>2, NoSendStep
  <2>4. CASE next' \in [BOOLEAN -> Nat] /\ nextW' = nextW + 1 /\ nextM' = nextM
             /\ UNCHANGED <<sent, asked>>
    <3>2. nextM' >= nextM /\ nextW' >= nextW
      BY <1>0, <2>4, AskNat
    <3> QED
      BY <1>0, <1>2, <1>3, <1>5, <2>2, <2>4, <3>2, NoSendStep
  <2>5. CASE next' \in [BOOLEAN -> Nat] /\ nextW' = nextW + 1 /\ nextM' = nextM
             /\ nextW < goalW /\ Posted(s, TicketW(nextW))
    <3>1. doneW <= nextW /\ ~(doneW >= goalW)
      BY <1>0, <1>6, <2>5, AskNat DEF WarmCount
    <3>2. ~Measuring /\ run \notin {"running", "measure"}
      BY <1>6, <3>1 DEF PhaseInv
    <3>3. run \notin Early /\ (run = "ask" => s \notin todo)
      BY <1>6, <1>8, <3>2 DEF PhaseInv, Early
    <3>4. asked[s] = <<>>
      BY <1>6, <1>8, <3>2 DEF AskOf
    <3>5. NewTicket(TicketW(nextW))
      BY <2>5, <3>2 DEF NewTicket
    <3> QED
      BY <1>0, <1>2, <1>3, <1>4, <1>8, <2>2, <2>5, <3>2, <3>3, <3>4, <3>5, SendStep
  <2> QED
    BY <2>2, <2>3, <2>4, <2>5 DEF SendsW
<1> QED
  BY <1>1, <1>7, <1>8

(* multi: no request is added and no sample taken. *)
LEMMA ShrinkKeeps ==
    ASSUME AskType, WarmCount, Tickets, \A u \in Sessions : AskOf(u),
           UNCHANGED <<next, done, sent, samples, runningMeasured, mode>>,
           \A u \in Sessions : Open(u)' => Open(u),
           \A u \in Sessions : Label(u)' = "sampled" <=> Label(u) = "sampled"
    PROVE  WarmCount' /\ Tickets' /\ \A u \in Sessions : Open(u)' => Ticketed(u)'
<1>0. /\ doneM' = doneM /\ doneW' = doneW /\ (Measuring' <=> Measuring) /\ goalW' = goalW
      /\ nextM' = nextM /\ nextW' = nextW /\ sent' = sent /\ samples' = samples
  BY GoalSame DEF Measuring, doneM, doneW, nextM, nextW
<1>1. Sampled' = Sampled /\ OpenSet' \subseteq OpenSet
  BY DEF Sampled, OpenSet
<1>2. WarmCount'
  <2>1. IsFiniteSet(OpenSet)
    BY TargetFacts, FS_Subset DEF OpenSet
  <2>2. IsFiniteSet(OpenSet') /\ Cardinality(OpenSet') <= Cardinality(OpenSet)
    BY <1>1, <2>1, FS_Subset
  <2>3. Cardinality(OpenSet) \in Nat /\ Cardinality(OpenSet') \in Nat
    BY <2>1, <2>2, FS_CardinalityType
  <2>4. Cardinality(OpenSet)' = Cardinality(OpenSet')
    OBVIOUS
  <2> QED
    BY <1>0, <2>2, <2>3, <2>4, AskNat DEF WarmCount
<1>3. Tickets'
  <2>1. \A i : TicketM(i)' = TicketM(i)
    BY TicketFacts
  <2>2. \A i : SampleAt(i)' <=> SampleAt(i)
    BY <1>0, <2>1 DEF SampleAt
  <2> QED
    BY <1>0, <1>1, <2>2 DEF Tickets
<1>4. ASSUME NEW u \in Sessions, Open(u)' PROVE Ticketed(u)'
  <2>1. PICK k \in Nat :
          \/ Measuring /\ sent[u] = TicketM(k) /\ k < nextM /\ k < iterations
          \/ ~Measuring /\ sent[u] = TicketW(k) /\ k < nextW /\ k < goalW
    BY <1>4 DEF AskOf, Ticketed
  <2>2. TicketM(k)' = TicketM(k) /\ TicketW(k)' = TicketW(k)
    BY TicketFacts
  <2> QED
    BY <1>0, <2>1, <2>2 DEF Ticketed
<1> QED
  BY <1>2, <1>3, <1>4

(* The types, when the counts and the labels of a non-multi runner stay. *)
LEMMA TypeStep ==
    ASSUME AskType, next' \in [BOOLEAN -> Nat], UNCHANGED <<done, mode>>,
           sent' \in [Sessions -> Requests \cup {<<>>}],
           reply' \in [Sessions -> Requests \cup {<<>>}],
           asked' \in [Sessions -> Seq(Requests \cup {<<>>})], samples' \in Seq(Pairs),
           signaled' \in Requests \cup {<<>>},
           runningMeasured' \in BOOLEAN, late' \in BOOLEAN, run' = "wait" => mode = "seq",
           mode # "multi" =>
               \A u \in Sessions : Label(u)' = Label(u) \/ Label(u)' \in {"packet", "idle", "guard", "rearm"}
    PROVE  AskType'
<1>1. Requests' = Requests /\ Pairs' = Pairs
  BY DEF Requests, Pairs
<1>2. doneM' = doneM /\ doneW' = doneW /\ done' \in [BOOLEAN -> Nat]
  BY DEF doneM, doneW, AskType
<1>3. mode # "multi" =>
        /\ doneM' = 0 /\ doneW' = 0
        /\ \A u \in Sessions : Label(u)' \notin {"sampled", "warm", "counted"}
  BY <1>2 DEF AskType
<1> QED
  BY <1>1, <1>2, <1>3 DEF AskType

(* A response reaches its session, or a session that is gone. *)
LEMMA ResponseStep ==
    ASSUME AskInv, Core, NEW s \in Sessions, Response(s)
    PROVE  AskInv'
<1> USE DEF HandlerOnly, mainVars, runVars
<1>0. AskType /\ CoreType /\ RunInv /\ todo \subseteq Sessions
  BY UsedSessions DEF AskInv, Core, CoreType
<1>1. /\ asked[s] # <<>> /\ kernel[s] # {} /\ Label(s) = "idle"
      /\ asked' = [asked EXCEPT ![s] = Tail(@)] /\ reply' = [reply EXCEPT ![s] = Head(asked[s])]
      /\ UNCHANGED <<next, done, sent, samples, signaled, late, mode, results, run, todo, runningMeasured>>
  BY DEF Response, RecvFrame
<1>2. pc' = pc \/ pc' = [pc EXCEPT ![<<s, "r">>] = "packet"]
  BY DEF Response, RecvFrame, Freed, Goto
<1>3. /\ Label(s)' \in {"idle", "packet"} /\ \A u \in Sessions \ {s} : Label(u)' = Label(u)
  BY <1>0, <1>1, <1>2 DEF CoreType, Threads
<1>4. /\ asked[s] \in Seq(Requests \cup {<<>>}) /\ asked'[s] = Tail(asked[s]) /\ reply'[s] = Head(asked[s])
      /\ \A u \in Sessions \ {s} : asked'[u] = asked[u] /\ reply'[u] = reply[u]
  BY <1>0, <1>1 DEF AskType
<1>5. /\ asked' \in [Sessions -> Seq(Requests \cup {<<>>})] /\ reply' \in [Sessions -> Requests \cup {<<>>}]
  <2>1. Tail(asked[s]) \in Seq(Requests \cup {<<>>}) /\ Head(asked[s]) \in Requests \cup {<<>>}
    BY <1>1, <1>4
  <2> QED
    BY <1>0, <1>1, <2>1 DEF AskType
<1>6. AskType'
  <2>1. \A u \in Sessions : Label(u)' = Label(u) \/ Label(u)' \in {"packet", "idle", "guard", "rearm"}
    BY <1>3
  <2>2. /\ next' \in [BOOLEAN -> Nat] /\ sent' \in [Sessions -> Requests \cup {<<>>}]
        /\ samples' \in Seq(Pairs) /\ signaled' \in Requests \cup {<<>>}
        /\ runningMeasured' \in BOOLEAN /\ late' \in BOOLEAN /\ (run' = "wait" => mode = "seq")
    BY <1>0, <1>1 DEF AskType
  <2> QED
    BY <1>0, <1>1, <1>5, <2>1, <2>2, TypeStep
<1>7. ASSUME asked[s] = <<sent[s]>> PROVE asked'[s] = <<>> /\ reply'[s] = sent[s]
  BY <1>4, <1>7
<1>8. MultiInv'
  <2> SUFFICES ASSUME mode = "multi" PROVE MultiInv'
    BY <1>1 DEF MultiInv
  <2>0. WarmCount /\ Tickets /\ PhaseInv /\ \A u \in Sessions : AskOf(u)
    BY DEF AskInv, MultiInv
  <2>1. asked[s] = <<sent[s]>> /\ Open(s) /\ ~NoneOpen(s)
    BY <1>1, <2>0 DEF AskOf, Open, NoneOpen
  <2>2. asked'[s] = <<>> /\ reply'[s] = sent[s]
    BY <1>7, <2>1
  <2>3. \A u \in Sessions : Open(u)' => Open(u)
    BY <1>3, <1>4, <2>1 DEF Open
  <2>4. \A u \in Sessions : Label(u)' = "sampled" <=> Label(u) = "sampled"
    BY <1>1, <1>3
  <2>5. WarmCount' /\ Tickets' /\ \A u \in Sessions : Open(u)' => Ticketed(u)'
    BY <1>0, <1>1, <2>0, <2>3, <2>4, ShrinkKeeps
  <2>6. Measuring' <=> Measuring
    BY <1>1 DEF Measuring
  <2>7. ASSUME NEW u \in Sessions PROVE AskOf(u)'
    <3>1. CASE u = s
      BY <1>1, <1>3, <2>2, <2>5, <2>6, <3>1 DEF AskOf
    <3>2. CASE u # s
      <4>1. AskOf(u) /\ asked'[u] = asked[u] /\ reply'[u] = reply[u] /\ Label(u)' = Label(u) /\ sent' = sent
        BY <1>1, <1>3, <1>4, <2>0, <3>2
      <4> QED
        BY <2>5, <2>6, <4>1 DEF AskOf
    <3> QED
      BY <3>1, <3>2
  <2>8. doneM' = doneM /\ doneW' = doneW
    BY <1>1 DEF doneM, doneW
  <2>9. doneM' >= doneM /\ doneW' >= doneW /\ doneM' \in Nat /\ doneW' \in Nat
    BY <1>0, <2>8, AskNat
  <2>10. run \notin Early \cup {"running", "measure"} /\ (run = "ask" => s \notin todo')
    BY <1>1, <2>0, <2>1, PhaseFacts
  <2>11. PhaseInv'
    BY <1>0, <1>1, <1>3, <1>4, <2>0, <2>9, <2>10, PhaseOther
  <2> QED
    BY <2>5, <2>7, <2>11 DEF MultiInv
<1>9. SeqInv'
  <2> SUFFICES ASSUME mode = "seq", late = FALSE PROVE SeqInv'
    BY <1>1 DEF SeqInv
  <2>1. s = First
    BY <1>0, <1>1 DEF RunInv, Fresh, Still, Used, Multi
  <2>2. Open(First)
    BY <1>1, <2>1 DEF Open
  <2>3. run = "wait" /\ asked[First] = <<sent[First]>> /\ signaled = <<>>
    BY <1>1, <2>1, <2>2 DEF AskInv, SeqInv
  <2>4. asked'[First] = <<>> /\ reply'[First] = sent[First]
    BY <1>7, <2>1, <2>3
  <2>5. \A i \in 1..Len(samples) : samples[i][1] = samples[i][2]
    BY DEF AskInv, SeqInv
  <2> QED
    BY <1>1, <2>3, <2>4, <2>5 DEF SeqInv
<1>10. OtherInv'
  BY <1>1 DEF AskInv, OtherInv
<1> QED
  BY <1>6, <1>8, <1>9, <1>10 DEF AskInv

(* multi: a response of the warm-up is counted. *)
LEMMA WarmStep ==
    ASSUME AskInv, CoreType, mode = "multi", ~Measuring, NEW s \in Sessions, Label(s) = "packet",
           pc' = [pc EXCEPT ![<<s, "r">>] = "warm"], done' = [done EXCEPT ![FALSE] = @ + 1],
           UNCHANGED <<next, sent, asked, reply, samples, runningMeasured, signaled, late, mode,
                       results, run, todo>>
    PROVE  AskInv'
<1>0. /\ AskType /\ WarmCount /\ Tickets /\ PhaseInv /\ todo \subseteq Sessions
      /\ \A u \in Sessions : AskOf(u)
  BY UsedSessions DEF AskInv, MultiInv, CoreType
<1>1. Label(s)' = "warm" /\ \A u \in Sessions \ {s} : Label(u)' = Label(u)
  BY DEF CoreType, Threads
<1>2. done' \in [BOOLEAN -> Nat] /\ doneW' = doneW + 1 /\ doneM' = doneM
  BY <1>0, DoneNumbered
<1>3. /\ (Measuring' <=> Measuring) /\ goalW' = goalW /\ nextM' = nextM /\ nextW' = nextW
  BY GoalSame DEF Measuring, nextM, nextW
<1>4. Open(s) /\ ~NoneOpen(s) /\ asked[s] = <<>> /\ ~Open(s)'
  BY <1>0, <1>1 DEF Open, NoneOpen, AskOf
<1>5. OpenSet' = OpenSet \ {s} /\ s \in OpenSet /\ Sampled' = Sampled
  BY <1>1, <1>4 DEF OpenSet, Sampled, Open
<1>6. \A u \in Sessions : Open(u)' => Open(u)
  BY <1>1, <1>4 DEF Open
<1>7. WarmCount'
  <2>1. IsFiniteSet(OpenSet)
    BY TargetFacts, FS_Subset DEF OpenSet
  <2>2. Cardinality(OpenSet \ {s}) = Cardinality(OpenSet) - 1 /\ Cardinality(OpenSet) \in Nat
    BY <1>5, <2>1, FS_RemoveElement, FS_CardinalityType
  <2>3. Cardinality(OpenSet)' = Cardinality(OpenSet \ {s})
    BY <1>5
  <2>4. Cardinality(OpenSet \ {s}) \in Nat
    BY <2>1, FS_RemoveElement, FS_CardinalityType
  <2>5. /\ doneW + Cardinality(OpenSet) <= nextW /\ doneW + Cardinality(OpenSet) <= goalW
        /\ samples = <<>> /\ doneM = 0
    BY <1>0 DEF WarmCount
  <2>6. nextW \in Nat /\ goalW \in Nat /\ doneW \in Nat
    BY <1>0, AskNat
  <2>7. /\ doneW' + Cardinality(OpenSet)' <= nextW /\ doneW' + Cardinality(OpenSet)' <= goalW
        /\ doneW' <= nextW /\ doneW' <= goalW
    BY <1>2, <2>2, <2>3, <2>4, <2>5, <2>6
  <2> QED
    BY <1>2, <1>3, <2>5, <2>7 DEF WarmCount
<1>8. Tickets'
  <2>1. samples = <<>> /\ samples' = samples
    BY <1>0 DEF WarmCount
  <2>2. Len(samples) = 0
    BY <2>1
  <2> QED
    BY <1>0, <1>2, <1>5, <1>6, <2>1, <2>2 DEF Tickets
<1>9. ASSUME NEW u \in Sessions PROVE AskOf(u)'
  <2>1. CASE u = s
    BY <1>1, <1>4, <2>1 DEF AskOf
  <2>2. CASE u # s
    <3>1. AskOf(u) /\ Label(u)' = Label(u)
      BY <1>0, <1>1, <2>2
    <3>2. ASSUME Open(u) PROVE Ticketed(u)'
      <4>1. PICK k \in Nat :
              \/ Measuring /\ sent[u] = TicketM(k) /\ k < nextM /\ k < iterations
              \/ ~Measuring /\ sent[u] = TicketW(k) /\ k < nextW /\ k < goalW
        BY <3>1, <3>2 DEF AskOf, Ticketed
      <4>2. TicketM(k)' = TicketM(k) /\ TicketW(k)' = TicketW(k)
        BY TicketFacts
      <4> QED
        BY <1>3, <4>1, <4>2 DEF Ticketed
    <3> QED
      BY <1>3, <1>6, <3>1, <3>2 DEF AskOf
  <2> QED
    BY <2>1, <2>2
<1>10. PhaseInv'
  <2>1. run \notin Early \cup {"running", "measure"} /\ (run = "ask" => s \notin todo')
    BY <1>0, <1>4, PhaseFacts
  <2>2. doneM' >= doneM /\ doneW' >= doneW /\ doneM' \in Nat /\ doneW' \in Nat
    BY <1>0, <1>2, AskNat
  <2> QED
    BY <1>0, <1>1, <2>1, <2>2, PhaseOther
<1>11. /\ next' \in [BOOLEAN -> Nat] /\ sent' \in [Sessions -> Requests \cup {<<>>}]
       /\ reply' \in [Sessions -> Requests \cup {<<>>}] /\ asked' \in [Sessions -> Seq(Requests \cup {<<>>})]
       /\ samples' \in Seq(Pairs) /\ runningMeasured' \in BOOLEAN
  BY <1>0 DEF AskType
<1> QED
  BY <1>0, <1>2, <1>7, <1>8, <1>9, <1>10, <1>11, MultiStep

(* multi: a response of the measurement is sampled with the time its own    *)
(* request was sent.                                                        *)
LEMMA SampleStep ==
    ASSUME AskInv, CoreType, mode = "multi", Measuring, NEW s \in Sessions, Label(s) = "packet",
           pc' = [pc EXCEPT ![<<s, "r">>] = "sampled"],
           samples' = Append(samples, <<sent[s], reply[s]>>),
           UNCHANGED <<next, done, sent, asked, reply, runningMeasured, signaled, late, mode,
                       results, run, todo>>
    PROVE  AskInv'
<1>0. /\ AskType /\ WarmCount /\ Tickets /\ PhaseInv /\ todo \subseteq Sessions
      /\ \A u \in Sessions : AskOf(u)
  BY UsedSessions DEF AskInv, MultiInv, CoreType
<1>1. Label(s)' = "sampled" /\ \A u \in Sessions \ {s} : Label(u)' = Label(u)
  BY DEF CoreType, Threads
<1>2. /\ Measuring' /\ goalW' = goalW /\ nextM' = nextM /\ nextW' = nextW
      /\ doneM' = doneM /\ doneW' = doneW
  BY GoalSame DEF Measuring, nextM, nextW, doneM, doneW
<1>3. Open(s) /\ ~NoneOpen(s) /\ asked[s] = <<>> /\ ~Open(s)' /\ reply[s] = sent[s]
  BY <1>0, <1>1 DEF Open, NoneOpen, AskOf
<1>4. \A u \in Sessions : Open(u)' => Open(u) /\ u # s
  BY <1>1, <1>3 DEF Open
<1>5. PICK k \in Nat : sent[s] = TicketM(k) /\ k < nextM /\ k < iterations
  BY <1>0, <1>3 DEF AskOf, Ticketed
<1>6. <<sent[s], reply[s]>> \in Pairs /\ samples \in Seq(Pairs)
  BY <1>0 DEF AskType, Pairs
<1>7. /\ samples' \in Seq(Pairs) /\ Len(samples') = Len(samples) + 1 /\ Len(samples) \in Nat
      /\ samples'[Len(samples) + 1] = <<TicketM(k), TicketM(k)>>
      /\ \A i \in 1..Len(samples) : samples'[i] = samples[i]
  <2>1. samples' = Append(samples, <<TicketM(k), TicketM(k)>>) /\ <<TicketM(k), TicketM(k)>> \in Pairs
    BY <1>3, <1>5, <1>6
  <2> QED
    BY <1>6, <2>1
<1>8. WarmCount'
  BY <1>0, <1>2 DEF WarmCount
<1> DEFINE n == Len(samples)
<1>9. ASSUME NEW i \in 1..n + 1 PROVE i = n + 1 \/ i \in 1..n
  BY <1>7
<1>10. \A i \in 1..n : /\ SampleAt(i) /\ samples[i][2] # sent[s]
                       /\ \A u \in Sessions : Open(u) => samples[i][2] # sent[u]
                       /\ \A j \in 1..n : i # j => samples[i][2] # samples[j][2]
  BY <1>0, <1>3 DEF Tickets
<1>11. ASSUME NEW i \in 1..n + 1 PROVE SampleAt(i)'
  <2>1. CASE i = n + 1
    BY <1>2, <1>5, <1>7, <2>1, TicketFacts DEF SampleAt
  <2>2. CASE i \in 1..n
    <3>1. PICK j \in Nat : samples[i] = <<TicketM(j), TicketM(j)>> /\ j < nextM /\ j < iterations
      BY <1>10, <2>2 DEF SampleAt
    <3> QED
      BY <1>2, <1>7, <2>2, <3>1, TicketFacts DEF SampleAt
  <2> QED
    BY <1>9, <2>1, <2>2
<1>12. samples'[n + 1][2] = sent[s] /\ \A i \in 1..n : samples'[i][2] = samples[i][2]
  BY <1>5, <1>7
<1>13. ASSUME NEW i \in 1..n + 1, NEW u \in Sessions, Open(u)' PROVE samples'[i][2] # sent[u]
  <2>1. Open(u) /\ u # s
    BY <1>4, <1>13
  <2>2. CASE i = n + 1
    BY <1>0, <1>3, <1>12, <2>1, <2>2 DEF Tickets
  <2>3. CASE i \in 1..n
    BY <1>10, <1>12, <2>1, <2>3
  <2> QED
    BY <1>9, <2>2, <2>3
<1>14. ASSUME NEW i \in 1..n + 1, NEW j \in 1..n + 1, i # j PROVE samples'[i][2] # samples'[j][2]
  <2>1. CASE i \in 1..n /\ j \in 1..n
    BY <1>10, <1>12, <1>14, <2>1
  <2>2. CASE i = n + 1 /\ j \in 1..n
    BY <1>10, <1>12, <2>2
  <2>3. CASE j = n + 1 /\ i \in 1..n
    BY <1>10, <1>12, <2>3
  <2> QED
    BY <1>9, <1>14, <2>1, <2>2, <2>3
<1>15. doneM + Cardinality(Sampled') <= n + 1
  <2>1. Sampled' = Sampled \cup {s} /\ s \notin Sampled
    BY <1>1 DEF Sampled
  <2>2. IsFiniteSet(Sampled)
    BY TargetFacts, FS_Subset DEF Sampled
  <2>3. Cardinality(Sampled') = Cardinality(Sampled) + 1 /\ Cardinality(Sampled) \in Nat
    BY <2>1, <2>2, FS_AddElement, FS_CardinalityType
  <2>4. doneM + Cardinality(Sampled) <= n /\ doneM \in Nat
    BY <1>0, AskNat DEF Tickets
  <2> QED
    BY <1>7, <2>3, <2>4
<1>16. Tickets'
  <2>1. \A u, v \in Sessions : u # v /\ Open(u)' /\ Open(v)' => sent[u] # sent[v]
    BY <1>0, <1>4 DEF Tickets
  <2>2. Len(samples)' = n + 1 /\ Cardinality(Sampled)' = Cardinality(Sampled')
    BY <1>7
  <2> HIDE DEF n
  <2> QED
    BY <1>2, <1>11, <1>13, <1>14, <1>15, <2>1, <2>2 DEF Tickets
<1>17. ASSUME NEW u \in Sessions PROVE AskOf(u)'
  <2>1. CASE u = s
    BY <1>1, <1>2, <1>3, <2>1 DEF AskOf
  <2>2. CASE u # s
    <3>1. AskOf(u) /\ Label(u)' = Label(u)
      BY <1>0, <1>1, <2>2
    <3>2. ASSUME Open(u) PROVE Ticketed(u)'
      <4>1. PICK j \in Nat : sent[u] = TicketM(j) /\ j < nextM /\ j < iterations
        BY <3>1, <3>2 DEF AskOf, Ticketed
      <4>2. TicketM(j)' = TicketM(j)
        BY TicketFacts
      <4> QED
        BY <1>2, <4>1, <4>2 DEF Ticketed
    <3> QED
      BY <1>2, <1>4, <3>1, <3>2 DEF AskOf
  <2> QED
    BY <2>1, <2>2
<1>18. PhaseInv'
  <2>1. run \notin Early \cup {"running", "measure"} /\ (run = "ask" => s \notin todo')
    BY <1>0, <1>3, PhaseFacts
  <2>2. doneM' >= doneM /\ doneW' >= doneW /\ doneM' \in Nat /\ doneW' \in Nat
    BY <1>0, <1>2, AskNat
  <2> QED
    BY <1>0, <1>1, <2>1, <2>2, PhaseOther
<1>19. /\ next' \in [BOOLEAN -> Nat] /\ sent' \in [Sessions -> Requests \cup {<<>>}]
       /\ reply' \in [Sessions -> Requests \cup {<<>>}] /\ asked' \in [Sessions -> Seq(Requests \cup {<<>>})]
       /\ done' \in [BOOLEAN -> Nat] /\ runningMeasured' \in BOOLEAN
  BY <1>0 DEF AskType
<1> QED
  BY <1>0, <1>7, <1>8, <1>16, <1>17, <1>18, <1>19, MultiStep

(* multi: the packet handler, in either phase.                              *)
LEMMA OnPacketReceivedStep ==
    ASSUME AskInv, CoreType, NEW t \in Threads, OnPacketReceived(t)
    PROVE  AskInv'
<1> USE DEF HandlerStep, HandlerOnly, mainVars, runVars, Goto
<1>a. PICK s \in Sessions, k \in {"c", "r"} : t = <<s, k>> /\ t[1] = s
  BY ThreadPair
<1>1. k = "r" /\ Label(s) = "packet" /\ t = <<s, "r">> /\ mode = "multi"
  BY <1>a DEF OnPacketReceived, CoreType, CLabels, Multi
<1>2. UNCHANGED <<next, sent, asked, reply, runningMeasured, signaled, late, mode, results, run, todo>>
  BY DEF OnPacketReceived
<1>3. runningMeasured = TRUE \/ runningMeasured = FALSE
  BY DEF AskInv, AskType
<1>4. \/ /\ Measuring /\ samples' = Append(samples, <<sent[s], reply[s]>>)
         /\ pc' = [pc EXCEPT ![<<s, "r">>] = "sampled"] /\ UNCHANGED done
      \/ /\ ~Measuring /\ done' = [done EXCEPT ![FALSE] = @ + 1]
         /\ pc' = [pc EXCEPT ![<<s, "r">>] = "warm"] /\ UNCHANGED samples
  BY <1>a, <1>1, <1>3 DEF OnPacketReceived, Measuring
<1> QED
  BY <1>1, <1>2, <1>4, WarmStep, SampleStep

(* multi: a sample is counted. *)
LEMMA CountSampleStep ==
    ASSUME AskInv, CoreType, NEW t \in Threads, CountSample(t)
    PROVE  AskInv'
<1> USE DEF HandlerStep, HandlerOnly, mainVars, runVars, Goto
<1>a. PICK s \in Sessions, k \in {"c", "r"} : t = <<s, k>> /\ t[1] = s
  BY ThreadPair
<1>1. k = "r" /\ Label(s) = "sampled" /\ pc' = [pc EXCEPT ![<<s, "r">>] = "counted"]
  BY <1>a DEF CountSample, CoreType, CLabels
<1>2. /\ done' = [done EXCEPT ![TRUE] = @ + 1]
      /\ UNCHANGED <<next, sent, asked, reply, samples, runningMeasured, signaled, late, mode,
                     results, run, todo>>
  BY DEF CountSample
<1>3. mode = "multi"
  BY <1>1 DEF AskInv, AskType
<1>0. /\ AskType /\ WarmCount /\ Tickets /\ PhaseInv /\ todo \subseteq Sessions
      /\ \A u \in Sessions : AskOf(u)
  BY <1>3, UsedSessions DEF AskInv, MultiInv, CoreType
<1>4. Label(s)' = "counted" /\ \A u \in Sessions \ {s} : Label(u)' = Label(u)
  BY <1>1 DEF CoreType, Threads
<1>5. done' \in [BOOLEAN -> Nat] /\ doneM' = doneM + 1 /\ doneW' = doneW
  BY <1>0, <1>2, DoneNumbered
<1>6. /\ (Measuring' <=> Measuring) /\ goalW' = goalW /\ nextM' = nextM /\ nextW' = nextW
      /\ sent' = sent /\ samples' = samples
  BY <1>2, GoalSame DEF Measuring, nextM, nextW
<1>7. Measuring /\ asked[s] = <<>> /\ ~Open(s) /\ ~Open(s)' /\ ~NoneOpen(s)
  BY <1>0, <1>1, <1>2, <1>4 DEF AskOf, Open, NoneOpen
<1>8. \A u \in Sessions : Open(u)' <=> Open(u)
  BY <1>2, <1>4, <1>7 DEF Open
<1>9. WarmCount'
  BY <1>0, <1>5, <1>6, <1>7 DEF WarmCount
<1>10. Tickets'
  <2>1. Sampled' = Sampled \ {s} /\ s \in Sampled
    BY <1>1, <1>4 DEF Sampled
  <2>2. IsFiniteSet(Sampled)
    BY TargetFacts, FS_Subset DEF Sampled
  <2>3. Cardinality(Sampled') = Cardinality(Sampled) - 1 /\ Cardinality(Sampled) \in Nat
    BY <2>1, <2>2, FS_RemoveElement, FS_CardinalityType
  <2>4. Len(samples) \in Nat
    BY <1>0 DEF AskType
  <2>5. doneM + Cardinality(Sampled) <= Len(samples) /\ doneM \in Nat
    BY <1>0, AskNat DEF Tickets
  <2>6. doneM' + Cardinality(Sampled') <= Len(samples)
    BY <1>5, <2>3, <2>4, <2>5
  <2>7. \A k1 : TicketM(k1)' = TicketM(k1)
    BY TicketFacts
  <2>8. \A i : SampleAt(i)' <=> SampleAt(i)
    BY <1>6, <2>7 DEF SampleAt
  <2>9. Cardinality(Sampled)' = Cardinality(Sampled')
    OBVIOUS
  <2> QED
    BY <1>0, <1>6, <1>8, <2>6, <2>8, <2>9 DEF Tickets
<1>11. ASSUME NEW u \in Sessions PROVE AskOf(u)'
  <2>1. CASE u = s
    BY <1>2, <1>4, <1>6, <1>7, <2>1 DEF AskOf
  <2>2. CASE u # s
    <3>1. AskOf(u) /\ Label(u)' = Label(u)
      BY <1>0, <1>4, <2>2
    <3>2. ASSUME Open(u) PROVE Ticketed(u)'
      <4>1. PICK j \in Nat : sent[u] = TicketM(j) /\ j < nextM /\ j < iterations
        BY <1>7, <3>1, <3>2 DEF AskOf, Ticketed
      <4>2. TicketM(j)' = TicketM(j)
        BY TicketFacts
      <4> QED
        BY <1>6, <1>7, <4>1, <4>2 DEF Ticketed
    <3> QED
      BY <1>2, <1>6, <1>8, <3>1, <3>2 DEF AskOf
  <2> QED
    BY <2>1, <2>2
<1>12. PhaseInv'
  <2>1. run \notin Early \cup {"running", "measure"} /\ (run = "ask" => s \notin todo')
    BY <1>0, <1>2, <1>7, PhaseFacts
  <2>2. doneM' >= doneM /\ doneW' >= doneW /\ doneM' \in Nat /\ doneW' \in Nat
    BY <1>0, <1>5, AskNat
  <2> QED
    BY <1>0, <1>2, <1>4, <2>1, <2>2, PhaseOther
<1>13. /\ next' \in [BOOLEAN -> Nat] /\ sent' \in [Sessions -> Requests \cup {<<>>}]
       /\ reply' \in [Sessions -> Requests \cup {<<>>}] /\ asked' \in [Sessions -> Seq(Requests \cup {<<>>})]
       /\ samples' \in Seq(Pairs) /\ runningMeasured' \in BOOLEAN
  BY <1>0, <1>2 DEF AskType
<1> QED
  BY <1>0, <1>2, <1>3, <1>5, <1>9, <1>10, <1>11, <1>12, <1>13, MultiStep

(* The measurement begins: nothing is open. *)
LEMMA MeasureStep ==
    ASSUME AskInv, CoreType, Measure
    PROVE  AskInv'
<1> USE DEF mainVars, outVars, At, Then, RunnerOnly
<1>0. AskType
  BY DEF AskInv
<1>1. /\ run = "measure" /\ run' = "ask" /\ todo' = Used /\ runningMeasured' = TRUE
      /\ UNCHANGED <<next, done, sent, asked, reply, samples, signaled, late, mode, results, pc>>
  BY DEF Measure, askVars
<1>2. /\ Measuring' /\ goalW' = goalW /\ nextM' = nextM /\ nextW' = nextW
      /\ doneM' = doneM /\ doneW' = doneW
  BY <1>1, GoalSame DEF Measuring, nextM, nextW, doneM, doneW
<1>3. \A u \in Sessions : Open(u)' <=> Open(u)
  BY <1>1 DEF Open
<1>4. AskType'
  <2>1. \A u \in Sessions : Label(u)' = Label(u)
    BY <1>1
  <2>2. /\ next' \in [BOOLEAN -> Nat] /\ sent' \in [Sessions -> Requests \cup {<<>>}]
        /\ reply' \in [Sessions -> Requests \cup {<<>>}] /\ asked' \in [Sessions -> Seq(Requests \cup {<<>>})]
        /\ samples' \in Seq(Pairs) /\ signaled' \in Requests \cup {<<>>} /\ late' \in BOOLEAN
    BY <1>0, <1>1 DEF AskType
  <2>3. runningMeasured' \in BOOLEAN
    BY <1>1
  <2> QED
    BY <1>0, <1>1, <2>1, <2>2, <2>3, TypeStep
<1>5. MultiInv'
  <2> SUFFICES ASSUME mode = "multi" PROVE MultiInv'
    BY <1>1 DEF MultiInv
  <2>0. WarmCount /\ Tickets /\ PhaseInv /\ \A u \in Sessions : AskOf(u)
    BY DEF AskInv, MultiInv
  <2>1. \A u \in Sessions : NoneOpen(u) /\ NoneOpen(u)' /\ ~Open(u)' /\ Label(u)' = Label(u)
    BY <1>1, <2>0 DEF PhaseInv, NoneOpen, Open
  <2>2. WarmCount'
    BY <1>2, <2>0 DEF WarmCount
  <2>3. Tickets'
    <3>1. Sampled' = Sampled
      BY <1>1 DEF Sampled
    <3>2. \A k1 : TicketM(k1)' = TicketM(k1)
      BY TicketFacts
    <3>3. \A i : SampleAt(i)' <=> SampleAt(i)
      BY <1>1, <1>2, <3>2 DEF SampleAt
    <3> QED
      BY <1>1, <1>2, <2>0, <2>1, <3>1, <3>3 DEF Tickets
  <2>4. \A u \in Sessions : AskOf(u)'
    BY <1>1, <1>2, <2>0, <2>1 DEF AskOf, NoneOpen
  <2>5. PhaseInv'
    BY <1>1, <1>2, <2>0, <2>1, UsedSessions DEF PhaseInv
  <2> QED
    BY <2>2, <2>3, <2>4, <2>5 DEF MultiInv
<1>6. SeqInv'
  <2>1. First \in Sessions
    BY BenchmarkAssumption
  <2> QED
    BY <1>1, <1>3, <2>1 DEF AskInv, SeqInv
<1>7. OtherInv'
  BY <1>1 DEF AskInv, OtherInv
<1> QED
  BY <1>4, <1>5, <1>6, <1>7 DEF AskInv

(* The wait on doneCv: when every ticket of the warm-up is counted, nothing *)
(* is open.                                                                 *)
LEMMA WaitDoneStep ==
    ASSUME AskInv, CoreType, WaitDone
    PROVE  AskInv'
<1> USE DEF mainVars, outVars, flagVars, At, Then, Multi
<1>0. /\ mode = "multi" /\ run = "ask"
      /\ UNCHANGED <<askVars, runningMeasured, late, mode, signaled, results, pc>>
  BY DEF WaitDone, Return
<1>1. AskType /\ WarmCount /\ Tickets /\ PhaseInv /\ \A u \in Sessions : AskOf(u)
  BY <1>0 DEF AskInv, MultiInv
<1>2. EaseStep
  BY <1>0, <1>1, EaseSame DEF Eased
<1>3. \/ run' = "returned"
      \/ AllDone(runningMeasured) /\ run' = IF runningMeasured THEN "results" ELSE "running"
  BY DEF WaitDone, Return
<1>4. CASE run' = "returned"
  BY <1>0, <1>4, QuietRunner DEF Early, Late
<1>5. CASE AllDone(runningMeasured) /\ run' = IF runningMeasured THEN "results" ELSE "running"
  <2>1. \/ Measuring /\ doneM >= iterations /\ run' = "results"
        \/ ~Measuring /\ doneW >= goalW /\ run' = "running"
    <3>1. runningMeasured = TRUE \/ runningMeasured = FALSE
      BY <1>1 DEF AskType
    <3>2. CASE runningMeasured = TRUE
      BY <1>5, <3>2, TargetFacts, Zenon DEF AllDone, doneM, Measuring
    <3>3. CASE runningMeasured = FALSE
      BY <1>5, <3>3, Zenon DEF AllDone, doneW, goalW, Measuring
    <3> QED
      BY <3>1, <3>2, <3>3
  <2>2. ASSUME ~Measuring, doneW >= goalW PROVE \A u \in Sessions : NoneOpen(u)
    <3>1. IsFiniteSet(OpenSet)
      BY TargetFacts, FS_Subset DEF OpenSet
    <3>2. Cardinality(OpenSet) \in Nat /\ doneW + Cardinality(OpenSet) <= goalW
      BY <1>1, <2>2, <3>1, FS_CardinalityType DEF WarmCount
    <3>3. Cardinality(OpenSet) = 0
      BY <1>1, <2>2, <3>2, AskNat
    <3>4. OpenSet = {}
      BY <3>1, <3>3, FS_EmptySet
    <3> QED
      BY <1>1, <2>2, <3>4 DEF OpenSet, Open, NoneOpen, AskOf
  <2>3. \A u \in Sessions : NoneOpen(u) => NoneOpen(u)'
    BY <1>2, EasedFacts
  <2>4. /\ (Measuring' <=> Measuring) /\ goalW' = goalW /\ doneM' = doneM /\ doneW' = doneW
    BY <1>0, GoalSame DEF Measuring, doneM, doneW, askVars
  <2>5. PhaseInv'
    BY <1>0, <1>1, <2>1, <2>2, <2>3, <2>4 DEF PhaseInv
  <2>6. run' # "wait"
    BY <2>1
  <2> QED
    BY <1>0, <1>2, <2>5, <2>6, EasedInv
<1> QED
  BY <1>3, <1>4, <1>5

(* A step of another mode than multi. *)
LEMMA SingleStep ==
    ASSUME mode # "multi", mode' = mode, AskType', SeqInv', OtherInv'
    PROVE  AskInv'
BY DEF AskInv, MultiInv

(* FastPortClient says hello; the benchmark notes the connection. *)
LEMMA HelloStep ==
    ASSUME AskInv, CoreType, NEW t \in Threads, OnConnected(t)
    PROVE  AskInv'
<1> USE DEF mainVars, runVars, Goto
<1>a. PICK s \in Sessions, k \in {"c", "r"} : t = <<s, k>> /\ t[1] = s
  BY ThreadPair
<1>0. AskType
  BY DEF AskInv
<1>1. /\ pc[t] = "app" /\ pc' = [pc EXCEPT ![t] = "guard"]
      /\ UNCHANGED <<next, done, sent, reply, samples, runningMeasured, signaled, late, mode,
                     results, run, todo>>
  BY DEF OnConnected
<1>2. \A u \in Sessions : Eased(u)
  BY <1>1, EasedPc DEF Pk
<1>3. CASE mode # "client"
  <2>1. UNCHANGED asked
    BY <1>3 DEF OnConnected
  <2> QED
    BY <1>1, <1>2, <2>1, QuietAsk DEF askVars
<1>4. CASE mode = "client"
  <2>1. k = "c"
    BY <1>a, <1>1 DEF CoreType, RLabels
  <2>2. \A u \in Sessions : Label(u)' = Label(u)
    BY <1>a, <1>1, <2>1 DEF CoreType, Threads
  <2>3. asked' = asked \/ asked' = [asked EXCEPT ![s] = Append(@, TicketW(0))]
    BY <1>a, <1>0, <1>4 DEF OnConnected, AskType, TicketW
  <2>4. TicketW(0) \in Requests \cup {<<>>} /\ asked[s] \in Seq(Requests \cup {<<>>})
    BY <1>0, TicketRequest DEF AskType
  <2>5. asked' \in [Sessions -> Seq(Requests \cup {<<>>})]
    <3>1. Append(asked[s], TicketW(0)) \in Seq(Requests \cup {<<>>})
      BY <2>4
    <3> QED
      BY <1>0, <2>3, <3>1 DEF AskType
  <2>6. /\ next' \in [BOOLEAN -> Nat] /\ sent' \in [Sessions -> Requests \cup {<<>>}]
        /\ reply' \in [Sessions -> Requests \cup {<<>>}]
        /\ samples' \in Seq(Pairs) /\ signaled' \in Requests \cup {<<>>}
        /\ runningMeasured' \in BOOLEAN /\ late' \in BOOLEAN /\ (run' = "wait" => mode = "seq")
    BY <1>0, <1>1 DEF AskType
  <2>7. AskType'
    BY <1>0, <1>1, <2>2, <2>5, <2>6, TypeStep
  <2>8. SeqInv' /\ OtherInv'
    BY <1>1, <1>4 DEF AskInv, SeqInv, OtherInv
  <2> QED
    BY <1>1, <1>4, <2>7, <2>8, SingleStep
<1> QED
  BY <1>3, <1>4

(* FastPortClient sends back what it got. *)
LEMMA EchoStep ==
    ASSUME AskInv, CoreType, NEW t \in Threads, Echo(t)
    PROVE  AskInv'
<1> USE DEF HandlerOnly, mainVars, runVars, Goto
<1>a. PICK s \in Sessions, k \in {"c", "r"} : t = <<s, k>> /\ t[1] = s
  BY ThreadPair
<1>0. AskType
  BY DEF AskInv
<1>1. /\ k = "r" /\ pc' = [pc EXCEPT ![<<s, "r">>] = "rearm"] /\ mode = "client"
      /\ UNCHANGED <<next, done, reply, samples, runningMeasured, signaled, late, mode, results, run>>
  BY <1>a DEF Echo, CoreType, CLabels
<1>2. \A u \in Sessions : Label(u)' = Label(u) \/ Label(u)' \in {"packet", "idle", "guard", "rearm"}
  BY <1>1 DEF CoreType, Threads
<1>3. reply[s] \in Requests \cup {<<>>}
  BY <1>0 DEF AskType
<1>4. Posted(s, reply[s])
  BY <1>a, <1>0 DEF Echo, Send, Posted, AskType
<1>5. /\ sent' \in [Sessions -> Requests \cup {<<>>}]
      /\ asked' \in [Sessions -> Seq(Requests \cup {<<>>})]
  BY <1>0, <1>3, <1>4, PostedType
<1>6. /\ next' \in [BOOLEAN -> Nat] /\ reply' \in [Sessions -> Requests \cup {<<>>}]
      /\ samples' \in Seq(Pairs) /\ signaled' \in Requests \cup {<<>>}
      /\ runningMeasured' \in BOOLEAN /\ late' \in BOOLEAN /\ (run' = "wait" => mode = "seq")
  BY <1>0, <1>1 DEF AskType
<1>7. AskType'
  BY <1>0, <1>1, <1>2, <1>5, <1>6, TypeStep
<1>8. SeqInv' /\ OtherInv'
  BY <1>1 DEF AskInv, SeqInv, OtherInv
<1> QED
  BY <1>1, <1>7, <1>8, SingleStep

(* seq: the waiter gets the response to the request it waits for, as long   *)
(* as no wait has timed out.                                                *)
LEMMA SignalStep ==
    ASSUME AskInv, Core, NEW t \in Threads, Signal(t)
    PROVE  AskInv'
<1> USE DEF HandlerStep, HandlerOnly, mainVars, runVars, Goto
<1>a. PICK s \in Sessions, k \in {"c", "r"} : t = <<s, k>> /\ t[1] = s
  BY ThreadPair
<1>0. AskType /\ CoreType /\ RunInv
  BY DEF AskInv, Core
<1>1. /\ k = "r" /\ t = <<s, "r">> /\ Label(s) = "packet" /\ mode = "seq"
      /\ pc' = [pc EXCEPT ![<<s, "r">>] = "rearm"]
      /\ signaled' = IF signaled = <<>> THEN reply[s] ELSE signaled
      /\ UNCHANGED <<next, done, sent, asked, reply, samples, runningMeasured, late, mode, results, run>>
  BY <1>a, <1>0 DEF Signal, CoreType, CLabels, askVars
<1>2. Label(s)' = "rearm" /\ \A u \in Sessions \ {s} : Label(u)' = Label(u)
  BY <1>0, <1>1 DEF CoreType, Threads
<1>3. signaled' \in Requests \cup {<<>>}
  BY <1>0, <1>1 DEF AskType
<1>4. /\ next' \in [BOOLEAN -> Nat] /\ reply' \in [Sessions -> Requests \cup {<<>>}]
      /\ sent' \in [Sessions -> Requests \cup {<<>>}]
      /\ asked' \in [Sessions -> Seq(Requests \cup {<<>>})]
      /\ samples' \in Seq(Pairs) /\ runningMeasured' \in BOOLEAN /\ late' \in BOOLEAN
      /\ run' = "wait" => mode = "seq"
  BY <1>0, <1>1 DEF AskType
<1>5. AskType'
  <2>1. \A u \in Sessions : Label(u)' = Label(u) \/ Label(u)' \in {"packet", "idle", "guard", "rearm"}
    BY <1>2
  <2> QED
    BY <1>0, <1>1, <1>3, <1>4, <2>1, TypeStep
<1>6. SeqInv'
  <2> SUFFICES ASSUME late = FALSE PROVE SeqInv'
    BY <1>1 DEF SeqInv
  <2>1. s = First
    BY <1>0, <1>1 DEF RunInv, Fresh, Still, Used, Multi
  <2>2. Open(First)
    BY <1>1, <2>1 DEF Open
  <2>3. run = "wait" /\ asked[First] = <<>> /\ reply[First] = sent[First] /\ signaled = <<>>
    BY <1>1, <2>1, <2>2 DEF AskInv, SeqInv
  <2>4. signaled' = sent[First] /\ ~Open(First)' /\ Label(First)' = "rearm"
    BY <1>1, <1>2, <2>1, <2>3 DEF Open
  <2>5. \A i \in 1..Len(samples) : samples[i][1] = samples[i][2]
    BY <1>1 DEF AskInv, SeqInv
  <2> QED
    BY <1>1, <2>3, <2>4, <2>5 DEF SeqInv
<1>7. OtherInv'
  BY <1>1 DEF OtherInv
<1> QED
  BY <1>1, <1>5, <1>6, <1>7, SingleStep

(* seq: the next request, or the end of the loop. *)
LEMMA AskOneStep ==
    ASSUME AskInv, CoreType, AskOne
    PROVE  AskInv'
<1> USE DEF mainVars, outVars, At, Then, RunnerOnly
<1>0. /\ AskType /\ mode = "seq" /\ run = "ask" /\ First \in Sessions
      /\ UNCHANGED <<done, reply, samples, runningMeasured, late, mode, results, pc>>
  BY BenchmarkAssumption DEF AskInv, AskOne
<1>1. \/ /\ UNCHANGED <<next, sent, asked, signaled>> /\ run' # "wait"
      \/ /\ ~AllAsked(runningMeasured) /\ next' = [next EXCEPT ![runningMeasured] = @ + 1]
         /\ Send(First, <<runningMeasured, next[runningMeasured]>>)
         /\ signaled' = <<>> /\ run' = "wait"
  BY DEF AskOne
<1>2. CASE UNCHANGED <<next, sent, asked, signaled>> /\ run' # "wait"
  <2>1. EaseStep
    BY <1>0, <1>2, EaseSame DEF Eased, askVars
  <2> QED
    BY <1>0, <1>2, <2>1, EasedInv
<1>3. CASE /\ ~AllAsked(runningMeasured) /\ next' = [next EXCEPT ![runningMeasured] = @ + 1]
           /\ Send(First, <<runningMeasured, next[runningMeasured]>>)
           /\ signaled' = <<>> /\ run' = "wait"
  <2>1. PICK q \in Requests \cup {<<>>} : Send(First, q) /\ next' \in [BOOLEAN -> Nat]
    <3>1. runningMeasured = TRUE \/ runningMeasured = FALSE
      BY <1>0 DEF AskType
    <3>2. CASE runningMeasured = TRUE
      <4>1. /\ ~(nextM >= iterations) /\ next' = [next EXCEPT ![TRUE] = @ + 1]
            /\ Send(First, TicketM(nextM))
        BY <1>3, <3>2, TargetFacts, Zenon DEF AllAsked, nextM, TicketM
      <4>2. TicketM(nextM) \in Requests
        BY <1>0, <4>1, AskNat, TicketRequest
      <4> QED
        BY <1>0, <4>1, <4>2, NextNumbered
    <3>3. CASE runningMeasured = FALSE
      <4>1. /\ ~(nextW >= goalW) /\ next' = [next EXCEPT ![FALSE] = @ + 1]
            /\ Send(First, TicketW(nextW))
        BY <1>3, <3>3, Zenon DEF AllAsked, nextW, TicketW, goalW
      <4>2. TicketW(nextW) \in Requests
        BY <1>0, <4>1, AskNat, TicketRequest
      <4> QED
        BY <1>0, <4>1, <4>2, NextNumbered
    <3> QED
      BY <3>1, <3>2, <3>3
  <2>2. Posted(First, q)
    BY <1>0, <2>1 DEF Send, Posted, AskType
  <2>3. /\ sent' \in [Sessions -> Requests \cup {<<>>}]
        /\ asked' \in [Sessions -> Seq(Requests \cup {<<>>})]
    BY <1>0, <2>2, PostedType
  <2>4. /\ reply' \in [Sessions -> Requests \cup {<<>>}] /\ samples' \in Seq(Pairs)
        /\ signaled' \in Requests \cup {<<>>} /\ runningMeasured' \in BOOLEAN /\ late' \in BOOLEAN
        /\ \A u \in Sessions : Label(u)' = Label(u)
    BY <1>0, <1>3 DEF AskType
  <2>5. AskType'
    BY <1>0, <2>1, <2>3, <2>4, TypeStep
  <2>6. SeqInv'
    <3> SUFFICES ASSUME late = FALSE PROVE SeqInv'
      BY <1>0 DEF SeqInv
    <3>1. ~Open(First) /\ \A i \in 1..Len(samples) : samples[i][1] = samples[i][2]
      BY <1>0 DEF AskInv, SeqInv
    <3>2. asked[First] = <<>> /\ Label(First)' # "packet"
      BY <1>0, <3>1 DEF Open
    <3>3. sent'[First] = q /\ (asked'[First] = <<>> \/ asked'[First] = <<q>>)
      BY <1>0, <2>2, <3>2 DEF Posted, AskType
    <3> QED
      BY <1>0, <1>3, <3>1, <3>2, <3>3 DEF SeqInv
  <2>7. OtherInv'
    BY <1>0 DEF OtherInv
  <2> QED
    BY <1>0, <2>5, <2>6, <2>7, SingleStep
<1> QED
  BY <1>1, <1>2, <1>3

(* seq: the wait ends with a response, which is sampled, or times out. *)
LEMMA WaitOneStep ==
    ASSUME AskInv, CoreType, WaitOne
    PROVE  AskInv'
<1> USE DEF mainVars, outVars, At, Then, RunnerOnly
<1>0. /\ AskType /\ run = "wait" /\ run' = "ask" /\ First \in Sessions
      /\ UNCHANGED <<next, done, sent, asked, reply, runningMeasured, signaled, mode, pc>>
  BY BenchmarkAssumption DEF AskInv, WaitOne
<1>1. mode = "seq"
  BY <1>0 DEF AskType
<1>2. /\ samples' = samples \/ samples' = Append(samples, <<sent[First], signaled>>)
      /\ late' = (late \/ signaled = <<>>)
  BY DEF WaitOne
<1>3. <<sent[First], signaled>> \in Pairs /\ samples \in Seq(Pairs)
  BY <1>0 DEF AskType, Pairs
<1>4. samples' \in Seq(Pairs) /\ late' \in BOOLEAN
  BY <1>2, <1>3
<1>5. AskType'
  <2>1. /\ next' \in [BOOLEAN -> Nat] /\ sent' \in [Sessions -> Requests \cup {<<>>}]
        /\ asked' \in [Sessions -> Seq(Requests \cup {<<>>})]
        /\ reply' \in [Sessions -> Requests \cup {<<>>}]
        /\ signaled' \in Requests \cup {<<>>} /\ runningMeasured' \in BOOLEAN
        /\ \A u \in Sessions : Label(u)' = Label(u)
    BY <1>0 DEF AskType
  <2> QED
    BY <1>0, <1>4, <2>1, TypeStep
<1>6. SeqInv'
  <2> SUFFICES ASSUME late' = FALSE PROVE SeqInv'
    BY DEF SeqInv
  <2>1. late = FALSE /\ signaled # <<>>
    BY <1>0, <1>2 DEF AskType
  <2>2. /\ signaled = sent[First] /\ ~Open(First)
        /\ \A i \in 1..Len(samples) : samples[i][1] = samples[i][2]
    BY <1>0, <1>1, <2>1 DEF AskInv, SeqInv
  <2>3. ~Open(First)'
    BY <1>0, <2>2 DEF Open
  <2>4. \A i \in 1..Len(samples') : samples'[i][1] = samples'[i][2]
    <3>1. CASE samples' = samples
      BY <2>2, <3>1
    <3>2. CASE samples' = Append(samples, <<sent[First], signaled>>)
      <4>1. /\ Len(samples') = Len(samples) + 1 /\ Len(samples) \in Nat
            /\ samples'[Len(samples) + 1] = <<sent[First], signaled>>
            /\ \A i \in 1..Len(samples) : samples'[i] = samples[i]
        BY <1>3, <3>2
      <4>2. \A i \in 1..Len(samples) + 1 : i = Len(samples) + 1 \/ i \in 1..Len(samples)
        BY <4>1
      <4>3. samples'[Len(samples) + 1][1] = samples'[Len(samples) + 1][2]
        BY <2>2, <4>1
      <4> QED
        BY <2>2, <4>1, <4>2, <4>3
    <3> QED
      BY <1>2, <3>1, <3>2
  <2> QED
    BY <1>0, <2>3, <2>4 DEF SeqInv
<1>7. OtherInv'
  BY <1>0, <1>1 DEF OtherInv
<1> QED
  BY <1>0, <1>1, <1>5, <1>6, <1>7, SingleStep

(* Nothing is asked before main starts the runner. *)
LEMMA AskInit == Init => AskInv
<1> SUFFICES ASSUME Init PROVE AskInv
  OBVIOUS
<1>1. /\ next = [m \in BOOLEAN |-> 0] /\ done = [m \in BOOLEAN |-> 0]
      /\ sent = [s \in Sessions |-> <<>>] /\ reply = [s \in Sessions |-> <<>>]
      /\ asked = [s \in Sessions |-> <<>>] /\ samples = <<>> /\ signaled = <<>>
      /\ runningMeasured = FALSE /\ late = FALSE /\ run = "off" /\ results = 0
  BY DEF Init
<1>2. nextM = 0 /\ nextW = 0 /\ doneM = 0 /\ doneW = 0
  <2>1. TRUE \in BOOLEAN /\ FALSE \in BOOLEAN
    OBVIOUS
  <2> QED
    BY <1>1, <2>1, Zenon DEF nextM, nextW, doneM, doneW
<1>3. \A s \in Sessions : Label(s) = "idle" /\ asked[s] = <<>> /\ ~Open(s)
  BY <1>1 DEF Init, OutInit, Threads, Open
<1>4. ~Measuring /\ goalW \in Nat /\ OpenSet = {} /\ Sampled = {} /\ Len(samples) = 0
  BY <1>1, <1>3, TargetFacts DEF Measuring, OpenSet, Sampled, goalW
<1>5. next \in [BOOLEAN -> Nat] /\ done \in [BOOLEAN -> Nat]
  BY <1>1
<1>6. /\ asked \in [Sessions -> Seq(Requests \cup {<<>>})] /\ samples \in Seq(Pairs)
      /\ sent \in [Sessions -> Requests \cup {<<>>}] /\ reply \in [Sessions -> Requests \cup {<<>>}]
      /\ signaled \in Requests \cup {<<>>} /\ runningMeasured \in BOOLEAN /\ late \in BOOLEAN
  <2>1. <<>> \in Requests \cup {<<>>} /\ <<>> \in Seq(Requests \cup {<<>>}) /\ <<>> \in Seq(Pairs)
    BY EmptySeq
  <2>2. FALSE \in BOOLEAN
    OBVIOUS
  <2> QED
    BY <1>1, <2>1, <2>2, Zenon
<1>7. AskType
  BY <1>1, <1>2, <1>3, <1>5, <1>6 DEF AskType
<1>8. WarmCount
  BY <1>1, <1>2, <1>4, FS_EmptySet DEF WarmCount
<1>9. Tickets
  <2>1. Cardinality(Sampled) = 0
    BY <1>4, FS_EmptySet
  <2>2. 1..Len(samples) = {}
    BY <1>4
  <2>3. doneM + Cardinality(Sampled) <= Len(samples)
    BY <1>2, <1>4, <2>1
  <2> QED
    BY <1>3, <2>2, <2>3 DEF Tickets
<1>10. PhaseInv
  BY <1>1, <1>3, <1>4 DEF PhaseInv, NoneOpen
<1>11. \A s \in Sessions : AskOf(s)
  BY <1>3 DEF AskOf
<1>12. SeqInv
  <2>1. 1..Len(samples) = {}
    BY <1>4
  <2>2. ~Open(First) /\ run # "wait"
    BY <1>1, <1>3, BenchmarkAssumption
  <2> QED
    BY <2>1, <2>2 DEF SeqInv
<1> QED
  BY <1>1, <1>7, <1>8, <1>9, <1>10, <1>11, <1>12 DEF AskInv, MultiInv, OtherInv

(* A step of a process that has not failed. *)
LEMMA AskAlive ==
    ASSUME AskInv, CtlInv, Core, [Next]_vars
    PROVE  AskInv'
<1>0. CoreType /\ (main = "start" => run = "off")
  BY DEF Core, CtlInv
<1>1. CASE Runner
  BY <1>0, <1>1, QuietRunnerSteps, MeasureStep, AskStep, WaitDoneStep, AskOneStep, WaitOneStep
     DEF Runner
<1>2. CASE Start
  BY <1>0, <1>2, QuietRunnerSteps
<1>3. CASE Stop \/ Exit \/ UNCHANGED vars \/ \E t \in Sessions \cup {"run"} : StoreState(t)
  BY <1>0, <1>3, QuietRest
<1>4. CASE \E t \in Threads : Io(t)
  <2>1. PICK t \in Threads : Io(t)
    BY <1>4
  <2>2. CASE (Handler(t) /\ AppUnchanged) \/ OnDisconnected(t)
    BY <1>0, <2>2, QuietRest
  <2>3. CASE ~((Handler(t) /\ AppUnchanged) \/ OnDisconnected(t))
    BY <1>0, <2>1, <2>3, HelloStep, OnPacketReceivedStep, CountSampleStep, AskAgainStep,
       SignalStep, EchoStep DEF Io
  <2> QED
    BY <2>2, <2>3
<1>5. CASE \E s \in Sessions : Network(s)
  BY <1>0, <1>5, QuietRest
<1>6. CASE \E s \in Sessions : Response(s)
  BY <1>6, ResponseStep
<1> QED
  BY <1>1, <1>2, <1>3, <1>4, <1>5, <1>6 DEF Next

(* A failed process takes no step: only main may not have begun. *)
LEMMA AskDead ==
    ASSUME AskInv, CtlInv, failure # "none", [Next]_vars
    PROVE  AskInv'
<1>1. Start \/ UNCHANGED vars
  <2>1. ~Alive
    BY DEF Alive
  <2>2. ~Runner
    BY <2>1 DEF Runner, Begin, Connect, Throw, WaitConnected, Warmup, Running, Measure, Ask,
                WaitDone, AskOne, WaitOne, Results, Completed, Drain, AwaitDrain, Drained, At
  <2> QED
    BY <2>1, <2>2 DEF Next, Stop, Exit, StoreState, Io, Network, Response
<1>2. CASE Start
  BY <1>2, QuietRunner DEF Start, outVars, flagVars, CtlInv, Early, Late
<1>3. CASE UNCHANGED vars
  <2>1. UNCHANGED <<askVars, runningMeasured, late, mode, signaled, results, pc, run, todo>>
    BY <1>3 DEF vars, outVars, flagVars, runVars, mainVars
  <2>2. EaseStep
    BY <2>1, EaseSame DEF AskInv, Eased
  <2>3. /\ (Measuring' <=> Measuring) /\ goalW' = goalW /\ doneM' = doneM /\ doneW' = doneW
        /\ asked' = asked
    BY <2>1, GoalSame DEF Measuring, doneM, doneW, askVars
  <2>4. \A s : (NoneOpen(s)' <=> NoneOpen(s)) /\ Label(s)' = Label(s)
    BY <2>1, <2>3 DEF NoneOpen
  <2>5. PhaseInv => PhaseInv'
    BY <2>1, <2>3, <2>4 DEF PhaseInv
  <2> QED
    BY <2>1, <2>2, <2>5, EasedInv DEF AskInv, MultiInv
<1> QED
  BY <1>1, <1>2, <1>3

(* AskInv is inductive, with CtlInv and CoreInv.                            *)
LEMMA AskNext ==
    ASSUME AskInv, CtlInv, CoreInv, [Next]_vars
    PROVE  AskInv'
BY AskAlive, AskDead DEF CoreInv

(* What the requests of the benchmark keep to: Spec => []AskInv. *)
THEOREM RequestInvariant == Spec => [](CoreInv /\ CtlInv /\ AskInv)
<1>1. Init => CtlInv /\ AskInv
  BY CtlInit, AskInit
<1>2. CoreInv /\ CtlInv /\ AskInv /\ [Next]_vars => CtlInv' /\ AskInv'
  BY CtlNext, AskNext
<1>3. Spec => []CoreInv
  BY BenchmarkInvariant
<1> QED
  BY <1>1, <1>2, <1>3, PTL DEF Spec

(* The invariant gives SampleOwn: in multi a sample pairs one ticket with   *)
(* itself, in seq the waiter got the response it waited for.                *)
LEMMA SampleOwnHolds ==
    ASSUME AskInv
    PROVE  SampleOwn
<1> SUFFICES ASSUME ~late, NEW i \in DOMAIN samples PROVE samples[i][1] = samples[i][2]
  BY DEF SampleOwn
<1>1. samples \in Seq(Pairs) /\ late = FALSE
  BY DEF AskInv, AskType
<1>2. DOMAIN samples = 1..Len(samples)
  BY <1>1, LenProperties
<1>3. i \in 1..Len(samples)
  BY <1>2
<1>4. CASE mode = "multi"
  <2>1. PICK k \in Nat : samples[i] = <<TicketM(k), TicketM(k)>>
    BY <1>3, <1>4 DEF AskInv, MultiInv, Tickets, SampleAt
  <2> QED
    BY <2>1
<1>5. CASE mode = "seq"
  BY <1>1, <1>3, <1>5 DEF AskInv, SeqInv
<1>6. CASE mode \notin {"seq", "multi"}
  <2>1. samples = <<>>
    BY <1>6 DEF AskInv, OtherInv
  <2>2. 1..Len(samples) = {}
    BY <2>1
  <2> QED
    BY <1>3, <2>2
<1> QED
  BY <1>4, <1>5, <1>6

(* multi: samples are of different tickets below the number of iterations,  *)
(* so there are not more than that; if there are as many, each ticket has   *)
(* one.                                                                     *)
LEMMA SamplePigeons ==
    ASSUME AskType, Tickets
    PROVE  /\ Len(samples) \in Nat /\ Len(samples) <= iterations
           /\ Len(samples) = iterations =>
                \A m \in 0..iterations - 1 : \E i \in DOMAIN samples : samples[i][2] = TicketM(m)
<1> DEFINE N == Len(samples)
           S == 1..N
           T == 0..iterations - 1
           f == [i \in S |-> samples[i][2][2]]
<1>1. samples \in Seq(Pairs) /\ N \in Nat /\ DOMAIN samples = S
  BY LenProperties DEF AskType
<1>2. iterations \in Nat /\ iterations # 0
  BY TargetFacts
<1>3. IsFiniteSet(T) /\ Cardinality(T) = iterations
  <2>1. 0 \in Int /\ iterations - 1 \in Int /\ ~(0 > iterations - 1) /\ iterations - 1 - 0 + 1 = iterations
    BY <1>2
  <2> QED
    BY <2>1, FS_Interval
<1>4. Cardinality(S) = N
  <2>1. 1 \in Int /\ N \in Int /\ (1 > N => N = 0) /\ N - 1 + 1 = N
    BY <1>1
  <2> QED
    BY <2>1, FS_Interval
<1>5. ASSUME NEW i \in S
      PROVE  \E k \in T : samples[i][2] = TicketM(k) /\ f[i] = k
  <2>1. PICK k \in Nat : samples[i] = <<TicketM(k), TicketM(k)>> /\ k < iterations
    BY DEF Tickets, SampleAt
  <2>2. samples[i][2] = TicketM(k) /\ k \in T
    BY <1>2, <2>1
  <2>3. f[i] = k
    BY <2>2, TicketFacts
  <2> QED
    BY <2>2, <2>3
<1>6. f \in Injection(S, T)
  <2>1. f \in [S -> T]
    BY <1>5
  <2>2. ASSUME NEW i \in S, NEW j \in S, f[i] = f[j] PROVE i = j
    <3>1. samples[i][2] = samples[j][2]
      BY <1>5, <2>2
    <3> QED
      BY <3>1 DEF Tickets
  <2> HIDE DEF f, S, T
  <2> QED
    BY <2>1, <2>2 DEF Injection, IsInjective
<1>7. /\ Cardinality(S) <= Cardinality(T)
      /\ Cardinality(S) = Cardinality(T) => f \in Surjection(S, T)
  <2> HIDE DEF f, S, T
  <2> QED
    BY <1>3, <1>6, FS_Injection
<1>8. N <= iterations
  BY <1>3, <1>4, <1>7
<1>9. ASSUME N = iterations, NEW m \in T
      PROVE  \E i \in DOMAIN samples : samples[i][2] = TicketM(m)
  <2>1. f \in Surjection(S, T)
    BY <1>3, <1>4, <1>7, <1>9
  <2>2. PICK i \in S : f[i] = m
    <3> HIDE DEF f, S, T
    <3> QED
      BY <1>9, <2>1 DEF Surjection
  <2>3. samples[i][2] = TicketM(m)
    BY <1>5, <2>2
  <2> QED
    BY <1>1, <2>3
<1> QED
  BY <1>1, <1>8, <1>9

(* The invariants give AllMeasured. *)
LEMMA AllMeasuredHolds ==
    ASSUME CtlInv, AskInv
    PROVE  AllMeasured
<1>1. ASSUME Multi, results > 0
      PROVE  /\ Len(samples) = iterations
             /\ \A m \in 0..iterations - 1 : \E i \in DOMAIN samples : samples[i][2] = TicketM(m)
  <2>1. results = 1 /\ mode = "multi"
    BY <1>1 DEF CtlInv, Multi
  <2>2. AskType /\ Tickets /\ PhaseInv
    BY <2>1 DEF AskInv, MultiInv
  <2>3. doneM >= iterations
    BY <2>1, <2>2 DEF PhaseInv
  <2>4. doneM + Cardinality(Sampled) <= Len(samples)
    BY <2>2 DEF Tickets
  <2>5. Cardinality(Sampled) \in Nat
    BY TargetFacts, FS_Subset, FS_CardinalityType DEF Sampled
  <2>6. /\ Len(samples) \in Nat /\ Len(samples) <= iterations
        /\ Len(samples) = iterations =>
             \A m \in 0..iterations - 1 : \E i \in DOMAIN samples : samples[i][2] = TicketM(m)
    BY <2>2, SamplePigeons
  <2>7. Len(samples) = iterations
    BY <2>2, <2>3, <2>4, <2>5, <2>6, AskNat
  <2> QED
    BY <2>6, <2>7
<1>2. main = "returned" /\ completed => results = 1
  BY DEF CtlInv
<1> QED
  BY <1>1, <1>2 DEF AllMeasured, TicketM

(* At most three operations of a session are outstanding: the receive it    *)
(* has pending and its two handlers.                                        *)
CountBound == \A s \in Sessions : m_OutstandingIoCount[s] \in 0..3

(* What the session invariant says of the count.                            *)
LEMMA CoreBounds ==
    ASSUME Core
    PROVE  CountBound
<1> SUFFICES ASSUME NEW s \in Sessions PROVE m_OutstandingIoCount[s] \in 0..3
  BY DEF CountBound
<1>1. CountOf(s) /\ StageOf(s)
  BY DEF Core, SessionInv
<1>2. \A b : One(b) \in {0, 1}
  BY DEF One
<1>3. CASE "connect" \in kernel[s]
  <2>1. "recv" \notin kernel[s] /\ ~Busy(<<s, "c">>) /\ ~Busy(<<s, "r">>)
    BY <1>1, <1>3 DEF StageOf, Busy
  <2>2. One("recv" \in kernel[s]) = 0 /\ One(Busy(<<s, "c">>)) = 0 /\ One(Busy(<<s, "r">>)) = 0
    BY <2>1 DEF One
  <2> QED
    BY <1>1, <1>2, <2>2 DEF CountOf
<1>4. CASE "connect" \notin kernel[s]
  <2>1. One("connect" \in kernel[s]) = 0
    BY <1>4 DEF One
  <2> QED
    BY <1>1, <1>2, <2>1 DEF CountOf
<1> QED
  BY <1>3, <1>4

(* No step both fails and counts an operation. *)
LEMMA FailsUncounted ==
    ASSUME [Next]_vars
    PROVE  failure' = failure \/ m_OutstandingIoCount' = m_OutstandingIoCount
<1> USE DEF outVars, ioVars
<1>1. CASE Start \/ Stop \/ Exit \/ UNCHANGED vars \/ \E t \in Sessions \cup {"run"} : StoreState(t)
  BY <1>1 DEF Start, Stop, Exit, StoreState, vars
<1>2. CASE Runner
  <2>1. CASE Drain
    BY <2>1 DEF Drain
  <2>2. CASE Connect
    BY <2>2 DEF Connect, ConnectPosted, ConnectRefused, ConnectNull
  <2>3. CASE Throw \/ WaitConnected \/ WaitDone \/ Drained
    BY <2>3 DEF Throw, WaitConnected, WaitDone, Drained, Return
  <2>4. CASE Begin \/ Warmup \/ Running \/ Measure \/ Ask \/ AskOne \/ WaitOne \/ Results
             \/ Completed \/ AwaitDrain
    BY <2>4 DEF Begin, Warmup, Running, Measure, Ask, AskOne, WaitOne, Results, Completed,
                AwaitDrain, RunnerOnly
  <2> QED
    BY <1>2, <2>1, <2>2, <2>3, <2>4 DEF Runner
<1>3. CASE \E t \in Threads : Io(t)
  <2>1. PICK t \in Threads : Io(t)
    BY <1>3
  <2>2. CASE Handler(t)
    BY <2>2 DEF Handler, PostRecv, Activate, Guard, Fire
  <2>3. CASE OnConnected(t) \/ OnDisconnected(t) \/ Echo(t)
    BY <2>3 DEF OnConnected, OnDisconnected, Echo
  <2>4. CASE OnPacketReceived(t) \/ CountSample(t) \/ AskAgain(t) \/ Signal(t)
    BY <2>4 DEF OnPacketReceived, CountSample, AskAgain, Signal, HandlerStep
  <2> QED
    BY <2>1, <2>2, <2>3, <2>4 DEF Io
<1>4. CASE \E s \in Sessions : Network(s) \/ Response(s)
  BY <1>4 DEF Network, Completion, ConnectDone, RecvLost, Response, RecvFrame
<1> QED
  BY <1>1, <1>2, <1>3, <1>4 DEF Next

(* CountBound is inductive, with CoreInv: the step that kills the process   *)
(* counts nothing.                                                          *)
LEMMA CountsBounded ==
    ASSUME CountBound, failure = "none" => Core, [Next]_vars, (failure = "none" => Core)'
    PROVE  CountBound'
<1>1. CASE m_OutstandingIoCount' = m_OutstandingIoCount
  BY <1>1 DEF CountBound
<1>2. CASE failure' = failure /\ failure = "none"
  <2>1. Core'
    BY <1>2
  <2>2. Core' => CountBound'
    BY CoreBounds, PTL
  <2> QED
    BY <2>1, <2>2
<1>3. CASE failure # "none"
  <2>1. ~Alive
    BY <1>3 DEF Alive
  <2>2. ~Runner
    BY <2>1 DEF Runner, Begin, Connect, Throw, WaitConnected, Warmup, Running, Measure, Ask,
                WaitDone, AskOne, WaitOne, Results, Completed, Drain, AwaitDrain, Drained, At
  <2>3. Start \/ UNCHANGED vars
    BY <2>1, <2>2 DEF Next, Stop, Exit, StoreState, Io, Network, Response
  <2>4. m_OutstandingIoCount' = m_OutstandingIoCount
    BY <2>3 DEF Start, vars, outVars, ioVars
  <2> QED
    BY <1>1, <2>4
<1> QED
  BY <1>1, <1>2, <1>3, FailsUncounted

(* Nothing is counted at the start.                                         *)
LEMMA CountInit == Init => CountBound
BY DEF Init, OutInit, CountBound

(* The invariants give TypeOK.                                              *)
LEMMA TypeHolds ==
    ASSUME CtlInv, AskInv, CountBound
    PROVE  TypeOK
<1>0. AskType
  BY DEF AskInv
<1>1. {m_State} \cup {setting[t] : t \in Sessions \cup {"run"}} \subseteq States
  BY DEF CtlInv
<1>2. \A s \in Sessions : sent[s] \in Requests \cup {<<>>} /\ reply[s] \in Requests \cup {<<>>}
  BY <1>0 DEF AskType
<1>3. doneM <= iterations /\ doneW <= goalW
  <2>1. CASE mode = "multi"
    <3>1. Tickets /\ WarmCount
      BY <2>1 DEF AskInv, MultiInv
    <3>2. doneM + Cardinality(Sampled) <= Len(samples)
      BY <3>1 DEF Tickets
    <3>3. Cardinality(Sampled) \in Nat
      BY TargetFacts, FS_Subset, FS_CardinalityType DEF Sampled
    <3>4. Len(samples) \in Nat /\ Len(samples) <= iterations
      BY <1>0, <3>1, SamplePigeons
    <3>5. doneM <= iterations
      BY <1>0, <3>2, <3>3, <3>4, AskNat
    <3> QED
      BY <3>1, <3>5 DEF WarmCount
  <2>2. CASE mode # "multi"
    BY <1>0, <2>2, AskNat DEF AskType
  <2> QED
    BY <2>1, <2>2
<1>4. doneM \in 0..iterations /\ doneW \in 0..goalW
  BY <1>0, <1>3, AskNat
<1>5. \A m \in BOOLEAN : done[m] \in 0..Target(m)
  <2>1. done[TRUE] \in 0..Target(TRUE) /\ done[FALSE] \in 0..Target(FALSE)
    BY <1>4, TargetFacts, Zenon DEF doneM, doneW, goalW
  <2>2. \A m \in BOOLEAN : m = TRUE \/ m = FALSE
    OBVIOUS
  <2> QED
    BY <2>1, <2>2, Zenon
<1>6. results \in 0..1
  BY DEF CtlInv
<1> QED
  BY <1>1, <1>2, <1>5, <1>6 DEF TypeOK, CountBound

(* TypeOK, for any number of sessions and iterations: counters of the       *)
(* measurement do not pass their targets and a session has at most three    *)
(* operations outstanding.                                                  *)
THEOREM BenchmarkTypes == Spec => []TypeOK
<1>1. CoreInv => (failure = "none" => Core)
  BY DEF CoreInv
<1>2. CountBound /\ CoreInv /\ [Next]_vars /\ CoreInv' => CountBound'
  <2>1. CoreInv' => (failure = "none" => Core)'
    BY DEF CoreInv
  <2> QED
    BY <1>1, <2>1, CountsBounded
<1>3. CtlInv /\ AskInv /\ CountBound => TypeOK
  BY TypeHolds
<1> QED
  BY <1>2, <1>3, CountInit, RequestInvariant, PTL DEF Spec

(* SampleOwn, whatever the order of requests, responses and warm-up: a      *)
(* measured time is that of a request and of its own response.              *)
THEOREM SamplesAreOwn == Spec => []SampleOwn
BY RequestInvariant, SampleOwnHolds, PTL

(* AllMeasured: the reported results hold each ticket exactly once, and     *)
(* main does not return 0 without them.                                     *)
THEOREM AllAreMeasured == Spec => []AllMeasured
BY RequestInvariant, AllMeasuredHolds, PTL
=============================================================================
