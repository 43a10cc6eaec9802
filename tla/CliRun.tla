------------------------------- MODULE CliRun -------------------------------
(***************************************************************************)
(* A run of the CLI, cmd/go-speedtest-cli/main.go: server information,     *)
(* ping, download, upload, the push of the result and its output, one      *)
(* after the other in the main goroutine.  A transfer phase enters by what *)
(* CliTransfer shows of it: its streams end, and it succeeds or fails.     *)
(* While it runs, a second goroutine may print its progress.               *)
(*                                                                         *)
(* The server answers, fails or stays silent as it likes; a request given  *)
(* up by the client may still reach it.                                    *)
(***************************************************************************)
EXTENDS TestPlan, PingStats, Sequences, Functions

CONSTANTS
  Config,       \* configurations of a server of this version
  Foreign,      \* what other servers answer
  FlagOffer,    \* the flags that override a plan: functions of parameters
  Rtt           \* round-trip times

ASSUME CliRunAssumption ==
  /\ DefaultPingSamples \in Nat \ {0} /\ Rtt \subseteq Nat
  /\ Foreign \subseteq [Parameter -> Int]
  /\ \A c \in Config :
       /\ c.samples \in Nat \ {0}
       /\ \A p \in Streams : c[p] \in MinConfigurableStreams .. MaxConfigurableStreams
  /\ \A f \in FlagOffer :
       /\ DOMAIN f \subseteq {"duration"} \cup Streams
       /\ \A p \in DOMAIN f : f[p] > 0
       /\ \A p \in Streams \cap DOMAIN f :
            f[p] \in MinConfigurableStreams .. MaxConfigurableStreams

VARIABLES
  opt,      \* the options
  plan,     \* those of them that the server may name
  told,     \* history: the configuration of the server that answered
  step,     \* what the main goroutine is doing
  i,        \* the index of a loop over the ping samples
  ps,       \* the PingStats
  seen,     \* history: the samples in them
  page,     \* history: what addSample of worker.js makes of the same samples
  res,      \* the parts of the result filled in
  failed,   \* run returned an error
  printer,  \* the progress goroutine of each transfer
  sent,     \* the push, as the server sees it
  accepted      \* the results the server has accepted for this run

pvars == <<ps, seen, page>>
planvars == <<opt, plan, told>>
rvars == <<planvars, step, i, pvars, res, failed, printer, sent, accepted>>

Transfer == {"download", "upload"}
Phase == {"ping"} \cup Transfer

Option == [phases : SUBSET Phase \ {{}}, push : BOOLEAN,
           progress : BOOLEAN, wsPing : BOOLEAN, flags : FlagOffer]

Step == {"info", "dial", "echo", "request", "push", "output", "done"}
          \cup Transfer

Sample == [over : {"echo", "request"}, i : Nat, rtt : Rtt]

NoConfig == [none |-> TRUE]

RunTypeOK ==
  /\ opt \in Option
  /\ step \in Step
  /\ DOMAIN plan = Parameter /\ told \in Config \cup {NoConfig}
  /\ i \in 0 .. plan.samples
  /\ ps \in Stats /\ ps.count = Len(seen)
  /\ page \in WorkerStats
  /\ seen \in Seq(Sample)
  /\ res \subseteq Phase
  /\ failed \in BOOLEAN
  /\ printer \in [Transfer -> {"off", "select", "told", "closed"}]
  /\ sent \in {"no", "sent", "accepted", "refused"}
  /\ accepted \in Seq(SUBSET Phase)

\* The flags must leave a phase to run; the zero serverInfo has no socket.
RunInit ==
  /\ opt \in {o \in Option : ~ o.wsPing}
  /\ plan = Default /\ told = NoConfig
  /\ step = "info"
  /\ i = 0
  /\ ps = NewPingStats /\ seen = <<>> /\ page = NewWorkerPing
  /\ res = {}
  /\ failed = FALSE
  /\ printer = [p \in Transfer |-> "off"]
  /\ sent = "no"
  /\ accepted = <<>>

----------------------------------------------------------------------------
\* Where run() goes when the phases in past are behind it.
Following(past, o) ==
  LET left == o.phases \ past IN
  CASE "ping" \in left     -> IF o.wsPing THEN "dial" ELSE "request"
    [] "ping" \notin left /\ "download" \in left -> "download"
    [] left = {"upload"}   -> "upload"
    [] left = {} /\ o.push -> "push"
    [] OTHER               -> "output"

\* The phases that are over once p is.
Upto(p) == CASE p = "ping" -> {"ping"}
             [] p = "download" -> {"ping", "download"}
             [] p = "upload" -> Phase

\* startProgress starts a goroutine; a push sends its request.
Enter(next) ==
  /\ step' = next
  /\ printer' = IF next \in Transfer /\ opt.progress
                THEN [printer EXCEPT ![next] = "select"] ELSE printer
  /\ sent' = IF next = "push" THEN "sent" ELSE sent

Succeed(p) == res' = res \cup {p} /\ Enter(Following(Upto(p), opt))

\* run returns an error: nothing is pushed, nothing printed.
Fail == step' = "done" /\ failed' = TRUE

----------------------------------------------------------------------------
\* resolveOptions, and on to the first phase.
Proceed(info, ws) ==
  /\ opt' = [opt EXCEPT !.wsPing = ws]
  /\ plan' = Resolved(info, opt.flags)
  /\ Enter(Following({}, opt'))

\* fetchInfo: any status but 200 leaves the zero serverInfo.
InfoAnswered ==
  /\ step = "info"
  /\ \/ \E c \in Config : Proceed(Info(c), TRUE) /\ told' = c
     \/ \E info \in Foreign, ws \in BOOLEAN : Proceed(info, ws) /\ told' = NoConfig
     \/ Proceed(NoInfo, FALSE) /\ told' = NoConfig
  /\ UNCHANGED <<i, pvars, res, failed, accepted>>

\* An error, an undecodable answer or the timeout.
InfoFails ==
  /\ step = "info"
  /\ Fail
  /\ UNCHANGED <<planvars, i, pvars, res, printer, sent, accepted>>

\* Each way of pinging starts from an empty PingStats.
StartPing(way) ==
  /\ step' = way /\ i' = 0
  /\ ps' = NewPingStats /\ seen' = <<>> /\ page' = NewWorkerPing

\* PingStats.Add of one round trip.
AddRtt(way) ==
  \E rtt \in Rtt :
    /\ ps' = PingAdd(ps, rtt) /\ page' = AddSample(page, rtt)
    /\ seen' = Append(seen, [over |-> way, i |-> i, rtt |-> rtt])

\* websocket.DialConfig takes neither a context nor a deadline.
Dialled ==
  /\ step = "dial"
  /\ StartPing("echo")
  /\ UNCHANGED <<planvars, res, failed, printer, sent, accepted>>

DialFails ==
  /\ step = "dial"
  /\ StartPing("request")
  /\ UNCHANGED <<planvars, res, failed, printer, sent, accepted>>

\* for i := 0; i < opt.pingSamples
Echo ==
  /\ step = "echo"
  /\ AddRtt("echo")
  /\ IF i + 1 < plan.samples
     THEN i' = i + 1 /\ UNCHANGED <<step, res, printer, sent>>
     ELSE Succeed("ping") /\ UNCHANGED i
  /\ UNCHANGED <<planvars, failed, accepted>>

\* Faulty variant: the fallback adds to the samples of the socket.
EchoFailsKeepingSamples ==
  /\ step = "echo"
  /\ step' = "request" /\ i' = 0
  /\ UNCHANGED <<planvars, pvars, res, failed, printer, sent, accepted>>

\* An error, or the deadline set anew for every sample.
EchoFails ==
  /\ step = "echo"
  /\ StartPing("request")
  /\ UNCHANGED <<planvars, res, failed, printer, sent, accepted>>

\* Faulty variant: one request more.
RequestsLeftOneMore == i <= plan.samples

\* for i := 0; i <= opt.pingSamples
RequestsLeft == i < plan.samples

\* The first request is a warm-up.
Request ==
  /\ step = "request"
  /\ IF i > 0 THEN AddRtt("request") ELSE UNCHANGED pvars
  /\ IF RequestsLeft
     THEN i' = i + 1 /\ UNCHANGED <<step, res, printer, sent>>
     ELSE Succeed("ping") /\ UNCHANGED i
  /\ UNCHANGED <<planvars, failed, accepted>>

\* Faulty variant: a request has no timeout, and any status will do.
RequestNeverFails == FALSE /\ UNCHANGED rvars

\* An error, the timeout of a request, or a status that is not 200.
RequestFails ==
  /\ step = "request"
  /\ Fail
  /\ UNCHANGED <<planvars, i, pvars, res, printer, sent, accepted>>

----------------------------------------------------------------------------
\* Faulty variant: a phase that failed counts as done.
VerdictIgnored(p) ==
  /\ \/ Succeed(p)
     \/ Enter(Following(Upto(p), opt)) /\ UNCHANGED res
  /\ UNCHANGED failed

\* What runDownload or runUpload returns.
Verdict(p) ==
  \/ Succeed(p) /\ UNCHANGED failed
  \/ Fail /\ UNCHANGED <<res, printer, sent>>

\* The streams are done, and no progress is printed.
PhaseOver(p) ==
  /\ step = p /\ printer[p] = "off"
  /\ Verdict(p)
  /\ UNCHANGED <<planvars, i, pvars, accepted>>

\* Faulty variant: stop only tells the goroutine to end.
StopWithoutWaiting(p) ==
  /\ step = p /\ printer[p] = "select"
  /\ LET next == Following(Upto(p), opt) IN
       /\ step' = next
       /\ printer' = [q \in Transfer |->
            CASE q = p -> "told"
              [] q = next /\ q # p -> "select"
              [] OTHER -> printer[q]]
       /\ sent' = IF next = "push" THEN "sent" ELSE sent
  /\ res' = res \cup {p}
  /\ UNCHANGED <<planvars, i, pvars, failed, accepted>>

\* stop(), first half: the two goroutines meet at the unbuffered channel.
StopTells(p) ==
  /\ step = p /\ printer[p] = "select"
  /\ printer' = [printer EXCEPT ![p] = "told"]
  /\ UNCHANGED <<planvars, step, i, pvars, res, failed, sent, accepted>>

\* The goroutine prints its last line and closes the channel.
LastLine(p) ==
  /\ printer[p] = "told"
  /\ printer' = [printer EXCEPT ![p] = "closed"]
  /\ UNCHANGED <<planvars, step, i, pvars, res, failed, sent, accepted>>

\* stop(), second half: the receive from the closed channel.
StopReturns(p) ==
  /\ step = p /\ printer[p] = "closed"
  /\ Verdict(p)
  /\ UNCHANGED <<planvars, i, pvars, accepted>>

----------------------------------------------------------------------------
\* The server handles the push, perhaps after the client has given it up.
ServerHandles ==
  /\ sent = "sent"
  /\ \/ sent' = "accepted" /\ accepted' = Append(accepted, res)
     \/ sent' = "refused" /\ UNCHANGED accepted
  /\ UNCHANGED <<planvars, step, i, pvars, res, failed, printer>>

\* 200 or 201 with an id.
PushAnswered ==
  /\ step = "push" /\ sent = "accepted"
  /\ step' = "output"
  /\ UNCHANGED <<planvars, i, pvars, res, failed, printer, sent, accepted>>

\* Faulty variant: a push whose answer was lost is sent once more.
PushFailsRetrying ==
  /\ step = "push"
  /\ IF sent = "accepted" THEN sent' = "sent" /\ UNCHANGED <<step, failed>>
                        ELSE Fail /\ UNCHANGED sent
  /\ UNCHANGED <<planvars, i, pvars, res, printer, accepted>>

\* Another status, a lost or undecodable answer, or the timeout.
PushFails ==
  /\ step = "push"
  /\ Fail
  /\ UNCHANGED <<planvars, i, pvars, res, printer, sent, accepted>>

\* output may fail to write.
Output ==
  /\ step = "output"
  /\ step' = "done"
  /\ failed' \in BOOLEAN
  /\ UNCHANGED <<planvars, i, pvars, res, printer, sent, accepted>>

Ping == Dialled \/ DialFails \/ Echo \/ EchoFails \/ Request \/ RequestFails

TransferStep(p) == PhaseOver(p) \/ StopTells(p) \/ LastLine(p) \/ StopReturns(p)

RunNext ==
  \/ InfoAnswered \/ InfoFails
  \/ Ping
  \/ \E p \in Transfer : TransferStep(p)
  \/ PushAnswered \/ PushFails \/ Output
  \/ ServerHandles

RunSpec == RunInit /\ [][RunNext]_rvars

\* Every control request but the dialling of the socket has a deadline, and a
\* transfer ends as CliTransfer shows.
RunFairness ==
  /\ WF_rvars(InfoFails) /\ WF_rvars(EchoFails) /\ WF_rvars(RequestFails)
  /\ WF_rvars(PushFails) /\ WF_rvars(Output)
  /\ \A p \in Transfer : WF_rvars(TransferStep(p))

FairRunSpec == RunSpec /\ RunFairness

----------------------------------------------------------------------------
\* The jitter of the CLI above that of the worker.
More == ps.jitter - page.jitter

Rtts == [k \in DOMAIN seen |-> seen[k].rtt]

(***************************************************************************)
(* A reported ping rests on exactly the planned samples, all measured the  *)
(* same way: a socket that fails half-way leaves none behind, the warm-up  *)
(* request is not among them, and the least of them is reported.           *)
(***************************************************************************)
PingWhole ==
  "ping" \in res =>
    /\ Len(seen) = plan.samples /\ ps.count = plan.samples
    /\ \/ \A k \in DOMAIN seen : seen[k].over = "echo" /\ seen[k].i = k - 1
       \/ \A k \in DOMAIN seen : seen[k].over = "request" /\ seen[k].i = k
    /\ ps.min \in Range(Rtts) /\ \A rtt \in Range(Rtts) : ps.min <= rtt

(***************************************************************************)
(* With every round trip, PingStats of the CLI and addSample of the        *)
(* browser's worker report the same ping, and almost the same jitter: they *)
(* differ by how they take the first change, by three tenths of it, and    *)
(* every further sample brings them closer by at least a fifth.  The nine  *)
(* is what the model's division by ten may round.                          *)
(***************************************************************************)
ClientsAgree ==
  [][Len(seen') = Len(seen) + 1 =>
       /\ ps'.min = page'.minPing
       /\ 0 <= More'
       /\ Len(seen) = 0 => More' = 0
       /\ Len(seen) = 1 =>
            10 * More' <= 3 * (Unit * Distance(seen'[2].rtt, seen'[1].rtt)) + 9
       /\ Len(seen) > 1 => 10 * More' <= 8 * More + 9]_rvars

(***************************************************************************)
(* A server of this version has the CLI measure with what it tells the     *)
(* page in config.json, where that is positive, unless a flag says so; and *)
(* whatever any server says, the number of streams is a permitted one.     *)
(***************************************************************************)
PlanIsThePages ==
  /\ told # NoConfig =>
       \A p \in Parameter \ DOMAIN opt.flags :
         UIConfig(told)[p] > 0 => plan[p] = UIConfig(told)[p]
  /\ \A p \in Streams :
       MinConfigurableStreams <= plan[p] /\ plan[p] <= MaxConfigurableStreams

(***************************************************************************)
(* A progress goroutine does not outlive its phase: its last line is out   *)
(* before the next phase, the push or the output begins.                   *)
(***************************************************************************)
ProgressStops ==
  \A p \in Transfer : printer[p] \in {"select", "told"} => step = p

(***************************************************************************)
(* An exit without error means that every phase asked for is in the result *)
(* and that a push asked for has been accepted.                            *)
(***************************************************************************)
ExitMeansComplete ==
  (step = "done" /\ ~ failed) =>
    /\ res = opt.phases
    /\ opt.push => Len(accepted) = 1

(***************************************************************************)
(* Whatever becomes of the push and of its answer, the server accepts at   *)
(* most one result of a run, only when asked to, and a complete one.       *)
(***************************************************************************)
PushedOnce == accepted = <<>> \/ (opt.push /\ accepted = <<opt.phases>>)

(***************************************************************************)
(* A run ends, whatever the server does, unless it waits for ever for the  *)
(* socket to open.                                                         *)
(***************************************************************************)
RunEndsUnlessDialling == <>(step = "done") \/ <>[](step = "dial")

(***************************************************************************)
(* What the flag -timeout says, "timeout for control requests (info, ping, *)
(* push)": silence of the server in any of them does not keep the CLI.     *)
(***************************************************************************)
ControlRequestsTimeOut == <>(step = "done")

=============================================================================
