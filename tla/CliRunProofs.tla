---------------------------- MODULE CliRunProofs ----------------------------
(***************************************************************************)
(* A run of the CLI for every number of ping samples, every server and     *)
(* every set of flags: what is reported, pushed and printed is complete,   *)
(* and the plan is the page's.                                             *)
(*                                                                         *)
(* The invariant says where the run has got to: which phases are in the    *)
(* result at each step, what the server knows of the push, and how many    *)
(* samples the ping has.                                                   *)
(***************************************************************************)
EXTENDS CliRun, TLAPS

Typed == RunTypeOK /\ plan.samples \in Nat \ {0} /\ (step = "info" => i = 0)

Before == {"info", "dial", "echo", "request"}

\* The phases in the result are those of opt that are over.
Progressed ==
  /\ step \in Before => res = {}
  /\ step \in {"dial", "echo", "request"} => "ping" \in opt.phases
  /\ step \in Transfer => step \in opt.phases
  /\ step = "download" => res = opt.phases \cap {"ping"}
  /\ step = "upload" => res = opt.phases \cap {"ping", "download"}
  /\ step \in {"push", "output"} => res = opt.phases
  /\ (step = "done" /\ ~ failed) => res = opt.phases
  /\ step # "done" => ~ failed

\* The push as it is known on both sides.
Pushed ==
  /\ step \in Before \cup Transfer => sent = "no"
  /\ step = "push" => sent # "no"
  /\ sent # "no" => opt.push /\ res = opt.phases
  /\ sent = "accepted" => accepted = <<opt.phases>>
  /\ sent # "accepted" => accepted = <<>>
  /\ (step = "output" \/ (step = "done" /\ ~ failed)) => (opt.push => sent = "accepted")

Of(way, n) == \A k \in DOMAIN seen : seen[k].over = way /\ seen[k].i = k - n

\* The samples so far, and those of a ping that is over.
Sampled ==
  /\ step = "info" => seen = <<>>
  /\ step = "echo" => Len(seen) = i /\ i < plan.samples /\ Of("echo", 1)
  /\ step = "request" => Len(seen) = (IF i = 0 THEN 0 ELSE i - 1) /\ Of("request", 0)
  /\ "ping" \in res => Len(seen) = plan.samples /\ (Of("echo", 1) \/ Of("request", 0))

Least ==
  seen # <<>> =>
    /\ \E k \in DOMAIN seen : ps.min = seen[k].rtt
    /\ \A k \in DOMAIN seen : ps.min <= seen[k].rtt

\* The plan is merged from what the server told, and its streams are permitted.
Planned ==
  /\ told # NoConfig => told \in Config /\ plan = Resolved(Info(told), opt.flags)
  /\ \A p \in Streams : plan[p] \in MinConfigurableStreams .. MaxConfigurableStreams

----------------------------------------------------------------------------
LEMMA ParametersCited ==
  Parameter = {"duration", "graceDownload", "graceUpload", "overhead", "samples",
               "chunks", "blob", "downloadStreams", "uploadStreams"}
BY DEF Parameter, Streams

\* What a plan merged from anything a server may say is like.
LEMMA ResolvedSamples ==
  ASSUME NEW info, NEW flags, "samples" \notin DOMAIN flags, info.samples \in Int
  PROVE  /\ DOMAIN Resolved(info, flags) = Parameter
         /\ Resolved(info, flags).samples \in Nat \ {0}
<1>1. Resolved(info, flags).samples =
        IF info.samples > 0 THEN info.samples ELSE DefaultPingSamples
  BY ParametersCited DEF Resolved, Clamped, Default, Streams
<1>2. DOMAIN Resolved(info, flags) = Parameter
  BY DEF Resolved
<1>3. QED
  BY <1>1, <1>2, CliRunAssumption

LEMMA DistanceIsNatural ==
  ASSUME NEW a \in Nat, NEW b \in Nat
  PROVE  Unit * Distance(a, b) \in Nat
<1>1. Distance(a, b) \in Nat
  BY DEF Distance
<1>2. QED
  BY <1>1, UnitAssumption

LEMMA AveragedIsNatural ==
  ASSUME NEW j \in Nat, NEW inst \in Nat
  PROVE  Averaged(j, inst) \in Nat
BY DEF Averaged

LEMMA UpdatedTyped ==
  ASSUME NEW p \in Stats, NEW inst \in Nat
  PROVE  Updated(p, inst) \in Stats
<1>1. p.jitter \in Nat /\ Averaged(p.jitter, inst) \in Nat
  BY AveragedIsNatural DEF Stats
<1> DEFINE j == IF p.init THEN Averaged(p.jitter, inst) ELSE inst
<1>3. j \in Nat
  BY <1>1
<1>4. Updated(p, inst) = [p EXCEPT !.init = TRUE, !.jitter = j]
  BY DEF Updated
<1> HIDE DEF j
<1>5. QED
  BY <1>3, <1>4 DEF Stats

\* One round trip folded in.
LEMMA AddTyped ==
  ASSUME NEW p \in Stats, NEW rtt \in Rtt
  PROVE  /\ PingAdd(p, rtt) \in Stats
         /\ PingAdd(p, rtt).count = p.count + 1
         /\ PingAdd(p, rtt).min =
              IF p.count = 0 \/ rtt < p.min THEN rtt ELSE p.min
<1>1. rtt \in Nat /\ p.last \in Nat /\ p.min \in Nat /\ p.count \in Nat
  BY CliRunAssumption DEF Stats
<1> DEFINE q == IF p.count = 0 THEN p
                ELSE Updated(p, Unit * Distance(rtt, p.last))
           m == IF p.count = 0 \/ rtt < p.min THEN rtt ELSE p.min
<1>2. q \in Stats
  <2>1. Unit * Distance(rtt, p.last) \in Nat
    BY <1>1, DistanceIsNatural
  <2>2. QED
    BY <2>1, UpdatedTyped
<1>3. PingAdd(p, rtt) = [min |-> m, last |-> rtt, count |-> p.count + 1,
                         jitter |-> q.jitter, init |-> q.init]
  BY DEF PingAdd
<1>4. q.jitter \in Nat /\ q.init \in BOOLEAN
  <2> HIDE DEF q
  <2>1. QED
    BY <1>2 DEF Stats
<1>5. m \in Nat
  BY <1>1
<1> HIDE DEF q, m
<1>6. PingAdd(p, rtt) \in Stats /\ PingAdd(p, rtt).count = p.count + 1
        /\ PingAdd(p, rtt).min = m
  BY <1>1, <1>3, <1>4, <1>5 DEF Stats
<1>7. QED
  BY <1>6 DEF m

\* The same on the worker's side.
LEMMA WorkerTyped ==
  ASSUME NEW q \in WorkerStats, NEW rtt \in Rtt
  PROVE  /\ AddSample(q, rtt) \in WorkerStats
         /\ AddSample(q, rtt).prevRtt = rtt
         /\ AddSample(q, rtt).minPing =
              IF q.minPing = NotYet \/ rtt < q.minPing THEN rtt ELSE q.minPing
         /\ AddSample(q, rtt).jitter =
              IF q.prevRtt = NotYet THEN q.jitter
              ELSE Averaged(q.jitter, Unit * Distance(rtt, q.prevRtt))
<1> DEFINE j == IF q.prevRtt = NotYet THEN q.jitter
                ELSE Averaged(q.jitter, Unit * Distance(rtt, q.prevRtt))
           m == IF q.minPing = NotYet \/ rtt < q.minPing THEN rtt ELSE q.minPing
<1>1. /\ rtt \in Nat /\ q.jitter \in Nat
      /\ q.prevRtt \in Nat \cup {NotYet} /\ q.minPing \in Nat \cup {NotYet}
  BY CliRunAssumption DEF WorkerStats
<1>2. j \in Nat
  <2>1. CASE q.prevRtt = NotYet
    BY <1>1, <2>1
  <2>2. CASE q.prevRtt # NotYet
    <3>1. Unit * Distance(rtt, q.prevRtt) \in Nat
      BY <1>1, <2>2, DistanceIsNatural
    <3>2. QED
      BY <1>1, <2>2, <3>1, AveragedIsNatural
  <2>3. QED
    BY <2>1, <2>2
<1>3. m \in Nat
  BY <1>1
<1>4. AddSample(q, rtt) = [minPing |-> m, jitter |-> j, prevRtt |-> rtt]
  BY DEF AddSample
<1> HIDE DEF j, m
<1>5. /\ AddSample(q, rtt) \in WorkerStats /\ AddSample(q, rtt).prevRtt = rtt
      /\ AddSample(q, rtt).minPing = m /\ AddSample(q, rtt).jitter = j
  BY <1>1, <1>2, <1>3, <1>4 DEF WorkerStats
<1>6. QED
  BY <1>5 DEF j, m

----------------------------------------------------------------------------
(* Types.                                                                  *)

LEMMA FollowingIsStep ==
  ASSUME NEW past, NEW o PROVE Following(past, o) \in Step \ {"info"}
BY DEF Following, Step, Transfer

LEMMA EnterTyped ==
  ASSUME Typed, NEW next \in Step \ {"info"}, Enter(next)
  PROVE  /\ step' \in Step \ {"info"}
         /\ printer' \in [Transfer -> {"off", "select", "told", "closed"}]
         /\ sent' \in {"no", "sent", "accepted", "refused"}
BY DEF Enter, Typed, RunTypeOK

LEMMA SucceedTyped ==
  ASSUME Typed, NEW p \in Phase, Succeed(p)
  PROVE  /\ step' \in Step \ {"info"} /\ res' \subseteq Phase
         /\ printer' \in [Transfer -> {"off", "select", "told", "closed"}]
         /\ sent' \in {"no", "sent", "accepted", "refused"}
<1>1. Following(Upto(p), opt) \in Step \ {"info"}
  BY FollowingIsStep
<1>2. QED
  BY <1>1, EnterTyped DEF Succeed, Typed, RunTypeOK

LEMMA ProceedTyped ==
  ASSUME Typed, NEW info, info.samples \in Int, NEW ws \in BOOLEAN, Proceed(info, ws)
  PROVE  /\ opt' \in Option
         /\ DOMAIN plan' = Parameter /\ plan'.samples \in Nat \ {0}
         /\ step' \in Step \ {"info"}
         /\ printer' \in [Transfer -> {"off", "select", "told", "closed"}]
         /\ sent' \in {"no", "sent", "accepted", "refused"}
<1>1. opt.flags \in FlagOffer
  BY DEF Typed, RunTypeOK, Option
<1>2. "samples" \notin DOMAIN opt.flags
  BY <1>1, CliRunAssumption DEF Streams
<1>3. DOMAIN plan' = Parameter /\ plan'.samples \in Nat \ {0}
  BY <1>2, ResolvedSamples DEF Proceed
<1>4. opt' \in Option
  BY DEF Proceed, Typed, RunTypeOK, Option
<1>5. Following({}, opt') \in Step \ {"info"}
  BY FollowingIsStep
<1>6. step' \in Step \ {"info"}
        /\ printer' \in [Transfer -> {"off", "select", "told", "closed"}]
        /\ sent' \in {"no", "sent", "accepted", "refused"}
  <2>1. opt'.progress = opt.progress
    BY DEF Proceed, Typed, RunTypeOK, Option
  <2>2. Enter(Following({}, opt'))
    BY DEF Proceed
  <2>3. QED
    BY <1>5, <2>2, EnterTyped
<1>7. QED
  BY <1>3, <1>4, <1>6

LEMMA AddRttTyped ==
  ASSUME Typed, NEW way \in {"echo", "request"}, AddRtt(way)
  PROVE  /\ ps' \in Stats /\ ps'.count = Len(seen')
         /\ page' \in WorkerStats
         /\ seen' \in Seq(Sample)
         /\ Len(seen') = Len(seen) + 1
<1>1. PICK rtt \in Rtt :
        /\ ps' = PingAdd(ps, rtt) /\ page' = AddSample(page, rtt)
        /\ seen' = Append(seen, [over |-> way, i |-> i, rtt |-> rtt])
  BY DEF AddRtt
<1>2. ps \in Stats /\ ps.count = Len(seen) /\ seen \in Seq(Sample)
  BY DEF Typed, RunTypeOK
<1>3. ps' \in Stats /\ ps'.count = ps.count + 1
  BY <1>1, <1>2, AddTyped
<1>4. i \in Nat
  BY DEF Typed, RunTypeOK
<1>5. [over |-> way, i |-> i, rtt |-> rtt] \in Sample
  BY <1>4 DEF Sample
<1>6. page' \in WorkerStats
  BY <1>1, WorkerTyped DEF Typed, RunTypeOK
<1>7. QED
  BY <1>1, <1>2, <1>3, <1>5, <1>6

LEMMA TypedInit == RunInit => Typed
<1> SUFFICES ASSUME RunInit PROVE Typed
  OBVIOUS
<1>1. DOMAIN plan = Parameter /\ plan.samples \in Nat \ {0}
  BY CliRunAssumption, ParametersCited DEF RunInit, Default
<1>2. ps \in Stats /\ ps.count = 0 /\ page \in WorkerStats
  BY DEF RunInit, NewPingStats, Stats, NewWorkerPing, WorkerStats
<1>3. seen = <<>> /\ accepted = <<>> /\ i = 0 /\ step = "info" /\ opt \in Option
  BY DEF RunInit
<1>4. seen \in Seq(Sample) /\ Len(seen) = 0 /\ accepted \in Seq(SUBSET Phase)
  BY <1>3
<1>5. i \in 0 .. plan.samples
  BY <1>1, <1>3
<1>6. /\ told \in Config \cup {NoConfig} /\ res \subseteq Phase /\ failed \in BOOLEAN
      /\ printer \in [Transfer -> {"off", "select", "told", "closed"}]
      /\ sent \in {"no", "sent", "accepted", "refused"} /\ step \in Step
  BY DEF RunInit, Step
<1>7. QED
  BY <1>1, <1>2, <1>3, <1>4, <1>5, <1>6 DEF Typed, RunTypeOK

LEMMA TypedStep ==
  ASSUME Typed, [RunNext]_rvars
  PROVE  Typed'
<1> USE DEF Typed, RunTypeOK
<1>1. CASE InfoAnswered
  <2>1. \A c \in Config : Info(c).samples \in Int
    BY CliRunAssumption DEF Info
  <2>2. \A info \in Foreign : info.samples \in Int
    BY CliRunAssumption, ParametersCited
  <2>3. NoInfo.samples \in Int
    BY ParametersCited DEF NoInfo
  <2>4. /\ opt' \in Option
        /\ DOMAIN plan' = Parameter /\ plan'.samples \in Nat \ {0}
        /\ step' \in Step \ {"info"}
        /\ printer' \in [Transfer -> {"off", "select", "told", "closed"}]
        /\ sent' \in {"no", "sent", "accepted", "refused"}
        /\ told' \in Config \cup {NoConfig}
    BY <1>1, <2>1, <2>2, <2>3, ProceedTyped DEF InfoAnswered
  <2>5. step = "info" /\ UNCHANGED <<i, pvars, res, failed, accepted>>
    BY <1>1 DEF InfoAnswered
  <2>6. QED
    BY <2>4, <2>5 DEF pvars
<1>2. CASE InfoFails
  BY <1>2 DEF InfoFails, Fail, Step, planvars, pvars
<1>3. CASE Dialled
  BY <1>3 DEF Dialled, StartPing, NewPingStats, Stats, NewWorkerPing, WorkerStats,
              Step, planvars
<1>4. CASE DialFails
  BY <1>4 DEF DialFails, StartPing, NewPingStats, Stats, NewWorkerPing, WorkerStats,
              Step, planvars
<1>5. CASE EchoFails
  BY <1>5 DEF EchoFails, StartPing, NewPingStats, Stats, NewWorkerPing, WorkerStats,
              Step, planvars
<1>6. CASE Echo
  <2>1. ps' \in Stats /\ ps'.count = Len(seen') /\ seen' \in Seq(Sample)
        /\ page' \in WorkerStats
    BY <1>6, AddRttTyped DEF Echo
  <2>2. CASE i + 1 < plan.samples
    BY <1>6, <2>1, <2>2 DEF Echo, planvars
  <2>3. CASE ~ (i + 1 < plan.samples)
    <3>1. Succeed("ping") /\ UNCHANGED <<i, planvars, failed, accepted>>
      BY <1>6, <2>3 DEF Echo
    <3>2. QED
      BY <2>1, <3>1, SucceedTyped DEF Phase, planvars
  <2>4. QED
    BY <2>2, <2>3
<1>7. CASE Request
  <2>1. ps' \in Stats /\ ps'.count = Len(seen') /\ seen' \in Seq(Sample)
        /\ page' \in WorkerStats
    BY <1>7, AddRttTyped DEF Request, pvars
  <2>2. CASE RequestsLeft
    BY <1>7, <2>1, <2>2 DEF Request, RequestsLeft, planvars
  <2>3. CASE ~ RequestsLeft
    <3>1. Succeed("ping") /\ UNCHANGED <<i, planvars, failed, accepted>>
      BY <1>7, <2>3 DEF Request
    <3>2. QED
      BY <2>1, <3>1, SucceedTyped DEF Phase, planvars
  <2>4. QED
    BY <2>2, <2>3
<1>8. CASE RequestFails
  BY <1>8 DEF RequestFails, Fail, Step, planvars, pvars
<1>9. ASSUME NEW p \in Transfer, PhaseOver(p) \/ StopReturns(p)
      PROVE  Typed'
  <2>1. Verdict(p) /\ UNCHANGED <<planvars, i, pvars, accepted>>
    BY <1>9 DEF PhaseOver, StopReturns
  <2>2. CASE Succeed(p) /\ UNCHANGED failed
    BY <2>1, <2>2, SucceedTyped DEF Phase, planvars, pvars
  <2>3. CASE Fail /\ UNCHANGED <<res, printer, sent>>
    BY <2>1, <2>3 DEF Fail, Step, planvars, pvars
  <2>4. QED
    BY <2>1, <2>2, <2>3 DEF Verdict
<1>10. ASSUME NEW p \in Transfer, StopTells(p) \/ LastLine(p)
       PROVE  Typed'
  BY <1>10 DEF StopTells, LastLine, planvars, pvars
<1>11. CASE PushAnswered
  BY <1>11 DEF PushAnswered, Step, planvars, pvars
<1>12. CASE PushFails
  BY <1>12 DEF PushFails, Fail, Step, planvars, pvars
<1>13. CASE Output
  BY <1>13 DEF Output, Step, planvars, pvars
<1>14. CASE ServerHandles
  <2> DEFINE S == SUBSET Phase
  <2>1. accepted' \in Seq(S)
    <3>1. accepted \in Seq(S) /\ res \in S
      OBVIOUS
    <3> HIDE DEF S
    <3>2. Append(accepted, res) \in Seq(S)
      BY <3>1
    <3>3. QED
      BY <1>14, <3>1, <3>2 DEF ServerHandles
  <2>2. QED
    BY <1>14, <2>1 DEF ServerHandles, planvars, pvars
<1>15. CASE UNCHANGED rvars
  BY <1>15 DEF rvars, planvars, pvars
<1>16. QED
  BY <1>1, <1>2, <1>3, <1>4, <1>5, <1>6, <1>7, <1>8, <1>9, <1>10, <1>11, <1>12,
     <1>13, <1>14, <1>15
  DEF RunNext, Ping, TransferStep

(***************************************************************************)
(* The state of a run keeps its types for any number of samples, whatever  *)
(* servers say: in particular the loops over them stay within bounds.      *)
(***************************************************************************)
THEOREM RunTypeCorrect == RunSpec => []RunTypeOK
<1>1. RunInit => Typed
  BY TypedInit
<1>2. Typed /\ [RunNext]_rvars => Typed'
  BY TypedStep
<1>3. Typed => RunTypeOK
  BY DEF Typed
<1>4. QED
  BY <1>1, <1>2, <1>3, PTL DEF RunSpec

----------------------------------------------------------------------------
(* The progress goroutine.                                                 *)

\* No goroutine is left from an earlier phase when a step is entered.
LEMMA EnterStops ==
  ASSUME Typed, \A q \in Transfer : printer[q] \notin {"select", "told"},
         NEW next, Enter(next)
  PROVE  ProgressStops'
BY DEF Enter, Typed, RunTypeOK, ProgressStops

LEMMA ProgressStopsStep ==
  ASSUME Typed, ProgressStops, [RunNext]_rvars
  PROVE  ProgressStops'
<1>1. ASSUME step \notin Transfer
      PROVE  \A q \in Transfer : printer[q] \notin {"select", "told"}
  BY <1>1 DEF ProgressStops
<1>2. ASSUME step \notin Transfer, UNCHANGED printer
      PROVE  ProgressStops'
  BY <1>1, <1>2 DEF ProgressStops
<1>3. CASE InfoAnswered
  <2>1. step = "info" /\ \E next : Enter(next)
    BY <1>3 DEF InfoAnswered, Proceed
  <2>2. QED
    BY <1>1, <2>1, EnterStops DEF Transfer
<1>4. CASE InfoFails \/ Dialled \/ DialFails \/ EchoFails \/ RequestFails
  BY <1>2, <1>4
  DEF InfoFails, Dialled, DialFails, EchoFails, RequestFails, Transfer
<1>5. CASE Echo \/ Request
  <2>1. step \notin Transfer
    BY <1>5 DEF Echo, Request, Transfer
  <2>2. UNCHANGED printer \/ \E next : Enter(next)
    BY <1>5 DEF Echo, Request, Succeed
  <2>3. QED
    BY <1>1, <1>2, <2>1, <2>2, EnterStops
<1>6. ASSUME NEW p \in Transfer, PhaseOver(p) \/ StopReturns(p)
      PROVE  ProgressStops'
  <2>1. step = p /\ printer[p] \in {"off", "closed"} /\ Verdict(p)
    BY <1>6 DEF PhaseOver, StopReturns
  <2>2. \A q \in Transfer : printer[q] \notin {"select", "told"}
    BY <2>1 DEF ProgressStops
  <2>3. UNCHANGED printer \/ \E next : Enter(next)
    BY <2>1 DEF Verdict, Succeed
  <2>4. QED
    BY <2>2, <2>3, EnterStops DEF ProgressStops
<1>7. ASSUME NEW p \in Transfer, StopTells(p) \/ LastLine(p)
      PROVE  ProgressStops'
  BY <1>7 DEF StopTells, LastLine, ProgressStops, Typed, RunTypeOK
<1>8. CASE PushAnswered \/ PushFails \/ Output
  BY <1>2, <1>8 DEF PushAnswered, PushFails, Output, Transfer
<1>9. CASE ServerHandles
  BY <1>9 DEF ServerHandles, ProgressStops
<1>10. CASE UNCHANGED rvars
  BY <1>10 DEF rvars, ProgressStops
<1>11. QED
  BY <1>3, <1>4, <1>5, <1>6, <1>7, <1>8, <1>9, <1>10 DEF RunNext, Ping, TransferStep

(***************************************************************************)
(* The progress goroutine of a phase has printed its last line before      *)
(* anything else begins, for whatever follows the phase.                   *)
(***************************************************************************)
THEOREM ProgressEnds == RunSpec => []ProgressStops
<1>1. RunInit => Typed /\ ProgressStops
  BY TypedInit DEF RunInit, ProgressStops
<1>2. Typed /\ ProgressStops /\ [RunNext]_rvars => (Typed /\ ProgressStops)'
  BY TypedStep, ProgressStopsStep
<1>3. QED
  BY <1>1, <1>2, PTL DEF RunSpec

----------------------------------------------------------------------------
(* How far the result and the push are.                                    *)

Sequence == Progressed /\ Pushed

\* A step that moves on when the phases in past are over.
LEMMA EnterSequence ==
  ASSUME Typed, Sequence, step \in Before \cup Transfer,
         NEW past, past \in {{}, {"ping"}, {"ping", "download"}, Phase},
         opt'.phases = opt.phases, opt'.push = opt.push,
         Enter(Following(past, opt')),
         res' = opt.phases \cap past, UNCHANGED <<failed, accepted>>
  PROVE  Sequence'
<1> DEFINE next == Following(past, opt')
           left == opt.phases \ past
<1>1. opt.phases \subseteq Phase /\ opt.push \in BOOLEAN
  BY DEF Typed, RunTypeOK, Option
<1>2. sent = "no" /\ accepted = <<>> /\ ~ failed
  BY DEF Sequence, Progressed, Pushed, Before, Transfer
<1>3. step' = next /\ sent' = (IF next = "push" THEN "sent" ELSE sent)
  BY DEF Enter
<1>4. CASE "ping" \in left
  <2>1. next \in {"dial", "request"} /\ past = {}
    BY <1>4 DEF Following, Phase
  <2>2. QED
    BY <1>1, <1>2, <1>3, <1>4, <2>1 DEF Sequence, Progressed, Pushed, Before, Transfer
<1>5. CASE "ping" \notin left /\ "download" \in left
  <2>1. next = "download" /\ past \in {{}, {"ping"}}
    BY <1>5 DEF Following, Phase, Transfer
  <2>2. res' = opt.phases \cap {"ping"}
    BY <1>5, <2>1
  <2>3. QED
    BY <1>1, <1>2, <1>3, <1>5, <2>1, <2>2 DEF Sequence, Progressed, Pushed, Before, Transfer
<1>6. CASE left = {"upload"}
  <2>1. next = "upload" /\ past \in {{}, {"ping"}, {"ping", "download"}}
    BY <1>6 DEF Following, Phase, Transfer
  <2>2. res' = opt.phases \cap {"ping", "download"}
    BY <1>6, <2>1
  <2>3. QED
    BY <1>1, <1>2, <1>3, <1>6, <2>1, <2>2 DEF Sequence, Progressed, Pushed, Before, Transfer
<1>7. CASE left = {}
  <2>1. next = IF opt.push THEN "push" ELSE "output"
    BY <1>1, <1>7 DEF Following
  <2>2. res' = opt.phases
    BY <1>7
  <2>3. QED
    BY <1>1, <1>2, <1>3, <2>1, <2>2 DEF Sequence, Progressed, Pushed, Before, Transfer
<1>8. QED
  BY <1>1, <1>4, <1>5, <1>6, <1>7 DEF Phase, Transfer

\* A phase that succeeds, and a run that fails.
LEMMA SucceedSequence ==
  ASSUME Typed, Sequence, NEW p \in Phase, Succeed(p),
         (p \in Transfer /\ step = p) \/ (p = "ping" /\ step \in {"echo", "request"}),
         UNCHANGED <<opt, failed, accepted>>
  PROVE  Sequence'
<1>1. Upto(p) \in {{"ping"}, {"ping", "download"}, Phase}
  BY DEF Upto, Phase, Transfer
<1>2. res' = opt.phases \cap Upto(p)
  <2>1. res' = res \cup {p} /\ opt.phases \subseteq Phase
    BY DEF Succeed, Typed, RunTypeOK, Option
  <2>2. CASE p = "ping"
    BY <2>1, <2>2 DEF Sequence, Progressed, Upto, Before, Transfer
  <2>3. CASE p = "download"
    BY <2>1, <2>3 DEF Sequence, Progressed, Upto, Transfer
  <2>4. CASE p = "upload"
    BY <2>1, <2>4 DEF Sequence, Progressed, Upto, Phase, Transfer
  <2>5. QED
    BY <2>2, <2>3, <2>4 DEF Phase, Transfer
<1>3. Enter(Following(Upto(p), opt'))
  BY DEF Succeed
<1>4. step \in Before \cup Transfer
  BY DEF Before
<1>5. QED
  BY <1>1, <1>2, <1>3, <1>4, EnterSequence

LEMMA FailSequence ==
  ASSUME Typed, Sequence, Fail, UNCHANGED <<opt, res, sent, accepted>>
  PROVE  Sequence'
BY DEF Fail, Sequence, Progressed, Pushed, Before, Transfer

LEMMA SequenceInit == RunInit => Sequence
BY DEF RunInit, Sequence, Progressed, Pushed, Before, Transfer

LEMMA SequenceStep ==
  ASSUME Typed, Sequence, [RunNext]_rvars
  PROVE  Sequence'
<1>1. CASE InfoAnswered
  <2>1. /\ step = "info" /\ UNCHANGED <<res, failed, accepted>>
        /\ Enter(Following({}, opt'))
        /\ \E ws \in BOOLEAN : opt' = [opt EXCEPT !.wsPing = ws]
    BY <1>1 DEF InfoAnswered, Proceed
  <2>2. opt'.phases = opt.phases /\ opt'.push = opt.push
    BY <2>1 DEF Typed, RunTypeOK, Option
  <2>3. res' = opt.phases \cap {}
    BY <2>1 DEF Sequence, Progressed, Before
  <2>4. QED
    BY <2>1, <2>2, <2>3, EnterSequence DEF Before
<1>2. CASE InfoFails \/ RequestFails \/ PushFails
  BY <1>2, FailSequence DEF InfoFails, RequestFails, PushFails, planvars
<1>3. CASE Dialled \/ DialFails \/ EchoFails
  BY <1>3 DEF Dialled, DialFails, EchoFails, StartPing, planvars,
              Sequence, Progressed, Pushed, Before, Transfer
<1>4. CASE Echo \/ Request
  <2>1. step \in {"echo", "request"} /\ UNCHANGED <<opt, failed, accepted>>
    BY <1>4 DEF Echo, Request, planvars
  <2>2. Succeed("ping") \/ UNCHANGED <<step, res, sent>>
    BY <1>4 DEF Echo, Request
  <2>3. CASE Succeed("ping")
    BY <2>1, <2>3, SucceedSequence DEF Phase
  <2>4. CASE UNCHANGED <<step, res, sent>>
    BY <2>1, <2>4 DEF Sequence, Progressed, Pushed
  <2>5. QED
    BY <2>2, <2>3, <2>4
<1>5. ASSUME NEW p \in Transfer, PhaseOver(p) \/ StopReturns(p)
      PROVE  Sequence'
  <2>1. step = p /\ Verdict(p) /\ UNCHANGED <<opt, accepted>>
    BY <1>5 DEF PhaseOver, StopReturns, planvars
  <2>2. CASE Succeed(p) /\ UNCHANGED failed
    BY <2>1, <2>2, SucceedSequence DEF Phase
  <2>3. CASE Fail /\ UNCHANGED <<res, printer, sent>>
    BY <2>1, <2>3, FailSequence
  <2>4. QED
    BY <2>1, <2>2, <2>3 DEF Verdict
<1>6. ASSUME NEW p \in Transfer, StopTells(p) \/ LastLine(p)
      PROVE  Sequence'
  BY <1>6 DEF StopTells, LastLine, planvars, Sequence, Progressed, Pushed
<1>7. CASE PushAnswered
  BY <1>7 DEF PushAnswered, planvars, Sequence, Progressed, Pushed, Before, Transfer
<1>8. CASE Output
  BY <1>8 DEF Output, planvars, Sequence, Progressed, Pushed, Before, Transfer
<1>9. CASE ServerHandles
  BY <1>9 DEF ServerHandles, planvars, Sequence, Progressed, Pushed, Before, Transfer
<1>10. CASE UNCHANGED rvars
  BY <1>10 DEF rvars, planvars, Sequence, Progressed, Pushed
<1>11. QED
  BY <1>1, <1>2, <1>3, <1>4, <1>5, <1>6, <1>7, <1>8, <1>9, <1>10
  DEF RunNext, Ping, TransferStep

LEMMA SequenceAlways == RunSpec => [](Typed /\ Sequence)
<1>1. RunInit => Typed /\ Sequence
  BY TypedInit, SequenceInit
<1>2. Typed /\ Sequence /\ [RunNext]_rvars => (Typed /\ Sequence)'
  BY TypedStep, SequenceStep
<1>3. QED
  BY <1>1, <1>2, PTL DEF RunSpec

(***************************************************************************)
(* A run that exits without error has every phase asked for in its result, *)
(* and the server has accepted that result if it was to be pushed, which   *)
(* the default store does without keeping it.                              *)
(***************************************************************************)
THEOREM ExitsComplete == RunSpec => []ExitMeansComplete
<1>1. Typed /\ Sequence => ExitMeansComplete
  BY DEF Sequence, Progressed, Pushed, ExitMeansComplete
<1>2. QED
  BY <1>1, SequenceAlways, PTL

(***************************************************************************)
(* Whatever is lost, delayed or refused, the server accepts at most one    *)
(* result of a run, and that one is complete.                              *)
(***************************************************************************)
THEOREM PushesOnce == RunSpec => []PushedOnce
<1>1. Typed /\ Sequence => PushedOnce
  BY DEF Sequence, Pushed, PushedOnce
<1>2. QED
  BY <1>1, SequenceAlways, PTL

----------------------------------------------------------------------------
(* The samples of the ping.                                                *)

LEMMA AddRttSampled ==
  ASSUME Typed, Least, NEW way \in {"echo", "request"}, AddRtt(way),
         NEW n \in Nat, Of(way, n), i = Len(seen) + 1 - n
  PROVE  Of(way, n)' /\ Len(seen') = Len(seen) + 1 /\ Least'
<1>1. PICK rtt \in Rtt :
        /\ ps' = PingAdd(ps, rtt)
        /\ seen' = Append(seen, [over |-> way, i |-> i, rtt |-> rtt])
  BY DEF AddRtt
<1>2. /\ ps \in Stats /\ ps.count = Len(seen) /\ seen \in Seq(Sample)
      /\ rtt \in Nat
  BY CliRunAssumption DEF Typed, RunTypeOK
<1>3. /\ Len(seen') = Len(seen) + 1 /\ Len(seen) \in Nat
      /\ DOMAIN seen = 1 .. Len(seen) /\ DOMAIN seen' = 1 .. Len(seen) + 1
      /\ \A k \in DOMAIN seen : seen'[k] = seen[k]
      /\ seen'[Len(seen) + 1] = [over |-> way, i |-> i, rtt |-> rtt]
  BY <1>1, <1>2
<1>4. Of(way, n)'
  BY <1>3 DEF Of
<1>5. ps'.min = IF ps.count = 0 \/ rtt < ps.min THEN rtt ELSE ps.min
  BY <1>1, <1>2, AddTyped
<1>6. ps.min \in Nat /\ \A k \in DOMAIN seen : seen[k].rtt \in Nat
  <2>1. ps.min \in Nat
    BY <1>2 DEF Stats
  <2>2. ASSUME NEW k \in DOMAIN seen PROVE seen[k].rtt \in Nat
    <3>1. seen[k] \in Sample
      BY <1>2, <2>2
    <3>2. seen[k].rtt \in Rtt
      BY <3>1 DEF Sample
    <3>3. QED
      BY <3>2, CliRunAssumption
  <2>3. QED
    BY <2>1, <2>2
<1>7. Least'
  <2>1. CASE Len(seen) = 0
    BY <1>2, <1>3, <1>5, <2>1 DEF Least
  <2>2. CASE Len(seen) # 0
    <3>1. seen # <<>>
      BY <2>2
    <3>2. PICK k \in DOMAIN seen : ps.min = seen[k].rtt
      BY <3>1 DEF Least
    <3>3. \A m \in DOMAIN seen : ps.min <= seen[m].rtt
      BY <3>1 DEF Least
    <3>4. CASE rtt < ps.min
      BY <1>2, <1>3, <1>5, <1>6, <3>3, <3>4 DEF Least
    <3>5. CASE ~ (rtt < ps.min)
      <4>1. ps'.min = ps.min /\ ps.min <= rtt
        BY <1>2, <1>5, <1>6, <2>2, <3>5
      <4>2. k \in DOMAIN seen' /\ seen'[k].rtt = ps'.min
        BY <1>3, <3>2, <4>1
      <4>3. ASSUME NEW m \in DOMAIN seen' PROVE ps'.min <= seen'[m].rtt
        <5>1. CASE m \in DOMAIN seen
          BY <1>3, <3>3, <4>1, <5>1
        <5>2. CASE m = Len(seen) + 1
          BY <1>3, <4>1, <5>2
        <5>3. QED
          BY <1>3, <5>1, <5>2
      <4>4. QED
        BY <4>2, <4>3 DEF Least
    <3>6. QED
      BY <3>4, <3>5
  <2>3. QED
    BY <2>1, <2>2
<1>8. QED
  BY <1>3, <1>4, <1>7

\* Nothing comes back to the ping.
LEMMA FollowingLater ==
  ASSUME NEW p \in Phase, NEW o
  PROVE  Following(Upto(p), o) \notin Before
BY DEF Following, Upto, Phase, Transfer, Before

\* Once the ping is over, its samples and the plan stay.
LEMMA LaterStays ==
  ASSUME Typed, step \notin Before, [RunNext]_rvars
  PROVE  step' \notin Before /\ UNCHANGED <<ps, seen, plan>>
           /\ ("ping" \in res' => "ping" \in res)
<1>1. ASSUME NEW p \in Transfer, PhaseOver(p) \/ StopReturns(p)
      PROVE  step' \notin Before /\ UNCHANGED <<ps, seen, plan>>
               /\ ("ping" \in res' => "ping" \in res)
  <2>1. Verdict(p) /\ UNCHANGED <<ps, seen, plan>>
    BY <1>1 DEF PhaseOver, StopReturns, planvars, pvars
  <2>2. CASE Succeed(p)
    BY <2>1, <2>2, FollowingLater DEF Succeed, Enter, Phase, Transfer
  <2>3. CASE Fail /\ UNCHANGED res
    BY <2>1, <2>3 DEF Fail, Before
  <2>4. QED
    BY <2>1, <2>2, <2>3 DEF Verdict
<1>2. ASSUME NEW p \in Transfer, StopTells(p) \/ LastLine(p)
      PROVE  step' \notin Before /\ UNCHANGED <<ps, seen, plan, res>>
  BY <1>2 DEF StopTells, LastLine, planvars, pvars
<1>3. CASE PushAnswered \/ PushFails \/ Output \/ ServerHandles
  BY <1>3 DEF PushAnswered, PushFails, Fail, Output, ServerHandles, planvars, pvars, Before
<1>4. CASE UNCHANGED rvars
  BY <1>4 DEF rvars, planvars, pvars
<1>5. ~ (InfoAnswered \/ InfoFails \/ Ping)
  BY DEF InfoAnswered, InfoFails, Ping, Dialled, DialFails, Echo, EchoFails, Request,
         RequestFails, Before
<1>6. QED
  BY <1>1, <1>2, <1>3, <1>4, <1>5 DEF RunNext, TransferStep

\* An empty PingStats, whatever was sampled before.
LEMMA StartPingSampled ==
  ASSUME Typed, Sequence, step \in Before, NEW way \in {"echo", "request"},
         StartPing(way), UNCHANGED <<res, plan>>
  PROVE  Sampled' /\ Least'
<1>1. i' = 0 /\ seen' = <<>> /\ step' = way /\ "ping" \notin res'
  BY DEF StartPing, Sequence, Progressed
<1>2. plan'.samples > 0
  BY DEF Typed
<1>3. Len(seen') = 0 /\ DOMAIN seen' = {}
  BY <1>1
<1>4. QED
  BY <1>1, <1>2, <1>3 DEF Sampled, Of, Least

LEMMA SampledStep ==
  ASSUME Typed, Sequence, Sampled, Least, [RunNext]_rvars
  PROVE  Sampled' /\ Least'
<1>1. CASE step \notin Before
  <2>1. step' \notin Before /\ UNCHANGED <<ps, seen, plan>>
          /\ ("ping" \in res' => "ping" \in res)
    BY <1>1, LaterStays
  <2>2. QED
    BY <2>1 DEF Sampled, Of, Least, Before
<1>2. ASSUME step \in Before PROVE "ping" \notin res
  BY <1>2 DEF Sequence, Progressed
<1>3. CASE InfoAnswered
  <2>1. /\ step = "info" /\ i' = i /\ seen' = seen /\ ps' = ps /\ res' = res
        /\ step' = Following({}, opt')
    BY <1>3 DEF InfoAnswered, Proceed, Enter, pvars
  <2>2. step' \notin {"info", "echo"} /\ seen = <<>> /\ i = 0
    BY <2>1 DEF Following, Sampled, Typed, Transfer
  <2>3. Len(seen') = 0 /\ DOMAIN seen' = {}
    BY <2>1, <2>2
  <2>4. QED
    BY <1>2, <2>1, <2>2, <2>3 DEF Sampled, Of, Least, Before
<1>4. CASE InfoFails \/ RequestFails
  BY <1>2, <1>4 DEF InfoFails, RequestFails, Fail, planvars, pvars, Sampled, Of, Least, Before
<1>5. CASE Dialled \/ DialFails \/ EchoFails
  BY <1>5, StartPingSampled DEF Dialled, DialFails, EchoFails, planvars, Before
<1>6. CASE Echo
  <2>1. /\ step = "echo" /\ AddRtt("echo") /\ UNCHANGED plan
        /\ Len(seen) = i /\ i < plan.samples /\ Of("echo", 1)
    BY <1>6 DEF Echo, Sampled, planvars
  <2>2. Of("echo", 1)' /\ Len(seen') = i + 1 /\ Least'
    <3>1. i = Len(seen) + 1 - 1
      BY <2>1 DEF Typed, RunTypeOK
    <3>2. QED
      BY <2>1, <3>1, AddRttSampled
  <2>3. i \in Nat /\ plan.samples \in Nat
    BY DEF Typed, RunTypeOK
  <2>4. CASE i + 1 < plan.samples
    <3>1. i' = i + 1 /\ step' = "echo" /\ res' = res
      BY <1>6, <2>1, <2>4 DEF Echo
    <3>2. QED
      BY <1>2, <2>1, <2>2, <2>4, <3>1 DEF Sampled, Before
  <2>5. CASE ~ (i + 1 < plan.samples)
    <3>1. step' = Following(Upto("ping"), opt)
      BY <1>6, <2>5 DEF Echo, Succeed, Enter
    <3>2. step' \notin Before
      BY <3>1, FollowingLater DEF Phase
    <3>3. Len(seen') = plan'.samples
      BY <2>1, <2>2, <2>3, <2>5
    <3>4. QED
      BY <2>2, <3>2, <3>3 DEF Sampled, Before
  <2>6. QED
    BY <2>4, <2>5
<1>7. CASE Request
  <2>1. /\ step = "request" /\ UNCHANGED plan /\ Of("request", 0)
        /\ Len(seen) = (IF i = 0 THEN 0 ELSE i - 1)
    BY <1>7 DEF Request, Sampled, planvars
  <2>2. i \in Nat /\ plan.samples \in Nat \ {0} /\ i <= plan.samples
    BY DEF Typed, RunTypeOK
  <2>3. Of("request", 0)' /\ Len(seen') = i /\ Least'
    <3>1. CASE i = 0
      <4>1. seen' = seen /\ ps' = ps
        BY <1>7, <3>1 DEF Request, pvars
      <4>2. QED
        BY <2>1, <3>1, <4>1 DEF Of, Least
    <3>2. CASE i > 0
      <4>1. AddRtt("request")
        BY <1>7, <3>2 DEF Request
      <4>2. i = Len(seen) + 1 - 0
        BY <2>1, <2>2, <3>2
      <4>3. QED
        BY <2>1, <2>2, <3>2, <4>1, <4>2, AddRttSampled
    <3>3. QED
      BY <2>2, <3>1, <3>2
  <2>4. CASE RequestsLeft
    <3>1. i' = i + 1 /\ step' = "request" /\ res' = res
      BY <1>7, <2>1, <2>4 DEF Request
    <3>2. Len(seen') = IF i' = 0 THEN 0 ELSE i' - 1
      BY <2>2, <2>3, <3>1
    <3>3. QED
      BY <1>2, <2>1, <2>3, <3>1, <3>2 DEF Sampled, Before
  <2>5. CASE ~ RequestsLeft
    <3>1. step' = Following(Upto("ping"), opt)
      BY <1>7, <2>5 DEF Request, Succeed, Enter
    <3>2. step' \notin Before
      BY <3>1, FollowingLater DEF Phase
    <3>3. Len(seen') = plan'.samples
      BY <2>1, <2>2, <2>3, <2>5 DEF RequestsLeft
    <3>4. QED
      BY <2>3, <3>2, <3>3 DEF Sampled, Before
  <2>6. QED
    BY <2>4, <2>5
<1>8. CASE UNCHANGED rvars
  BY <1>8 DEF rvars, planvars, pvars, Sampled, Of, Least
<1>9. CASE ServerHandles
  BY <1>9 DEF ServerHandles, planvars, pvars, Sampled, Of, Least
<1>10. ASSUME NEW p \in Transfer, LastLine(p)
       PROVE  Sampled' /\ Least'
  BY <1>10 DEF LastLine, planvars, pvars, Sampled, Of, Least
<1>11. QED
  <2>1. ASSUME step \in Before
        PROVE  /\ \A p \in Transfer : ~ (PhaseOver(p) \/ StopTells(p))
               /\ \A p \in Transfer : StopReturns(p) => step = p
               /\ ~ (PushAnswered \/ PushFails \/ Output)
    BY <2>1 DEF PhaseOver, StopTells, StopReturns, PushAnswered, PushFails, Output,
                Before, Transfer
  <2>2. QED
    BY <1>1, <1>3, <1>4, <1>5, <1>6, <1>7, <1>8, <1>9, <1>10, <2>1
    DEF RunNext, Ping, TransferStep, Before, Transfer

(***************************************************************************)
(* A reported ping rests on all the samples of the plan, measured one way, *)
(* and is the least of them, for any plan.                                 *)
(***************************************************************************)
THEOREM PingIsWhole == RunSpec => []PingWhole
<1> DEFINE PInv == Typed /\ Sequence /\ Sampled /\ Least
<1>1. RunInit => PInv
  <2>1. RunInit => Sampled /\ Least
    BY DEF RunInit, Sampled, Least
  <2>2. QED
    BY <2>1, TypedInit, SequenceInit
<1>2. PInv /\ [RunNext]_rvars => PInv'
  BY TypedStep, SequenceStep, SampledStep
<1>3. PInv => PingWhole
  <2> SUFFICES ASSUME PInv, "ping" \in res PROVE PingWhole
    BY DEF PingWhole
  <2>1. /\ Len(seen) = plan.samples /\ ps.count = plan.samples
        /\ Of("echo", 1) \/ Of("request", 0)
    BY DEF Sampled, Typed, RunTypeOK
  <2>2. seen # <<>> /\ seen \in Seq(Sample)
    BY <2>1 DEF Typed, RunTypeOK
  <2>3. Range(Rtts) = {seen[k].rtt : k \in DOMAIN seen}
    BY DEF Range, Rtts
  <2>4. ps.min \in Range(Rtts) /\ \A rtt \in Range(Rtts) : ps.min <= rtt
    <3>1. PICK k \in DOMAIN seen : ps.min = seen[k].rtt
      BY <2>2 DEF Least
    <3>2. \A m \in DOMAIN seen : ps.min <= seen[m].rtt
      BY <2>2 DEF Least
    <3>3. QED
      BY <2>3, <3>1, <3>2
  <2>5. ASSUME NEW k \in DOMAIN seen PROVE k \in Int /\ seen[k].i \in Int
    <3>1. seen[k] \in Sample /\ k \in Int
      BY <2>2, <2>5
    <3>2. QED
      BY <3>1 DEF Sample
  <2>6. \/ \A k \in DOMAIN seen : seen[k].over = "echo" /\ seen[k].i = k - 1
        \/ \A k \in DOMAIN seen : seen[k].over = "request" /\ seen[k].i = k
    BY <2>1, <2>5 DEF Of
  <2>7. QED
    BY <2>1, <2>4, <2>6 DEF PingWhole
<1>4. QED
  BY <1>1, <1>2, <1>3, PTL DEF RunSpec

----------------------------------------------------------------------------
(* The two clients.                                                        *)

\* Taken at the same changes, two averages keep their order and come closer.
LEMMA AveragesCloseIn ==
  ASSUME NEW low \in Nat, NEW high \in Nat, low <= high, NEW inst \in Nat
  PROVE  /\ Averaged(low, inst) <= Averaged(high, inst)
         /\ 10 * (Averaged(high, inst) - Averaged(low, inst)) <= 8 * (high - low) + 9
<1>1. CASE inst > high
  BY <1>1 DEF Averaged
<1>2. CASE inst <= high /\ inst > low
  BY <1>2 DEF Averaged
<1>3. CASE inst <= low
  BY <1>3 DEF Averaged
<1>4. QED
  BY <1>1, <1>2, <1>3

\* An average that starts from zero lags by three tenths of the first change.
LEMMA FirstAverageLags ==
  ASSUME NEW inst \in Nat
  PROVE  Averaged(0, inst) <= inst /\ 10 * (inst - Averaged(0, inst)) <= 3 * inst + 9
BY DEF Averaged

\* What PingStats and the worker have in common after the same round trips.
Alike ==
  /\ seen = <<>> => ps = NewPingStats /\ page = NewWorkerPing
  /\ seen # <<>> =>
       /\ page.minPing = ps.min /\ ps.min \in Nat
       /\ page.prevRtt = ps.last /\ ps.last = seen[Len(seen)].rtt
       /\ Len(seen) = 1 => ps.init = FALSE /\ ps.jitter = 0
       /\ Len(seen) > 1 => ps.init = TRUE
  /\ Len(seen) <= 1 => page.jitter = 0
  /\ 0 <= More

\* What one sample does to their difference.
Closer ==
  /\ ps'.min = page'.minPing
  /\ 0 <= More'
  /\ Len(seen) = 0 => More' = 0
  /\ Len(seen) = 1 =>
       10 * More' <= 3 * (Unit * Distance(seen'[2].rtt, seen'[1].rtt)) + 9
  /\ Len(seen) > 1 => 10 * More' <= 8 * More + 9

LEMMA AddRttAlike ==
  ASSUME Typed, Alike, NEW way \in {"echo", "request"}, AddRtt(way)
  PROVE  Alike' /\ Closer
<1>1. PICK rtt \in Rtt :
        /\ ps' = PingAdd(ps, rtt) /\ page' = AddSample(page, rtt)
        /\ seen' = Append(seen, [over |-> way, i |-> i, rtt |-> rtt])
  BY DEF AddRtt
<1>2. /\ ps \in Stats /\ ps.count = Len(seen) /\ seen \in Seq(Sample)
      /\ page \in WorkerStats /\ rtt \in Nat
  BY CliRunAssumption DEF Typed, RunTypeOK
<1>3. /\ ps.min \in Nat /\ ps.last \in Nat /\ ps.jitter \in Nat /\ page.jitter \in Nat
      /\ ps.init \in BOOLEAN
  BY <1>2 DEF Stats, WorkerStats
<1>4. /\ Len(seen) \in Nat /\ Len(seen') = Len(seen) + 1 /\ seen' # <<>>
      /\ seen'[Len(seen) + 1].rtt = rtt
      /\ \A k \in 1 .. Len(seen) : seen'[k] = seen[k]
      /\ Len(seen) = 0 <=> seen = <<>>
  BY <1>1, <1>2
<1>5. /\ page'.prevRtt = rtt
      /\ page'.minPing =
           IF page.minPing = NotYet \/ rtt < page.minPing THEN rtt ELSE page.minPing
      /\ page'.jitter =
           IF page.prevRtt = NotYet THEN page.jitter
           ELSE Averaged(page.jitter, Unit * Distance(rtt, page.prevRtt))
  BY <1>1, <1>2, WorkerTyped
<1> DEFINE inst == Unit * Distance(rtt, ps.last)
<1>6. /\ ps'.min = IF ps.count = 0 \/ rtt < ps.min THEN rtt ELSE ps.min
      /\ ps'.last = rtt
      /\ ps'.jitter = IF ps.count = 0 THEN ps.jitter
                      ELSE IF ps.init THEN Averaged(ps.jitter, inst) ELSE inst
      /\ ps'.init = IF ps.count = 0 THEN ps.init ELSE TRUE
  <2>1. PingAdd(ps, rtt).last = rtt
    BY DEF PingAdd
  <2>2. CASE ps.count = 0
    BY <1>1, <2>1, <2>2 DEF PingAdd
  <2>3. CASE ps.count # 0
    <3>1. /\ Updated(ps, inst).init = TRUE
          /\ Updated(ps, inst).jitter = IF ps.init THEN Averaged(ps.jitter, inst) ELSE inst
      BY <1>2 DEF Updated, Stats
    <3>2. /\ ps'.init = Updated(ps, inst).init
          /\ ps'.jitter = Updated(ps, inst).jitter
          /\ ps'.min = IF rtt < ps.min THEN rtt ELSE ps.min
      BY <1>1, <2>3 DEF PingAdd
    <3>3. QED
      BY <1>1, <2>1, <2>3, <3>1, <3>2
  <2>4. QED
    BY <2>2, <2>3
<1>7. inst \in Nat
  BY <1>2, <1>3, DistanceIsNatural
<1> HIDE DEF inst
<1> DEFINE n == Len(seen)
<1>8. n \in Nat
  BY <1>2
<1>9. n = 0 \/ n = 1 \/ n > 1
  <2> HIDE DEF n
  <2>1. QED
    BY <1>8
<1>10. ps.count = n /\ (n = 0 <=> seen = <<>>) /\ Len(seen') = n + 1
  BY <1>2, <1>4
<1>11. CASE n = 0
  <2>1. ps = NewPingStats /\ page = NewWorkerPing
    BY <1>10, <1>11 DEF Alike
  <2>2. /\ ps'.min = rtt /\ page'.minPing = rtt /\ page'.jitter = 0 /\ ps'.jitter = 0
        /\ ps'.init = FALSE
    BY <1>2, <1>5, <1>6, <1>11, <2>1 DEF NewPingStats, NewWorkerPing
  <2>3. QED
    BY <1>2, <1>4, <1>5, <1>6, <1>11, <2>2 DEF Alike, Closer, More
<1>12. ASSUME n > 0
       PROVE  /\ page'.minPing = ps'.min /\ ps'.min \in Nat /\ ps'.init = TRUE
              /\ page'.jitter = Averaged(page.jitter, inst)
  <2>1. n # 0 /\ seen # <<>>
    BY <1>8, <1>10, <1>12
  <2>2. page.minPing = ps.min /\ page.prevRtt = ps.last
    BY <2>1 DEF Alike
  <2>3. page.minPing # NotYet /\ page.prevRtt # NotYet
    BY <1>3, <2>2 DEF NotYet
  <2>4. page'.jitter = Averaged(page.jitter, inst)
    BY <1>5, <2>2, <2>3 DEF inst
  <2>5. ps'.init = TRUE /\ ps'.min = IF rtt < ps.min THEN rtt ELSE ps.min
    BY <1>6, <1>10, <2>1
  <2>6. QED
    BY <1>2, <1>3, <1>5, <2>2, <2>3, <2>4, <2>5
<1>13. CASE n = 1
  <2>1. ps.last = seen[1].rtt /\ page.jitter = 0 /\ ps.init = FALSE /\ ps.count # 0
    BY <1>10, <1>13 DEF Alike
  <2>2. ps'.jitter = inst /\ page'.jitter = Averaged(0, inst)
    BY <1>6, <1>12, <1>13, <2>1
  <2>3. seen'[2].rtt = rtt /\ seen'[1].rtt = ps.last
    BY <1>4, <1>13, <2>1
  <2>4. 0 <= More' /\ 10 * More' <= 3 * inst + 9
    <3>1. Averaged(0, inst) \in Nat
      BY <1>7, AveragedIsNatural
    <3>2. QED
      BY <1>7, <2>2, <3>1, FirstAverageLags DEF More
  <2>5. inst = Unit * Distance(seen'[2].rtt, seen'[1].rtt)
    BY <2>3 DEF inst
  <2>6. page'.minPing = ps'.min /\ ps'.min \in Nat /\ ps'.init = TRUE
    <3>1. n > 0
      BY <1>13
    <3>2. QED
      BY <1>12, <3>1
  <2>7. Closer
    BY <1>13, <2>4, <2>5, <2>6 DEF Closer
  <2>8. Alike'
    BY <1>4, <1>5, <1>6, <1>10, <1>13, <2>4, <2>6 DEF Alike
  <2>9. QED
    BY <2>7, <2>8
<1>14. CASE n > 1
  <2>1. n # 0 /\ n # 1 /\ n > 0
    <3> HIDE DEF n
    <3>1. QED
      BY <1>8, <1>14
  <2>2. ps.init = TRUE /\ ps.count # 0 /\ 0 <= More
    BY <1>10, <1>14, <2>1 DEF Alike
  <2>3. /\ ps'.jitter = Averaged(ps.jitter, inst)
        /\ page'.jitter = Averaged(page.jitter, inst)
    BY <1>6, <1>12, <2>1, <2>2
  <2>4. 0 <= More' /\ 10 * More' <= 8 * More + 9
    <3>1. Averaged(ps.jitter, inst) \in Nat /\ Averaged(page.jitter, inst) \in Nat
      BY <1>3, <1>7, AveragedIsNatural
    <3>2. page.jitter <= ps.jitter
      BY <1>3, <2>2 DEF More
    <3>3. /\ Averaged(page.jitter, inst) <= Averaged(ps.jitter, inst)
          /\ 10 * (Averaged(ps.jitter, inst) - Averaged(page.jitter, inst))
               <= 8 * (ps.jitter - page.jitter) + 9
      BY <1>3, <1>7, <3>2, AveragesCloseIn
    <3>4. More' = Averaged(ps.jitter, inst) - Averaged(page.jitter, inst)
      BY <2>3 DEF More
    <3>5. QED
      BY <3>1, <3>3, <3>4 DEF More
  <2>5. page'.minPing = ps'.min /\ ps'.min \in Nat /\ ps'.init = TRUE
    BY <1>12, <2>1
  <2>6. Closer
    BY <2>1, <2>4, <2>5 DEF Closer
  <2>7. Len(seen') > 1 /\ Len(seen') # 1
    <3> HIDE DEF n
    <3>1. QED
      BY <1>8, <1>10, <1>14
  <2>8. Alike'
    BY <1>4, <1>5, <1>6, <2>4, <2>5, <2>7 DEF Alike
  <2>9. QED
    BY <2>6, <2>8
<1>15. QED
  BY <1>9, <1>11, <1>13, <1>14

\* Every step records one sample, starts anew or leaves the samples alone.
LEMMA SamplingSteps ==
  ASSUME [RunNext]_rvars
  PROVE  \/ AddRtt("echo") \/ AddRtt("request")
         \/ StartPing("echo") \/ StartPing("request")
         \/ UNCHANGED pvars
<1>1. CASE Ping
  BY <1>1 DEF Ping, Dialled, DialFails, Echo, EchoFails, Request, RequestFails
<1>2. ASSUME NEW p \in Transfer, TransferStep(p) PROVE UNCHANGED pvars
  BY <1>2 DEF TransferStep, PhaseOver, StopTells, LastLine, StopReturns
<1>3. CASE InfoAnswered \/ InfoFails \/ PushAnswered \/ PushFails \/ Output \/ ServerHandles
  BY <1>3 DEF InfoAnswered, InfoFails, PushAnswered, PushFails, Output, ServerHandles
<1>4. CASE UNCHANGED rvars
  BY <1>4 DEF rvars
<1>5. QED
  BY <1>1, <1>2, <1>3, <1>4 DEF RunNext

LEMMA AlikeStep ==
  ASSUME Typed, Alike, [RunNext]_rvars
  PROVE  Alike' /\ (Len(seen') = Len(seen) + 1 => Closer)
<1>1. CASE AddRtt("echo") \/ AddRtt("request")
  BY <1>1, AddRttAlike
<1>2. Len(seen) \in Nat
  BY DEF Typed, RunTypeOK
<1>3. CASE StartPing("echo") \/ StartPing("request")
  <2>1. ps' = NewPingStats /\ page' = NewWorkerPing /\ seen' = <<>> /\ Len(seen') = 0
    BY <1>3 DEF StartPing
  <2>2. QED
    BY <1>2, <2>1 DEF Alike, More, NewPingStats, NewWorkerPing
<1>4. CASE UNCHANGED pvars
  BY <1>2, <1>4 DEF pvars, Alike, More
<1>5. QED
  BY <1>1, <1>3, <1>4, SamplingSteps

(***************************************************************************)
(* For all round trips and any number of them: with every one, the CLI and *)
(* the browser's worker report the same ping, and jitters that started     *)
(* three tenths of the first change apart and come closer by a fifth.      *)
(***************************************************************************)
THEOREM PagesAgree == RunSpec => ClientsAgree
<1>1. RunInit => Typed /\ Alike
  <2>1. RunInit => Alike
    BY DEF RunInit, Alike, More, NewPingStats, NewWorkerPing
  <2>2. QED
    BY <2>1, TypedInit
<1>2. Typed /\ Alike /\ [RunNext]_rvars => (Typed /\ Alike)'
  BY TypedStep, AlikeStep
<1>3. Typed /\ Alike /\ [RunNext]_rvars => (Len(seen') = Len(seen) + 1 => Closer)
  BY AlikeStep
<1>4. QED
  BY <1>1, <1>2, <1>3, PTL DEF RunSpec, ClientsAgree, Closer

----------------------------------------------------------------------------
(* The plan.                                                               *)

\* Whatever a server says, the streams it leads to are permitted ones.
LEMMA StreamsPermitted ==
  ASSUME NEW info, NEW flags \in FlagOffer, NEW p \in Streams, info[p] \in Int
  PROVE  Resolved(info, flags)[p] \in MinConfigurableStreams .. MaxConfigurableStreams
<1> DEFINE plain == IF info[p] > 0 THEN Clamped(p, info[p]) ELSE Default[p]
<1>1. Resolved(info, flags)[p] = IF p \in DOMAIN flags THEN flags[p] ELSE plain
  BY DEF Resolved, Parameter
<1>2. plain \in MinConfigurableStreams .. MaxConfigurableStreams
  <2>1. Default[p] \in {3, 6}
    BY DEF Default, Streams
  <2>2. QED
    BY <2>1 DEF Clamped, MinConfigurableStreams, MaxConfigurableStreams
<1>3. p \in DOMAIN flags => flags[p] \in MinConfigurableStreams .. MaxConfigurableStreams
  BY CliRunAssumption
<1>4. QED
  BY <1>1, <1>2, <1>3

\* Both documents of a server say the same, and the merge keeps it.
LEMMA PageSays ==
  ASSUME NEW c \in Config, NEW flags, NEW p \in Parameter \ DOMAIN flags,
         UIConfig(c)[p] > 0
  PROVE  Resolved(Info(c), flags)[p] = UIConfig(c)[p]
<1>1. Info(c) = UIConfig(c)
  BY DEF Info, UIConfig
<1>2. Resolved(Info(c), flags)[p] = Clamped(p, Info(c)[p])
  BY <1>1 DEF Resolved
<1>3. Clamped(p, Info(c)[p]) = Info(c)[p]
  <2>1. CASE p \in Streams
    <3>1. Info(c)[p] = c[p]
      BY <2>1 DEF Info, Streams
    <3>2. c[p] \in MinConfigurableStreams .. MaxConfigurableStreams
      BY <2>1, CliRunAssumption
    <3>3. QED
      BY <3>1, <3>2 DEF Clamped, MinConfigurableStreams, MaxConfigurableStreams
  <2>2. CASE p \notin Streams
    BY <2>2 DEF Clamped
  <2>3. QED
    BY <2>1, <2>2
<1>4. QED
  BY <1>1, <1>2, <1>3

LEMMA PlannedInit == RunInit => Planned
BY DEF RunInit, Planned, Default, Streams, MinConfigurableStreams, MaxConfigurableStreams

\* Only the answer of the server moves the plan.
LEMMA PlanStays ==
  ASSUME [RunNext]_rvars, ~ InfoAnswered
  PROVE  UNCHANGED planvars
<1>1. ASSUME NEW p \in Transfer, TransferStep(p) PROVE UNCHANGED planvars
  BY <1>1 DEF TransferStep, PhaseOver, StopTells, LastLine, StopReturns
<1>2. CASE Ping
  BY <1>2 DEF Ping, Dialled, DialFails, Echo, EchoFails, Request, RequestFails
<1>3. CASE InfoFails \/ PushAnswered \/ PushFails \/ Output \/ ServerHandles
  BY <1>3 DEF InfoFails, PushAnswered, PushFails, Output, ServerHandles
<1>4. CASE UNCHANGED rvars
  BY <1>4 DEF rvars
<1>5. QED
  BY <1>1, <1>2, <1>3, <1>4 DEF RunNext

LEMMA PlannedStep ==
  ASSUME Typed, Planned, [RunNext]_rvars
  PROVE  Planned'
<1>1. CASE ~ InfoAnswered
  BY <1>1, PlanStays DEF planvars, Planned
<1>2. CASE InfoAnswered
  <2>1. opt \in Option /\ opt.flags \in FlagOffer
    BY DEF Typed, RunTypeOK, Option
  <2>2. ASSUME NEW info, NEW ws, Proceed(info, ws),
               \A p \in Streams : info[p] \in Int
        PROVE  /\ opt'.flags = opt.flags /\ plan' = Resolved(info, opt.flags)
               /\ \A p \in Streams :
                    plan'[p] \in MinConfigurableStreams .. MaxConfigurableStreams
    <3>1. opt'.flags = opt.flags /\ plan' = Resolved(info, opt.flags)
      BY <2>1, <2>2 DEF Proceed, Option
    <3>2. QED
      BY <2>1, <2>2, <3>1, StreamsPermitted
  <2>3. CASE \E c \in Config : Proceed(Info(c), TRUE) /\ told' = c
    <3>1. PICK c \in Config : Proceed(Info(c), TRUE) /\ told' = c
      BY <2>3
    <3>2. ASSUME NEW p \in Streams PROVE Info(c)[p] \in Int
      <4>1. Info(c)[p] = c[p]
        BY DEF Info, Streams
      <4>2. c[p] \in MinConfigurableStreams .. MaxConfigurableStreams
        BY CliRunAssumption
      <4>3. QED
        BY <4>1, <4>2
    <3>3. QED
      BY <2>2, <3>1, <3>2 DEF Planned
  <2>4. CASE \E info \in Foreign, ws \in BOOLEAN : Proceed(info, ws) /\ told' = NoConfig
    <3>1. PICK info \in Foreign, ws \in BOOLEAN : Proceed(info, ws) /\ told' = NoConfig
      BY <2>4
    <3>2. \A p \in Streams : info[p] \in Int
      BY CliRunAssumption DEF Parameter
    <3>3. QED
      BY <2>2, <3>1, <3>2 DEF Planned
  <2>5. CASE Proceed(NoInfo, FALSE) /\ told' = NoConfig
    <3>1. \A p \in Streams : NoInfo[p] \in Int
      BY DEF NoInfo, Parameter
    <3>2. QED
      BY <2>2, <2>5, <3>1 DEF Planned
  <2>6. QED
    BY <1>2, <2>3, <2>4, <2>5 DEF InfoAnswered
<1>3. QED
  BY <1>1, <1>2

(***************************************************************************)
(* For every configuration, every answer and all flags, the CLI measures   *)
(* with what a server of its version tells the page, and with a permitted  *)
(* number of streams whatever another server says.                         *)
(***************************************************************************)
THEOREM PlansAsThePage == RunSpec => []PlanIsThePages
<1>1. RunInit => Typed /\ Planned
  BY TypedInit, PlannedInit
<1>2. Typed /\ Planned /\ [RunNext]_rvars => (Typed /\ Planned)'
  BY TypedStep, PlannedStep
<1>3. Planned => PlanIsThePages
  <2> SUFFICES ASSUME Planned PROVE PlanIsThePages
    OBVIOUS
  <2>1. ASSUME told # NoConfig, NEW p \in Parameter \ DOMAIN opt.flags,
               UIConfig(told)[p] > 0
        PROVE  plan[p] = UIConfig(told)[p]
    BY <2>1, PageSays DEF Planned
  <2>2. \A p \in Streams : MinConfigurableStreams <= plan[p] /\ plan[p] <= MaxConfigurableStreams
    BY DEF Planned, MinConfigurableStreams, MaxConfigurableStreams
  <2>3. QED
    BY <2>1, <2>2 DEF PlanIsThePages
<1>4. QED
  BY <1>1, <1>2, <1>3, PTL DEF RunSpec

=============================================================================
