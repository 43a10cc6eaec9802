----------------------------- MODULE ResultsApi -----------------------------
(***************************************************************************)
(* The telemetry part of the server, internal/handlers/handlers.go, as a   *)
(* process configured by Settings: results are posted, read by id and      *)
(* listed by concurrent handlers over one TelemetryStore, and the address  *)
(* of a client is resolved by ProxyChain.  The process may be killed and   *)
(* started again at any moment.                                            *)
(***************************************************************************)
EXTENDS Settings, ProxyChain, TelemetryStore

CONSTANTS
  Handler,   \* goroutines that ingest results
  Body,      \* the results clients post
  Via,       \* headers of the posts
  Asked,     \* headers of requests for the client's address
  Bearer,    \* what Authorization carries, "" for nothing
  Limits,    \* limit parameters, 0 for one that is absent or invalid
  NoStamp,   \* the empty time stamp
  MaxNow     \* bound on the clock

ASSUME ApiAssumption ==
  /\ Body \subseteq [stamp : Stamp \cup {NoStamp}, client : Written, bad : BOOLEAN]
  /\ Via \cup Asked \subseteq Header
  /\ ArgsOffer.proxies \cup EnvOffer.proxies \subseteq (SUBSET Addr) \cup {NoNetwork}
  /\ Limits \subseteq Int /\ MaxNow \in Nat

VARIABLES
  now,        \* the clock, in seconds
  saving,     \* the result each handler is about to save
  reply,      \* the answer given by the last step, if it gave one
  answered    \* history: the results whose id was handed out

avars == <<now, saving, reply, answered, rows>>
apivars == <<svars, avars>>

Result == [id : Id, stamp : Stamp, client : Written]

Nothing == [kind |-> "none"]

ApiTypeOK ==
  /\ stage \in {"start", "parsed", "merged", "profiled", "loaded", "serving", "failed"}
  /\ DOMAIN cfg = Flag /\ explicit \subseteq Flag
  /\ now \in 0 .. MaxNow
  /\ saving \in [Handler -> {Nothing} \cup [kind : {"result"}, stamp : Stamp, client : Written]]
  /\ reply.kind \in {"none", "status", "result", "list", "ip"}
  /\ answered \subseteq Result
  /\ rows \in Seq(Result)

ApiInit ==
  /\ SettingsInit
  /\ now = 0
  /\ saving = [h \in Handler |-> Nothing]
  /\ reply = Nothing
  /\ answered = {}
  /\ rows = <<>>

Loading == Load /\ UNCHANGED avars

\* run and New: of the configuration, what this module needs is kept.
Start ==
  /\ stage = "loaded" /\ stage' = "serving"
  /\ args' = Silent /\ env' = Silent /\ explicit' = {}
  /\ cfg' = [Defaults EXCEPT !.telemetry = cfg.telemetry, !.token = cfg.token,
                             !.proxies = cfg.proxies]
  /\ UNCHANGED avars

\* Killed and started again: the handlers are gone, the file is not.
Restart ==
  /\ saving' = [h \in Handler |-> Nothing]
  /\ reply' = Nothing
  /\ UNCHANGED <<now, answered, rows>>

----------------------------------------------------------------------------
Authorized(bearer) == cfg.token = "" \/ bearer = cfg.token

Status(n) == reply' = [kind |-> "status", status |-> n]

\* Faulty variant: only the store is left to stamp a result.
CompletedUnstamped(body, header) ==
  [kind |-> "result", stamp |-> body.stamp,
   client |-> IF body.client = NoAddr THEN FromRequest(cfg.proxies, header)
                                      ELSE body.client]

\* What is left empty is filled in by the server.
Completed(body, header) ==
  [kind |-> "result",
   stamp  |-> IF body.stamp = NoStamp THEN UTC(now) ELSE body.stamp,
   client |-> IF body.client = NoAddr THEN FromRequest(cfg.proxies, header)
                                      ELSE body.client]

\* handleResultsIngest up to Save.
Ingest(h) ==
  /\ saving[h] = Nothing
  /\ \E bearer \in Bearer, body \in Body, header \in Via :
       CASE ~ Authorized(bearer) -> Status(401) /\ UNCHANGED saving
         [] Authorized(bearer) /\ body.bad -> Status(400) /\ UNCHANGED saving
         [] OTHER -> /\ saving' = [saving EXCEPT ![h] = Completed(body, header)]
                     /\ reply' = Nothing
  /\ UNCHANGED <<now, answered, rows>>

\* The row of the result that h saves.
Row(h, id) == [id |-> id, stamp |-> saving[h].stamp, client |-> saving[h].client]

\* Faulty variant: the answer does not wait for the insert to succeed.
FinishAnsweringAnyway(h) ==
  /\ saving[h] # Nothing
  /\ \E id \in Id, ok \in BOOLEAN :
       /\ Fresh(id) /\ \A r \in answered : r.id # id
       /\ IF cfg.telemetry = "sqlite" THEN Save(Row(h, id), ok)
                                      ELSE ok /\ UNCHANGED rows
       /\ Status(200) /\ answered' = answered \cup {Row(h, id)}
  /\ saving' = [saving EXCEPT ![h] = Nothing]
  /\ UNCHANGED now

\* Save and the answer.
Finish(h) ==
  /\ saving[h] # Nothing
  /\ \E id \in Id, ok \in BOOLEAN :
       /\ Fresh(id) /\ \A r \in answered : r.id # id
       /\ IF cfg.telemetry = "sqlite" THEN Save(Row(h, id), ok)
                                      ELSE ok /\ UNCHANGED rows
       /\ IF ok THEN Status(200) /\ answered' = answered \cup {Row(h, id)}
                ELSE Status(500) /\ UNCHANGED answered
  /\ saving' = [saving EXCEPT ![h] = Nothing]
  /\ UNCHANGED now

\* handleResultGet: no token is asked for.
Read ==
  /\ \E id \in Id :
       IF Found(id) THEN reply' = [kind |-> "result", result |-> Get(id)]
                    ELSE Status(404)
  /\ UNCHANGED <<now, saving, answered, rows>>

\* handleStats
Stats ==
  /\ \E bearer \in Bearer, q \in Limits :
       IF Authorized(bearer)
       THEN LET limit == IF q > 0 THEN q ELSE 50
            IN  reply' = [kind |-> "list", limit |-> limit, list |-> List(limit),
                          upto |-> Len(rows)]
       ELSE Status(401)
  /\ UNCHANGED <<now, saving, answered, rows>>

\* handleIP, which changes nothing: it is asked of an idle, empty server only.
Ip ==
  /\ reply = Nothing /\ saving = [h \in Handler |-> Nothing]
  /\ answered = {} /\ rows = <<>>
  /\ \E header \in Asked :
       reply' = [kind |-> "ip", header |-> header,
                 client |-> FromRequest(cfg.proxies, header)]
  /\ UNCHANGED <<now, saving, answered, rows>>

Tick ==
  /\ now < MaxNow /\ now' = now + 1
  /\ reply' = Nothing
  /\ UNCHANGED <<saving, answered, rows>>

Serving ==
  /\ stage = "serving"
  /\ \/ \E h \in Handler : Ingest(h) \/ Finish(h)
     \/ Read \/ Stats \/ Ip \/ Restart \/ Tick
  /\ UNCHANGED svars

ApiNext == Loading \/ Start \/ Serving

ApiSpec == ApiInit /\ [][ApiNext]_apivars

----------------------------------------------------------------------------
(***************************************************************************)
(* With the sqlite store, an id that was handed out reads back as the very *)
(* result that was completed from the post, whatever other handlers store  *)
(* or fail to store, and also after the process was killed.                *)
(***************************************************************************)
AnsweredIsReadable ==
  cfg.telemetry = "sqlite" =>
    \A r \in answered : Found(r.id) /\ Get(r.id) = r

\* Row m is newer than row n, or as new and stored later.
Newer(m, n) ==
  \/ Instant(rows[m].stamp) > Instant(rows[n].stamp)
  \/ Instant(rows[m].stamp) = Instant(rows[n].stamp) /\ m > n

InUTC(n) == rows[n].stamp.zone = "Z"

(***************************************************************************)
(* What List promises, "up to limit most-recent results (newest first)",   *)
(* of the results stamped in UTC to the second, as by server and CLI:      *)
(* none is left out for an older one, none comes after an older one,       *)
(* however handlers and results with other stamps lie between them.        *)
(***************************************************************************)
ListIsNewest ==
  reply.kind = "list" =>
    LET list == reply.list
        At(k) == list[k]
        known == {n \in 1 .. reply.upto : InUTC(n)}
    IN  /\ Len(list) = IF reply.limit < reply.upto THEN reply.limit ELSE reply.upto
        /\ \A k \in DOMAIN list : At(k) \in known =>
             \A m \in known : Newer(m, At(k)) => \E j \in 1 .. k - 1 : At(j) = m

(***************************************************************************)
(* The address given out is the end of the chain of proxies that trusted   *)
(* ones vouch for, in the form that stands for it, and what stands to the  *)
(* left of that makes no difference.                                       *)
(***************************************************************************)
ClientIsChainEnd ==
  reply.kind = "ip" =>
    /\ IsClient(cfg.proxies, reply.header, reply.client)
    /\ \A i \in DOMAIN reply.header.xff, left \in {<<a>> : a \in Written} \cup {<<>>} :
         (reply.header.peer # NoAddr /\ Unmap[reply.header.peer] \in cfg.proxies
            /\ ChainEnd(cfg.proxies, reply.header, i)
            /\ reply.client \notin cfg.proxies) =>
           FromRequest(cfg.proxies, Rewritten(reply.header, i, left)) = reply.client

=============================================================================
