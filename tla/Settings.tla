------------------------------ MODULE Settings ------------------------------
(***************************************************************************)
(* How the server finds its configuration, Load of internal/config: flags  *)
(* are parsed over the defaults, the environment is merged into those that *)
(* were not set, the profile of the mode is applied and the whole checked. *)
(*                                                                         *)
(* A value is what a flag's text denotes, Unreadable if its type does not  *)
(* admit it; a source that does not mention a flag gives Absent.  A list   *)
(* of networks is the set of the addresses in them.  Two limits represent  *)
(* the six, and one flag each the other kinds of check: a choice, a free   *)
(* text, a range, a list of networks.                                      *)
(***************************************************************************)
EXTENDS Integers

CONSTANTS
  ArgsOffer,    \* flag -> the values the command line may give it
  EnvOffer,     \* flag -> the values the environment may give it
  NoNetwork,    \* a list of networks with an entry that is none
  Absent,
  Unreadable

Limit == {"rate", "burst"}

Flag == Limit \cup {"mode", "telemetry", "token", "streams", "proxies"}

VARIABLES
  args,       \* what the command line says
  env,        \* what the environment says
  stage,      \* how far Load has come
  cfg,        \* the Config
  explicit    \* the flags that were set

svars == <<args, env, stage, cfg, explicit>>

Defaults ==
  [mode |-> "lan", telemetry |-> "none", token |-> "", streams |-> 6,
   proxies |-> {}, rate |-> 5, burst |-> 10]

ASSUME SettingsAssumption ==
  /\ DOMAIN ArgsOffer = Flag /\ DOMAIN EnvOffer = Flag
  /\ Unreadable # Absent
  /\ \A f \in Flag : Defaults[f] # Unreadable

SourceOf(offer) ==
  [mode : offer.mode \cup {Absent}, telemetry : offer.telemetry \cup {Absent},
   token : offer.token \cup {Absent}, streams : offer.streams \cup {Absent},
   proxies : offer.proxies \cup {Absent}, rate : offer.rate \cup {Absent},
   burst : offer.burst \cup {Absent}]

Silent == [f \in Flag |-> Absent]

Given(source) == {f \in Flag : source[f] # Absent}

\* The flags that are read from a source, and whether all can be.
Readable(source, flags) == \A f \in flags : source[f] # Unreadable

Overridden(source, flags) ==
  [f \in Flag |-> IF f \in flags THEN source[f] ELSE cfg[f]]

SettingsInit ==
  /\ args \in SourceOf(ArgsOffer)
  /\ env \in SourceOf(EnvOffer)
  /\ stage = "start"
  /\ cfg = Defaults
  /\ explicit = {}

\* Load returns an error, and the process ends.
FailLoad == stage' = "failed" /\ UNCHANGED <<args, env, cfg, explicit>>

\* fs.Parse and fs.Visit
ParseArgs ==
  /\ stage = "start"
  /\ IF Readable(args, Given(args))
     THEN /\ cfg' = Overridden(args, Given(args))
          /\ explicit' = Given(args)
          /\ stage' = "parsed"
          /\ UNCHANGED <<args, env>>
     ELSE FailLoad

\* Faulty variant: a flag from the environment does not count as set.
MergeEnvQuietly ==
  /\ stage = "parsed"
  /\ LET merged == Given(env) \ explicit IN
     IF Readable(env, merged)
     THEN /\ cfg' = Overridden(env, merged)
          /\ stage' = "merged"
          /\ UNCHANGED <<args, env, explicit>>
     ELSE FailLoad

\* fs.VisitAll: flags set on the command line are not looked up.
MergeEnv ==
  /\ stage = "parsed"
  /\ LET merged == Given(env) \ explicit IN
     IF Readable(env, merged)
     THEN /\ cfg' = Overridden(env, merged)
          /\ explicit' = explicit \cup merged
          /\ stage' = "merged"
          /\ UNCHANGED <<args, env>>
     ELSE FailLoad

\* applyModeProfile: lan mode switches off the limits that were not set.
ApplyProfile ==
  /\ stage = "merged"
  /\ cfg' = [f \in Flag |->
               IF cfg.mode = "lan" /\ f \in Limit \ explicit THEN 0 ELSE cfg[f]]
  /\ stage' = "profiled"
  /\ UNCHANGED <<args, env, explicit>>

Valid(c) ==
  /\ c.mode \in {"lan", "internet"}
  /\ c.telemetry \in {"none", "sqlite"}
  /\ c.streams \in 3 .. 12
  /\ \A f \in Limit : c[f] >= 0
  /\ c.proxies # NoNetwork

Validate ==
  /\ stage = "profiled"
  /\ IF Valid(cfg) THEN stage' = "loaded" /\ UNCHANGED <<args, env, cfg, explicit>>
                   ELSE FailLoad

Load == ParseArgs \/ MergeEnv \/ ApplyProfile \/ Validate

----------------------------------------------------------------------------
\* The reference: what a flag ends up as, each looked at by itself.
Wanted(f) ==
  CASE f \in Given(args)                       -> args[f]
    [] f \in Given(env) \ Given(args)          -> env[f]
    [] OTHER                                   -> Defaults[f]

Effective(f) ==
  IF f \in Limit /\ f \notin Given(args) \cup Given(env) /\ Wanted("mode") = "lan"
  THEN 0 ELSE Wanted(f)

Acceptable ==
  /\ \A f \in Flag : args[f] # Unreadable /\ Wanted(f) # Unreadable
  /\ Valid([f \in Flag |-> Effective(f)])

(***************************************************************************)
(* What DESIGN.md says of the configuration: a flag wins over its variable *)
(* in the environment, also over one that cannot be read; either wins over *)
(* the profile of the mode, wherever the mode itself came from, and that   *)
(* over the default.  Load fails exactly if this has no acceptable value.  *)
(***************************************************************************)
LoadMatchesPrecedence ==
  /\ stage = "loaded" => Acceptable /\ \A f \in Flag : cfg[f] = Effective(f)
  /\ stage = "failed" => ~ Acceptable

=============================================================================
