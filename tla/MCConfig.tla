------------------------------ MODULE MCConfig ------------------------------
(***************************************************************************)
(* Parts of the host that are checked for safety and share no state here,  *)
(* so that a behaviour is of one of them: the database from the start of   *)
(* the program on, the environment variables, the token usage, and a       *)
(* stream, without data, of each end of the multiplexer.                   *)
(*                                                                         *)
(* Token usage: a day of two ticks, a month and a week of two days; the    *)
(* clock crosses two months, the local day starting one tick after the UTC *)
(* day.                                                                    *)
(***************************************************************************)
EXTENDS ConfigBoot, EnvInjection, TokenUsage, StreamMux, TLC

CONSTANTS t1, t2

MCTasks == {t1, t2}
MCSkew == -1
MCLimits == {{[provider |-> "p", scope |-> "monthly", tokens |-> 1, action |-> "block"]},
             {[provider |-> "*", scope |-> "daily", tokens |-> 1, action |-> "block"]}}

VARIABLE part   \* whose behaviour it is, chosen once

ConfigsInit ==
  /\ part \in {"boot", "env", "usage", "streams"}
  /\ ConfigInit /\ (part # "boot" => tables = "none" /\ json = "none")
  /\ EnvInit /\ (part # "env" => provided = {})
  /\ UsageInit /\ (part # "usage" => \A r \in limits : r.provider = "p")
  /\ Init

ConfigsNext ==
  /\ UNCHANGED part
  /\ \/ part = "boot" /\ ConfigNext /\ UNCHANGED <<envVars, usageVars, vars>>
     \/ part = "env" /\ EnvNext /\ UNCHANGED <<configVars, usageVars, vars>>
     \/ part = "usage" /\ UsageNext /\ UNCHANGED <<configVars, envVars, vars>>
     \/ part = "streams" /\ Next /\ UNCHANGED <<configVars, envVars, usageVars>>

ConfigsSpec == ConfigsInit /\ [][ConfigsNext]_<<configVars, envVars, usageVars, vars, part>>

\* The tasks of the environment and the requests.
ConfigsSymmetry == Permutations(MCTasks)
=============================================================================
