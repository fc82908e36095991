---------------------------- MODULE RuntimeConfig ----------------------------
(***************************************************************************)
(* What a server process is from its environment on: the configuration of  *)
(* server/src/runtime-config.ts, what cli.ts builds of it, and the intake  *)
(* of adapters/src/github-webhook.ts.  Pure.                               *)
(*                                                                         *)
(* A text is read as what it is for the code: absent, malformed, or a      *)
(* value.  Lengths, character classes and messages are left out.           *)
(***************************************************************************)
EXTENDS Naturals, Sequences, FiniteSets

Absent    == "absent"
Malformed == "malformed"

\* Variables that are read even when what they configure is off.
Texts == {"host", "mode", "commit", "railway", "worker", "single", "profile", "webhook",
          "operator", "issueToken", "action", "proof", "port", "platformPort", "database"}

\* A flag is on only when it says so; a webhook secret is read only if it is used.
On(env, flag)    == env[flag] = "true"
Given(env, name) == env[name] # Absent
Public(env)      == env.host = "0.0.0.0"

\* resolveReleaseCommit: the platform's own commit wins over the configured one.
ReleaseCommit(env) == IF Given(env, "railway") THEN env.railway ELSE env.commit
Port(env) == IF Given(env, "platformPort") THEN env.platformPort
             ELSE IF Given(env, "port") THEN env.port ELSE "4173"
Profile(env) == IF Given(env, "profile") THEN env.profile ELSE "standard-v1"

\* The public runtime the worker and the live proof are built for.
FixedPublicRuntime(env) ==
    /\ Public(env)
    /\ env.mode = "public-read-only"
    /\ ReleaseCommit(env) # Absent

\* Variant: the worker may be enabled without its authorities.
RefusalsOfRuntimeOnly(env) ==
    {<<"text", name>> : name \in {n \in Texts : env[n] = Malformed}}
    \cup {reason \in {"runtime"} : On(env, "worker") /\ ~ FixedPublicRuntime(env)}

\* Every reason resolveQuietOpsRuntimeConfig has to throw; it throws the first.
Refusals(env) ==
    {<<"text", name>> : name \in {n \in Texts : env[n] = Malformed}}
    \cup {reason \in {"secret"} :
            On(env, "webhook") /\ env.secret \in {Absent, Malformed}}
    \cup {reason \in {"ports"} :
            Given(env, "port") /\ Given(env, "platformPort") /\ env.port # env.platformPort}
    \cup {reason \in {"database"} : Public(env) /\ env.database # "external"}
    \cup {reason \in {"public"} : Public(env) /\ ~ FixedPublicRuntime(env)}
    \cup {reason \in {"proof"} : On(env, "proof") /\ ~ FixedPublicRuntime(env)}
    \cup {reason \in {"runtime"} : On(env, "worker") /\ ~ FixedPublicRuntime(env)}
    \cup {reason \in {"intake"} : On(env, "worker") /\ ~ On(env, "webhook")}
    \cup {name \in {"operator", "issueToken", "profile"} :
            On(env, "worker") /\ ~ Given(env, name)}
    \cup {reason \in {"replicas"} : On(env, "worker") /\ ~ On(env, "single")}
    \cup {reason \in {"action"} : On(env, "action") /\ ~ On(env, "worker")}

\* cli.ts reads the model's region and id, one setting here, once the config is
\* accepted and before it opens the file.
ModelIsMissing(env) == (On(env, "worker") \/ On(env, "proof")) /\ ~ Given(env, "model")

Refused(env) == Refusals(env) # {} \/ ModelIsMissing(env)

-----------------------------------------------------------------------------
(* What the process of an accepted environment installs.                   *)

HasWorker(env)   == On(env, "worker")
HasIntake(env)   == On(env, "webhook")
HasDecision(env) == Given(env, "operator")
HasMarker(env)   == ReleaseCommit(env) # Absent
HasIncident(env) == HasWorker(env) /\ On(env, "action")

-----------------------------------------------------------------------------
(* The intake of a delivery: what may be wrong with it, in the order the   *)
(* route and inspectGitHubPushWebhook look.                                *)

IntakeChecks ==
    <<[defect |-> "no JSON type",       status |-> "415"],
      [defect |-> "too large",          status |-> "413"],
      [defect |-> "bad signature",      status |-> "401"],
      [defect |-> "no delivery id",     status |-> "400"],
      [defect |-> "other event",        status |-> "ignored"],
      [defect |-> "no payload",         status |-> "400"],
      [defect |-> "foreign repository", status |-> "ignored"],
      [defect |-> "foreign ref",        status |-> "ignored"],
      [defect |-> "deleted",            status |-> "ignored"],
      [defect |-> "no commit",          status |-> "ignored"]>>

Defects == {IntakeChecks[i].defect : i \in DOMAIN IntakeChecks}

\* The status of the first check that fails, or "accepted".
Inspect(defects) ==
    IF defects = {} THEN "accepted"
    ELSE LET failing == {i \in DOMAIN IntakeChecks : IntakeChecks[i].defect \in defects}
             first   == CHOOSE i \in failing : \A j \in failing : i <= j
         IN IntakeChecks[first].status

=============================================================================
