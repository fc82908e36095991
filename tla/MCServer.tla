------------------------------- MODULE MCServer -------------------------------
(* An instance for TLC: the environment of the public runtime, each setting of *)
(* it taken away in turn, the other profile, and the environment of a checkout. *)
EXTENDS ServerProperties

PublicEnv ==
    [host |-> "0.0.0.0", mode |-> "public-read-only", commit |-> "release",
     railway |-> Absent, worker |-> "true", single |-> "true", profile |-> "standard-v1",
     webhook |-> "true", secret |-> "secret", operator |-> "token", issueToken |-> "token",
     action |-> "true", proof |-> "true", port |-> Absent, platformPort |-> "8080",
     database |-> "external", model |-> "model"]

LocalEnv == [name \in DOMAIN PublicEnv |-> Absent]

Environs ==
    {PublicEnv, LocalEnv, [PublicEnv EXCEPT !.profile = "demo-v1", !.action = Absent]}
    \cup {[PublicEnv EXCEPT ![name] = Absent] :
             name \in DOMAIN PublicEnv \ {"action", "proof", "platformPort"}}
    \cup {[PublicEnv EXCEPT ![name] = Malformed] : name \in {"secret", "operator"}}
    \cup {[PublicEnv EXCEPT !.port = "4173"], [LocalEnv EXCEPT !.action = "true"]}

FlawSets == {{}, {"no JSON type"}, {"too large"}, {"bad signature", "deleted"},
             {"no delivery id"}, {"foreign ref", "no commit"}}

=============================================================================
