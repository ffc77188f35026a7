----------------------------- MODULE MCLifecycle -----------------------------
(* Lifecycle for TLC: a sound YAML file for each backend, and what can be   *)
(* wrong with it or be changed by .env and the environment, a setting each. *)
EXTENDS Lifecycle

Sound(b) == [s \in Setting |-> IF s = "backend" THEN b ELSE "good"]
Nothing  == <<>>
Only(s, v) == s :> v

Users == {[username |-> "ann", password_hash |-> "given",
           allow |-> {[namespace |-> "*", actions |-> {"known"}]}]}

Sane(b) == [yamlReads |-> TRUE, dotenvReads |-> TRUE, yaml |-> Sound(b), users |-> Users,
            dotenv |-> Nothing, environment |-> Nothing]

Without(layer, settings) == [s \in DOMAIN layer \ settings |-> layer[s]]

Ann(hash, namespace, actions) ==
    [username |-> "ann", password_hash |-> hash,
     allow |-> {[namespace |-> namespace, actions |-> actions]}]

Intervals == {"bitwarden.poll_interval", "azure.poll_interval", "gcp.poll_interval"}
Credentials == {"azure.tenant_id", "azure.client_id", "azure.client_secret"}

\* What a layer may say of one setting.
Values(s) ==
    CASE s = "backend"   -> {"", "gcp", "other"}
      [] s \in Intervals -> {"", "good", "bad", "garbled"}
      [] OTHER           -> {"", "good", "bad"}

\* One setting missing or wrong in the file, and then put right, or not, in .env,
\* or the other way round; and both of them at odds.
Layered ==
    UNION {UNION {{[Sane(b) EXCEPT !.yaml = y, !.dotenv = d, !.environment = e] :
                     y \in {Sound(b), Without(Sound(b), {s})},
                     d \in {Nothing} \cup {Only(s, v) : v \in Values(s)},
                     e \in {Nothing} \cup {Only(s, v) : v \in Values(s)}} :
              s \in Setting} : b \in Backend}

\* Service principals given in part, in one place or in several.
Parts ==
    {[Sane("azure") EXCEPT !.yaml = Without(Sound("azure"), missing), !.environment = e] :
       missing \in SUBSET Credentials,
       e \in {Nothing} \cup {Only(s, v) : s \in Credentials, v \in {"", "good"}}}

Peopled ==
    {[Sane("gcp") EXCEPT !.users = u] :
       u \in {{}, {[Ann("given", "*", {"known"}) EXCEPT !.username = ""]},
              {[Ann("given", "*", {}) EXCEPT !.allow = {}]},
              Users \cup {Ann("", "valid", {"known"})}}
          \cup {Users \cup {Ann("given", n, a)} : n \in {"", "*", "valid", "malformed"},
                                                a \in SUBSET {"known", "unknown"}}}

Files ==
    {[Sane("bitwarden") EXCEPT !.yamlReads = FALSE], [Sane("bitwarden") EXCEPT !.dotenvReads = FALSE],
     [Sane("gcp") EXCEPT !.yaml = Nothing, !.users = {}]}

Configurations == Layered \cup Parts \cup Peopled \cup Files
==============================================================================
