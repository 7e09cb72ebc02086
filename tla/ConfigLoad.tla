------------------------------ MODULE ConfigLoad ------------------------------
(***************************************************************************)
(* The configuration loader (internal/mapping): what becomes of a file and *)
(* of the environment the process starts in.                               *)
(*                                                                         *)
(* A setting is abstracted to what the loader tells apart: it is empty, it *)
(* is "good", or it is "bad".  A bad value does not have the form the      *)
(* setting needs; a bad name of a variable is one that holds no secret.    *)
(***************************************************************************)
EXTENDS Integers, Sequences

Values == {"", "good", "bad"}

\* The settings an environment variable of their own (PFB_*) overrides.
Overridable == {"listen", "log_level", "forge_url", "token_env", "forge_secret_env",
                "plane_url", "workspace", "api_key_env", "plane_secret_env"}

Settings == Overridable \cup {"bot_user", "bot_member"}

\* Settings that name the variable a secret is in.
SecretNames == {"token_env", "forge_secret_env", "api_key_env", "plane_secret_env"}

\* Settings that must have a certain form: an address with a port that is not 0,
\* a level, an absolute URL, a UUID.
Formed == {"listen", "log_level", "forge_url", "plane_url", "bot_member"}

PRKeys == {"opened", "merged", "closed", "reviewed"}

LinkEntry == [repo : Values, project : Values, identifier : Values,
              prKeys : SUBSET (PRKeys \cup {"other"})]

\* `read' is what opening and decoding the file comes to; an empty file decodes.
File == [read : {"missing", "malformed", "decoded"}, settings : [Settings -> Values],
         links : Seq(LinkEntry), users : SUBSET Values, capacity : Int]

Environment == [Overridable -> Values]

defaultLRUCapacity == 4096

\* applyEnvOverrides: an empty variable overrides nothing.
Overridden(file, env) ==
  [file EXCEPT !.settings =
     [s \in Settings |-> IF s \in Overridable /\ env[s] # "" THEN env[s] ELSE file.settings[s]]]

\* The defaults validate fills in.
Completed(file) ==
  [file EXCEPT
     !.settings = [s \in Settings |-> IF s = "log_level" /\ file.settings[s] = "" THEN "good"
                                      ELSE file.settings[s]],
     !.capacity = IF file.capacity = 0 THEN defaultLRUCapacity ELSE file.capacity]

\* The identifier is optional, and nothing ties it to the project.
LinkValid(link) ==
  /\ link.repo = "good" /\ link.project = "good"
  /\ link.identifier # "bad"
  /\ link.prKeys \subseteq PRKeys

\* validate, of a file whose defaults are filled in.  Links may repeat a
\* repository or a project.
Valid(file) ==
  /\ \A s \in Settings : file.settings[s] # ""
  /\ \A s \in Formed : file.settings[s] = "good"
  /\ \A k \in DOMAIN file.links : LinkValid(file.links[k])
  /\ file.users \subseteq {"good"}
  /\ file.capacity > 0

\* Mutant of SecretsFound: the secret of Plane's webhooks is not looked up.
SecretsFoundButOne(file) ==
  \A s \in SecretNames \ {"plane_secret_env"} : file.settings[s] = "good"

\* resolve: every variable named holds a secret.
SecretsFound(file) == \A s \in SecretNames : file.settings[s] = "good"

\* What is validated and, if it passes, what the program runs with.
Resolved(file, env) == Completed(Overridden(file, env))

\* The sentinel the loader's error wraps, "" for no error, for a file as it is
\* validated.
ErrorOf(prepared) ==
  CASE prepared.read = "missing" -> "ErrConfigMissing"
    [] prepared.read = "malformed" -> "ErrConfigMalformed"
    [] prepared.read = "decoded" /\ ~Valid(prepared) -> "ErrConfigInvalid"
    [] prepared.read = "decoded" /\ Valid(prepared) /\ ~SecretsFound(prepared) ->
         "ErrSecretMissing"
    [] OTHER -> ""

\* Mutant of LoadError: the file is validated before it is overridden.
LoadErrorOfFile(file, env) == ErrorOf(Completed(file))

LoadError(file, env) == ErrorOf(Resolved(file, env))
=============================================================================
