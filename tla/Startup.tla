------------------------------- MODULE Startup --------------------------------
(***************************************************************************)
(* A start of the agent (handle_serve) up to the port being open: which    *)
(* secret signs the tokens (Config::resolve_jwt_secret), who can log in    *)
(* (db/bootstrap.rs), and what a process killed on the way, or a power     *)
(* loss, leaves behind for the next one.  `user set-password` is a process *)
(* of its own.                                                             *)
(*                                                                         *)
(* Grain.  One action per effect on the disk or the terminal.              *)
(*                                                                         *)
(* Abstracted.  A secret is one of those an operator may write, or a       *)
(* generated one; a password hash is the password (bcrypt).  Config::load  *)
(* is what it leaves in jwt_secret; SettingsFile has its writes.  Expiry   *)
(* of the tokens is left out.  The database flushes what it commits        *)
(* (SQLite, synchronous = FULL); jwt.secret is written and never flushed.  *)
(* After a power loss a file has what some moment of its past had, never   *)
(* bytes that were not written.                                            *)
(***************************************************************************)
EXTENDS Integers, FiniteSets

CONSTANTS
  Process,     \* starts of the agent that may overlap
  Generated,   \* bound: the secrets random_hex may return
  Password,    \* bound: the passwords generated or chosen
  Chosen,     \* bound: what the operator may have written at first
  Absent

\* What an operator may write in JWT_SECRET or in jwt_secret.
Configured == {"unset", "empty", "example", "short", "long"}
\* A file without [server] and [monitoring] is taken for the Go agent's.
Settings == [env : Configured, file : Configured, sectioned : BOOLEAN]

ASSUME StartupAssumption ==
  /\ Absent \notin Generated \cup Password \cup {""} /\ "" \notin Generated
  /\ Chosen \subseteq Settings

VARIABLES
  settings,    \* the environment and config.toml as the next start finds them
  secretFile,  \* jwt.secret: Absent, "" or a secret
  onDisk,      \* what a power loss may leave of it
  account,     \* users: the admin's password, or Absent
  started,     \* each process: where it stands, its secret, its settings
  drawn,       \* random values used up
  known,       \* history: the passwords somebody has seen or chosen
  chosen,      \* history: set-password has been run
  unshown,     \* history: a process died between the INSERT and the print
  overlapped,  \* history: two processes were generating a secret at once
  forgotten,   \* history: a power loss changed jwt.secret
  tokens       \* history: tokens given out, with the settings of the process

startupVars == <<settings, secretFile, onDisk, account, started, drawn, known, chosen,
                 unshown, overlapped, forgotten, tokens>>

Down == [at |-> "down", secret |-> "none", under |-> "none", password |-> "none"]

StartupInit ==
  /\ settings \in Chosen
  /\ secretFile = Absent /\ onDisk = {Absent} /\ account = Absent
  /\ started = [p \in Process |-> Down]
  /\ drawn = {} /\ known = {} /\ tokens = {}
  /\ chosen = FALSE /\ unshown = FALSE /\ overlapped = FALSE
  /\ forgotten = FALSE

Becomes(p, at, secret) ==
  started' = [started EXCEPT ![p].at = at, ![p].secret = secret]

(***************************************************************************)
(* Config::load and resolve_jwt_secret                                     *)
(***************************************************************************)
\* An empty variable counts as unset; an empty key of the file does not.
NonEmpty(v) == IF v = "empty" THEN "unset" ELSE v
\* normalize: the Go shape takes the secret from the environment alone.
normalize(s) == IF s.sectioned THEN s.file ELSE NonEmpty(s.env)
\* apply_env_overrides
jwt_secret(s) == IF NonEmpty(s.env) # "unset" THEN s.env ELSE normalize(s)

\* MUTANT (Rejected): only the known example is looked at
RejectsExample(v) == v = "example"
\* KNOWN_DEFAULTS, and MIN_LEN
Rejected(v) == v \in {"example", "short", "empty"}

Load(p) ==
  /\ started[p].at = "down"
  /\ ~Rejected(jwt_secret(settings))
  /\ started' = [started EXCEPT ![p] =
       [at |-> IF jwt_secret(settings) = "unset" THEN "look" ELSE "database",
        secret |-> jwt_secret(settings), under |-> jwt_secret(settings),
        password |-> "none"]]
  /\ UNCHANGED <<settings, secretFile, onDisk, forgotten, account, drawn, known, chosen,
                 unshown, overlapped, tokens>>

\* path.exists(), and the read; a file cut short stops the start.
LookForFile(p) ==
  /\ started[p].at = "look"
  /\ IF secretFile = Absent THEN Becomes(p, "generate", "none")
     ELSE IF secretFile = "" THEN Becomes(p, "down", "none")
     ELSE Becomes(p, "database", secretFile)
  /\ UNCHANGED <<settings, secretFile, onDisk, forgotten, account, drawn, known, chosen,
                 unshown, overlapped, tokens>>

\* fs::write truncates or creates the file ...
OpenFile(p) ==
  /\ started[p].at = "generate"
  /\ \E s \in Generated \ drawn :
       drawn' = drawn \cup {s} /\ Becomes(p, "write", s)
  /\ overlapped' = (overlapped \/ secretFile # Absent)
  /\ secretFile' = "" /\ onDisk' = onDisk \cup {""}
  /\ UNCHANGED <<settings, account, known, chosen, unshown, forgotten, tokens>>

\* ... and then writes it, and nothing flushes it; set_permissions may still fail.
\* MUTANT (WrittenSecret): a second random value goes into the file
WrittenSecret_AnotherDraw(p) == CHOOSE s \in Generated : s # started[p].secret
WrittenSecret(p) == started[p].secret

FillFile(p) ==
  /\ started[p].at = "write"
  /\ secretFile' = WrittenSecret(p) /\ onDisk' = onDisk \cup {WrittenSecret(p)}
  /\ \E at \in {"database", "down"} : Becomes(p, at, started[p].secret)
  /\ UNCHANGED <<settings, account, drawn, known, chosen, unshown, overlapped, forgotten,
                 tokens>>

(***************************************************************************)
(* ensure_admin_user                                                       *)
(***************************************************************************)
CountUsers(p) ==
  /\ started[p].at = "database"
  /\ Becomes(p, IF account = Absent THEN "insert" ELSE "bind", started[p].secret)
  /\ UNCHANGED <<settings, secretFile, onDisk, forgotten, account, drawn, known, chosen,
                 unshown, overlapped, tokens>>

\* MUTANT (Inserted): the statement of set_password, which replaces a row
Upserted(was, now) == now
\* A plain INSERT: the username is unique
Inserted(was, now) == IF was = Absent THEN now ELSE was

InsertAdmin(p) ==
  /\ started[p].at = "insert"
  /\ \E w \in Password \ drawn :
       /\ drawn' = drawn \cup {w}
       /\ account' = Inserted(account, w)
       /\ started' = [started EXCEPT
            ![p].at = IF account' = w THEN "print" ELSE "down",
            ![p].password = w]
  /\ UNCHANGED <<settings, secretFile, onDisk, forgotten, known, chosen, unshown,
                 overlapped, tokens>>

\* MUTANT (Shown): the credentials are left to the log, which has none
ShownNowhere(p) == {}
Shown(p) == {started[p].password}

PrintAdmin(p) ==
  /\ started[p].at = "print"
  /\ known' = known \cup Shown(p)
  /\ Becomes(p, "bind", started[p].secret)
  /\ UNCHANGED <<settings, secretFile, onDisk, forgotten, account, drawn, chosen,
                 unshown, overlapped, tokens>>

(***************************************************************************)
(* start_server: the key pair is read and the port bound, or it returns.   *)
(***************************************************************************)
start_server(p) ==
  /\ started[p].at = "bind"
  /\ \/ /\ \A q \in Process : started[q].at # "serving"
        /\ Becomes(p, "serving", started[p].secret)
     \/ Becomes(p, "down", "none")   \* load_rustls_config, or the port taken
  /\ UNCHANGED <<settings, secretFile, onDisk, forgotten, account, drawn, known, chosen,
                 unshown, overlapped, tokens>>

\* login with a right password, and generate_token
login(p) ==
  /\ started[p].at = "serving" /\ account \in known
  /\ tokens' = tokens \cup {[under |-> started[p].under, secret |-> started[p].secret]}
  /\ UNCHANGED <<settings, secretFile, onDisk, forgotten, account, started, drawn, known,
                 chosen, unshown, overlapped>>

verify_token(t, p) == t.secret = started[p].secret

\* Ctrl-C or a kill, at any point.
Die(p) ==
  /\ started[p].at # "down"
  /\ started' = [started EXCEPT ![p] = Down]
  /\ unshown' = (unshown \/ started[p].at = "print")
  /\ UNCHANGED <<settings, secretFile, onDisk, forgotten, account, drawn, known, chosen,
                 overlapped, tokens>>

\* The power goes: every process ends, and jwt.secret is what it was before: the
\* kernel writes it in its own time, and nothing waits for that.  A power loss
\* that takes nothing is a Die of each process.  Bound: once.
PowerLoss ==
  /\ ~forgotten
  /\ secretFile' \in onDisk \ {secretFile} /\ onDisk' = {secretFile'}
  /\ forgotten' = TRUE
  /\ started' = [p \in Process |-> Down]
  /\ unshown' = (unshown \/ \E p \in Process : started[p].at = "print")
  /\ UNCHANGED <<settings, account, drawn, known, chosen, overlapped, tokens>>

(***************************************************************************)
(* The operator.                                                           *)
(***************************************************************************)
\* `user set-password admin`: an upsert.
set_password ==
  /\ \E w \in Password \ drawn :
       drawn' = drawn \cup {w} /\ account' = w /\ known' = known \cup {w}
  /\ chosen' = TRUE
  /\ UNCHANGED <<settings, secretFile, onDisk, forgotten, started, unshown, overlapped,
                 tokens>>

\* "delete it to regenerate"
DeleteSecret ==
  /\ secretFile = "" /\ \A p \in Process : started[p].at = "down"
  /\ secretFile' = Absent /\ onDisk' = onDisk \cup {Absent}
  /\ UNCHANGED <<settings, account, started, drawn, known, chosen, unshown, overlapped,
                 forgotten, tokens>>

\* Bound: one change of the environment, from one usable setting to another.
Reconfigure ==
  /\ settings.env = "unset"
  /\ settings' = [settings EXCEPT !.env = "long"]
  /\ UNCHANGED <<secretFile, onDisk, forgotten, account, started, drawn, known, chosen,
                 unshown, overlapped, tokens>>

StartupNext ==
  \/ \E p \in Process :
       \/ Load(p) \/ LookForFile(p) \/ OpenFile(p) \/ FillFile(p)
       \/ CountUsers(p) \/ InsertAdmin(p) \/ PrintAdmin(p)
       \/ start_server(p) \/ login(p) \/ Die(p)
  \/ PowerLoss
  \/ set_password \/ DeleteSecret \/ Reconfigure

StartupSpec == StartupInit /\ [][StartupNext]_startupVars

-----------------------------------------------------------------------------
StartupTypeOK ==
  /\ settings \in Settings
  /\ secretFile \in {Absent, ""} \cup Generated /\ secretFile \in onDisk
  /\ account \in {Absent} \cup Password
  /\ \A p \in Process :
       /\ started[p].at \in {"down", "look", "generate", "write", "database", "insert",
                             "print", "bind", "serving"}
       /\ started[p].secret \in {"none"} \cup Configured \cup Generated
  /\ drawn \subseteq Generated \cup Password /\ known \subseteq Password

Serving(p) == started[p].at = "serving"

\* Nothing is served under a published, a short or an empty secret.
SecretIsReal == \A p \in Process : Serving(p) => started[p].secret \in {"long"} \cup Generated

\* A token given out before a restart still opens the agent after it, as long
\* as the same setting rules, no two first starts wrote jwt.secret at once, and
\* no power loss took the file before the kernel had written it.
TokensSurvive ==
  \A p \in Process, t \in tokens :
    Serving(p) /\ t.under = started[p].under /\ ~overlapped /\ ~forgotten
      => verify_token(t, p)

\* Whenever the agent serves, somebody has the admin's password or is about to,
\* unless a process was killed between storing a generated one and printing it.
SomebodyCanLogIn ==
  (\E p \in Process : Serving(p)) =>
    account \in known \/ unshown \/ \E p \in Process : started[p].at = "print"

\* A password shown as the initial one opens the account until set-password is
\* run: a later or an overlapping start never replaces it.
ShownPasswordOpens == chosen \/ known \subseteq {account}

\* A started agent can be used, with the secret and the password it says.
StartupHolds == SecretIsReal /\ TokensSurvive /\ SomebodyCanLogIn /\ ShownPasswordOpens
=============================================================================
