------------------------------- MODULE SshHost -------------------------------
(***************************************************************************)
(* How the browser terminal gets a shell from the local sshd: the host     *)
(* key's trust-on-first-use record (src/monitor/src/ssh/known_hosts.rs)    *)
(* and the steps of one connection (src/monitor/src/ssh/client.rs).        *)
(*                                                                         *)
(* Grain.  verify is two statements with an await between them; every      *)
(* exchange with sshd is an await.                                         *)
(*                                                                         *)
(* External: sshd, whose key may change while the agent runs (something    *)
(* else takes the port), and which accepts, asks or refuses; the database, *)
(* whose statements may fail; the operator, who may delete the record.     *)
(*                                                                         *)
(* Abstracted: fingerprints to keys; one address (remote_access.ssh_addr); *)
(* credentials to their kind.                                              *)
(***************************************************************************)
EXTENDS Naturals

CONSTANTS
  Dial,      \* connections
  HostKey,   \* keys sshd may present
  NoKey,
  EraBound   \* bound of the model: times the operator deletes the record

ASSUME HostAssumption == NoKey \notin HostKey /\ HostKey # {} /\ EraBound \in Nat

VARIABLES
  record,    \* the row of ssh_known_hosts
  serving,   \* the key sshd has now
  stage,     \* where a connection stands
  key,       \* the key it was shown
  found,     \* what its SELECT answered
  rejection, \* what the checker stashed
  reason,    \* the error the browser is told
  era,       \* history: how often the record was deleted
  pinned,    \* history: the record and the era when the key was accepted
  moved      \* history: the record appeared between a SELECT and its INSERT

hostVars == <<record, serving, stage, key, found, rejection, reason, era, pinned, moved>>

HostInit ==
  /\ record = NoKey
  /\ serving \in HostKey
  /\ stage = [d \in Dial |-> "new"]
  /\ key = [d \in Dial |-> NoKey]
  /\ found = [d \in Dial |-> NoKey]
  /\ rejection = [d \in Dial |-> "none"]
  /\ reason = [d \in Dial |-> "none"]
  /\ era = 0
  /\ pinned = [d \in Dial |-> <<NoKey, 0>>]
  /\ moved = [d \in Dial |-> FALSE]

Goes(d, next) == stage' = [stage EXCEPT ![d] = next]

\* client::connect up to check_server_key, or a connection that fails before.
Connect(d) ==
  /\ stage[d] = "new"
  /\ \/ Goes(d, "select") /\ key' = [key EXCEPT ![d] = serving] /\ UNCHANGED reason
     \/ Goes(d, "failed") /\ reason' = [reason EXCEPT ![d] = "connect_failed"] /\ UNCHANGED key
  /\ UNCHANGED <<era, record, serving, found, rejection, pinned, moved>>

Reject(d, why) == Goes(d, "rejected") /\ rejection' = [rejection EXCEPT ![d] = why]

Accept(d) == Goes(d, "connected") /\ pinned' = [pinned EXCEPT ![d] = <<record', era>>]

Compare(d) ==
  \/ record = key[d] /\ Accept(d) /\ UNCHANGED rejection
  \/ record \notin {key[d], NoKey} /\ Reject(d, "host_key_mismatch") /\ UNCHANGED pinned
  \/ record = NoKey /\ Goes(d, "insert") /\ UNCHANGED <<pinned, rejection>>

Select(d) ==
  /\ stage[d] = "select"
  /\ UNCHANGED record
  /\ \/ Reject(d, "connect_failed") /\ UNCHANGED <<pinned, found>>   \* the query failed
     \/ found' = [found EXCEPT ![d] = record] /\ Compare(d)
  /\ UNCHANGED <<era, serving, key, reason, moved>>

\* MUTANT: INSERT OR REPLACE.
Replaced(d) == key[d]

\* INSERT OR IGNORE.
Inserted(d) == IF record = NoKey THEN key[d] ELSE record

Insert(d) ==
  /\ stage[d] = "insert"
  /\ \/ /\ record' = Inserted(d)
        /\ moved' = [moved EXCEPT ![d] = record # NoKey]
        /\ Accept(d)
        /\ UNCHANGED rejection
     \/ Reject(d, "connect_failed") /\ UNCHANGED <<record, moved, pinned>>
  /\ UNCHANGED <<era, serving, key, found, reason>>

\* connect() takes what the checker stashed before the library's own error.
Told(d) == IF rejection[d] # "none" THEN rejection[d] ELSE "connect_failed"

Rejected(d) ==
  /\ stage[d] = "rejected"
  /\ Goes(d, "failed")
  /\ reason' = [reason EXCEPT ![d] = Told(d)]
  /\ rejection' = [rejection EXCEPT ![d] = "none"]
  /\ UNCHANGED <<era, record, serving, key, found, pinned, moved>>

-----------------------------------------------------------------------------
\* authenticate and answer_prompts: a key the browser sent may not parse; only
\* a keyboard-interactive exchange asks for answers, and may ask again.

Outcome(d, next, why) ==
  /\ Goes(d, next)
  /\ reason' = IF next = "failed" THEN [reason EXCEPT ![d] = why] ELSE reason
  /\ UNCHANGED <<era, record, serving, key, found, rejection, pinned, moved>>

Authenticate(d) ==
  /\ stage[d] = "connected"
  /\ \E credential \in {"password", "key", "interactive"} :
       \/ Outcome(d, "authenticated", "none")
       \/ Outcome(d, "failed", "auth_failed")
       \/ Outcome(d, "failed", "protocol_error")
       \/ credential = "key" /\ Outcome(d, "failed", "bad_key")
       \/ credential = "interactive" /\ Outcome(d, "asking", "none")

answer_prompts(d) ==
  /\ stage[d] = "asking"
  /\ \/ Outcome(d, "authenticated", "none")
     \/ Outcome(d, "failed", "auth_failed")
     \/ Outcome(d, "failed", "protocol_error")
     \/ Outcome(d, "asking", "none")

\* A channel, a PTY on it, a shell on that.
open_shell(d) ==
  /\ stage[d] = "authenticated"
  /\ \/ Outcome(d, "shell", "none")
     \/ Outcome(d, "failed", "protocol_error")

Forget(d) ==
  /\ stage[d] \in {"failed", "shell"}
  /\ Goes(d, "new")
  /\ key' = [key EXCEPT ![d] = NoKey] /\ found' = [found EXCEPT ![d] = NoKey]
  /\ reason' = [reason EXCEPT ![d] = "none"] /\ pinned' = [pinned EXCEPT ![d] = <<NoKey, 0>>]
  /\ moved' = [moved EXCEPT ![d] = FALSE]
  /\ UNCHANGED <<era, record, serving, rejection>>

-----------------------------------------------------------------------------
SshdChanges ==
  /\ serving' \in HostKey \ {serving}
  /\ UNCHANGED <<era, record, stage, key, found, rejection, reason, pinned, moved>>

OperatorDeletes ==
  /\ record # NoKey /\ record' = NoKey
  /\ era < EraBound /\ era' = era + 1
  /\ UNCHANGED <<serving, stage, key, found, rejection, reason, pinned, moved>>

Dials(d) == Connect(d) \/ Select(d) \/ Insert(d) \/ Rejected(d)
LogsIn(d) == Authenticate(d) \/ answer_prompts(d) \/ open_shell(d) \/ Forget(d)

HostNext == SshdChanges \/ OperatorDeletes \/ \E d \in Dial : Dials(d) \/ LogsIn(d)

HostSpec == HostInit /\ [][HostNext]_hostVars

-----------------------------------------------------------------------------
HostTypeOK ==
  /\ record \in HostKey \cup {NoKey} /\ serving \in HostKey
  /\ stage \in [Dial -> {"new", "select", "insert", "rejected", "connected", "asking",
                         "authenticated", "shell", "failed"}]
  /\ {key, found} \subseteq [Dial -> HostKey \cup {NoKey}]
  /\ era \in 0..EraBound
  /\ pinned \in [Dial -> (HostKey \cup {NoKey}) \X (0..EraBound)]
  /\ moved \in [Dial -> BOOLEAN]
  /\ {rejection, reason} \subseteq
       [Dial -> {"none", "connect_failed", "host_key_mismatch", "auth_failed",
                 "bad_key", "protocol_error"}]

Trusted == {"connected", "asking", "authenticated", "shell"}

\* A connection goes on only with the key on record, or with the first one
\* seen: of connections that race to be first, those that lost went on with a
\* record they never compared with, and those are all there are.  Until an
\* operator deletes it the record is one and the same for all of them, so no
\* race is a silent re-pin; and a refusal because of the key is told as one.
HostKeyStands ==
  \A d \in Dial :
    /\ stage[d] \in Trusted => key[d] = pinned[d][1] \/ (found[d] = NoKey /\ moved[d])
    /\ \A e \in Dial : stage[d] \in Trusted /\ stage[e] \in Trusted /\ pinned[d][2] = pinned[e][2]
         => pinned[d] = pinned[e]
    /\ found[d] \notin {NoKey, key[d]} => stage[d] \in {"rejected", "failed"}
    /\ stage[d] = "failed" /\ found[d] \notin {NoKey, key[d]}
         => reason[d] = "host_key_mismatch"
=============================================================================
