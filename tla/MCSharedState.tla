--------------------------- MODULE MCSharedState ---------------------------
(***************************************************************************)
(* What requests of several clients share in the agent, side by side: the  *)
(* store of terminal sessions (TerminalSessions) and config.toml           *)
(* (SettingsFile).  They have no state in common, so a behaviour is one of *)
(* either.                                                                 *)
(***************************************************************************)
EXTENDS MCTerminalSessions, MCSettingsFile

CONSTANT bob

VARIABLE part  \* which of the two moves: "sessions" or "settings"

\* The two connections are of different accounts, racing for the cap.
AliceBob == c1 :> alice @@ c2 :> bob

Symmetry == Permutations(Sid) \cup RequestSymmetry

SharedInit ==
  /\ part \in {"sessions", "settings"} /\ Init /\ ConfigInit
  /\ part = "sessions" => json = "absent"  \* which never matters to it

SharedNext ==
  \/ part = "sessions" /\ Next /\ UNCHANGED <<part, configVars>>
  \/ part = "settings" /\ ConfigNext /\ UNCHANGED <<part, vars>>

SharedSpec == SharedInit /\ [][SharedNext]_<<part, vars, configVars>>
=============================================================================
