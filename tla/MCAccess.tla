------------------------------ MODULE MCAccess ------------------------------
(***************************************************************************)
(* The ways into the agent, checked side by side: what its rules open, the *)
(* WebSocket doors, one tunnel that is open, the login and a local shell.  *)
(* They share no state; `part` says which of them moves in a behaviour, so *)
(* that their state spaces add up instead of multiplying.                  *)
(***************************************************************************)
EXTENDS Tunnel, TunnelRelay, LoginThrottle, LocalShell, RemoteAccess

VARIABLE part

vars == <<part, tunnelVars, relayVars, loginVars, shellVars, accessVars>>

-----------------------------------------------------------------------------
(* Bound: what the file and the host may say is varied in parts: the doors *)
(* without the switch, the switch and the environment with the doors as    *)
(* installed, and the capacities with both as installed.                   *)

Installed == ~conf.tunnel /\ ~conf.files /\ ~conf.roots /\ host.linux
Unswitched == host.env = "unset" /\ conf.full = "unset" /\ ~conf.insecure
Derives == host.memory = Unset /\ conf.capacity = Unset

Varied ==
  IF part = "rules"
  THEN \/ Derives /\ (Installed \/ Unswitched)
       \/ Installed /\ Unswitched /\ host.tls
  ELSE Derives /\ Installed /\ Unswitched /\ host.tls /\ conf.terminal

Init == /\ part \in {"rules", "doors", "relay", "login", "shell"}
        /\ TunnelInit /\ RelayInit /\ LoginInit /\ ShellInit
        /\ AccessInit /\ Varied

Rules_ == part = "rules" /\ UNCHANGED <<part, tunnelVars, relayVars, loginVars, shellVars>>
Doors_ == part = "doors" /\ UNCHANGED <<part, relayVars, loginVars, shellVars, accessVars>>
Relay_ == part = "relay" /\ UNCHANGED <<part, tunnelVars, loginVars, shellVars, accessVars>>
Login_ == part = "login" /\ UNCHANGED <<part, tunnelVars, relayVars, shellVars, accessVars>>
Shell_ == part = "shell" /\ UNCHANGED <<part, tunnelVars, relayVars, loginVars, accessVars>>

Next == \/ Rules_ /\ AccessNext
        \/ Doors_ /\ TunnelNext
        \/ Relay_ /\ RelayNext
        \/ Login_ /\ LoginNext
        \/ Shell_ /\ ShellNext

Spec ==
  /\ Init /\ [][Next]_vars
  /\ WF_vars(Relay_ /\ Place) /\ WF_vars(Relay_ /\ DropService)
  /\ WF_vars(Relay_ /\ WriterStep) /\ WF_vars(Relay_ /\ (ReadEnd \/ Capacity))
  /\ WF_vars(Relay_ /\ Interval) /\ WF_vars(Relay_ /\ SshdHangsUp)
  /\ WF_vars(Login_ /\ LoginTick)
  /\ WF_vars(Shell_ /\ Reader) /\ SF_vars(Shell_ /\ Reaper)
  /\ WF_vars(Shell_ /\ Driver) /\ WF_vars(Shell_ /\ Killed)

-----------------------------------------------------------------------------
\* Every variable has its type.
TypeOK == TunnelTypeOK /\ RelayTypeOK /\ LoginTypeOK /\ ShellTypeOK /\ AccessTypeOK

\* What is passed on arrives whole, in order and before the end is told: bytes
\* of a client to sshd, output of a local shell to its session (TunnelRelay,
\* LocalShell).
NothingCutOff == TakenIsWritten /\ ExitComesLast

\* What is limited is counted right: the tunnel's slots, the password checks
\* that run, and the failures a blocked key collects (Tunnel, LoginThrottle).
LimitsHold == SlotsExact /\ VerifierBounded /\ LateBounded

\* A tunnel ends with its client and with sshd (TunnelRelay).
RelayEnds == SlotComesBack /\ RelayEndsWithSshd

\* A local shell's driver and threads end (LocalShell).
ShellEnds == DriverEnds /\ ThreadsEnd
=============================================================================
