----------------------------- MODULE RemoteAccess -----------------------------
(***************************************************************************)
(* What the agent opens to whom: RemoteAccessConfig::resolve and the       *)
(* availability rules (src/monitor/src/core/remote_access.rs), the         *)
(* transport and origin checks (src/monitor/src/api/ws/mod.rs), and the    *)
(* endpoints that ask them, each with checks of its own: /capabilities,    *)
(* the tickets, the two sockets, the local shell, /exec, /fs and the       *)
(* custom commands.                                                        *)
(*                                                                         *)
(* Abstracted.  Memory is in KiB; the four capacities take one explicit    *)
(* value, as each is filtered and defaulted in the same way.  The caller   *)
(* has a valid token or ticket: Tunnel models those.                       *)
(***************************************************************************)
EXTENDS Integers, FiniteSets

CONSTANTS
  Memory,    \* physical memory the host may report, in KiB
  Explicit,  \* capacities the file may name, 0 among them
  Unset      \* a field that is absent, memory that cannot be read

ASSUME RemoteAccessAssumption ==
  Memory \subseteq Nat /\ Explicit \subseteq Nat /\ Unset \notin Nat

Link == {"loopback", "network"}
Origin == {"none", "listed", "same", "foreign"}
Switch == {"unset", "on", "off"}
\* The doors that are worth an account on the machine.
FullDoor == {"shell", "exec", "commands"}
Door == FullDoor \cup {"terminal", "tunnel", "files"}

VARIABLES
  conf,    \* RemoteAccessConfig
  host,    \* what resolve reads besides: environment, memory, TLS, platform
  access,  \* RemoteAccess, resolved at startup
  off,     \* AppState.full_access_off
  told,    \* what /capabilities last answered over a link, if it was asked
  socket,  \* the links a terminal socket is open over
  answer   \* the last request at a door, and whether it opened

accessVars == <<conf, host, access, off, told, socket, answer>>

-----------------------------------------------------------------------------
(* Resolving the configuration *)

Clamp(n, low, high) == IF n < low THEN low ELSE IF n > high THEN high ELSE n
KiB == 1 MiB == 1024 GiB == 1024 * 1024

Mem(m) == IF m = Unset THEN 2 * GiB ELSE m

\* What memory gives: slots, KiB of scrollback, and KiB one write may have.
Derived(m) ==
  [slots |-> Clamp(Mem(m) \div GiB, 2, 16),
   scrollback |-> Clamp(Mem(m) \div 4096, 64 * KiB, 2 * MiB),
   write |-> Clamp(Mem(m) \div 4, 64 * MiB, 4 * GiB)]

\* MUTANT: an explicit zero is taken at its word.
TakenAsWritten(explicit, derived) == IF explicit = Unset THEN derived ELSE explicit
\* `filter(|&n| n > 0).unwrap_or(..)`
CapacityOf(explicit, derived) ==
  IF explicit = Unset \/ explicit = 0 THEN derived ELSE explicit

\* The environment beats the file, and the file the platform's default; a
\* value that is not a boolean is ignored.
full_access(c, h) ==
  IF h.env \in {"on", "off"} THEN h.env = "on"
  ELSE IF c.full # "unset" THEN c.full = "on" ELSE h.linux

resolve(c, h) ==
  LET d == Derived(h.memory) IN
  [full |-> full_access(c, h), tunnel |-> c.tunnel, terminal |-> c.terminal,
   insecure |-> c.insecure, files |-> c.files, roots |-> c.roots,
   slots |-> CapacityOf(c.capacity, d.slots),
   scrollback |-> CapacityOf(c.capacity, d.scrollback),
   write |-> CapacityOf(c.capacity, d.write)]

-----------------------------------------------------------------------------
(* The rules every endpoint asks *)

secure_transport(link) == host.tls \/ link = "loopback"

terminal_available(link) ==
  access.terminal /\ (secure_transport(link) \/ access.insecure)

fs_available == access.files /\ access.roots

\* MUTANT: access without SSH asks for a secure link itself.
FullOfItsOwn(link) == access.full /\ secure_transport(link) /\ ~off
\* full_access_available and full_access_allowed
full_access_allowed(link) == terminal_available(link) /\ access.full /\ ~off

origin_allowed(origin) == origin # "foreign"

\* What /capabilities says over a link.
View(link) ==
  [terminal |-> terminal_available(link), full |-> full_access_allowed(link),
   tunnel |-> access.tunnel, files |-> fs_available]

NotTold == [l \in Link |-> <<>>]
NoAnswer == [door |-> "none", link |-> "network", opened |-> FALSE]

AccessInit ==
  /\ conf \in [full: Switch, terminal: BOOLEAN, insecure: BOOLEAN, tunnel: BOOLEAN,
               files: BOOLEAN, roots: BOOLEAN, capacity: Explicit \cup {Unset}]
  /\ host \in [env: Switch \cup {"junk"}, memory: Memory \cup {Unset},
               tls: BOOLEAN, linux: BOOLEAN]
  /\ access = resolve(conf, host)
  /\ off = FALSE /\ socket = {} /\ answer = NoAnswer
  /\ told = NotTold

GetCapabilities(link) ==
  /\ told' = [told EXCEPT ![link] = <<View(link)>>]
  /\ UNCHANGED <<conf, host, access, off, socket, answer>>

Answered(door, link, opened) ==
  answer' = [door |-> door, link |-> link, opened |-> opened]

\* MUTANT: the local shell goes by what the handshake allowed.
AsAtHandshake(link) == link \in socket /\ access.full
\* open_local: derived again, for the link the socket came over.
AllowedNow(link) == full_access_allowed(link)

\* /exec and the custom-command editor.
AskFull(door, link) ==
  /\ door \in {"exec", "commands"}
  /\ Answered(door, link, full_access_allowed(link))
  /\ UNCHANGED <<conf, host, access, off, told, socket>>

\* A terminal socket: the ticket for it and the upgrade ask the same rule.
OpenTerminal(link, origin) ==
  LET opens == terminal_available(link) /\ origin_allowed(origin) IN
  /\ socket' = IF opens THEN socket \cup {link} ELSE socket
  /\ IF origin_allowed(origin) THEN Answered("terminal", link, opens)
                               ELSE answer' = NoAnswer
  /\ UNCHANGED <<conf, host, access, off, told>>

\* The frame that asks for a shell without credentials, on an open socket.
OpenLocal(link) ==
  /\ link \in socket
  /\ Answered("shell", link, AllowedNow(link))
  /\ UNCHANGED <<conf, host, access, off, told, socket>>

CloseTerminal(link) ==
  /\ link \in socket /\ socket' = socket \ {link}
  /\ answer' = NoAnswer
  /\ UNCHANGED <<conf, host, access, off, told>>

\* The tunnel and the file API do not ask how the caller is connected.
AskOther(door, link) ==
  /\ door \in {"tunnel", "files"}
  /\ Answered(door, link, IF door = "tunnel" THEN access.tunnel ELSE fs_available)
  /\ UNCHANGED <<conf, host, access, off, told, socket>>

\* disable_full_access: the file (SettingsFile models the save), then the flag.
SwitchOff ==
  /\ conf' = [conf EXCEPT !.full = "off"] /\ off' = TRUE
  /\ answer' = NoAnswer
  /\ UNCHANGED <<host, access, told, socket>>

\* The agent starts again, and reads the file anew.
StartAgain ==
  /\ access' = resolve(conf, host) /\ off' = FALSE /\ socket' = {}
  /\ told' = NotTold /\ answer' = NoAnswer
  /\ UNCHANGED <<conf, host>>

AccessNext ==
  \/ \E l \in Link : \/ GetCapabilities(l)
                     \/ OpenLocal(l)
                     \/ CloseTerminal(l)
                     \/ \E d \in Door : AskFull(d, l) \/ AskOther(d, l)
                     \/ \E o \in Origin : OpenTerminal(l, o)
  \/ SwitchOff \/ StartAgain

AccessSpec == AccessInit /\ [][AccessNext]_accessVars

-----------------------------------------------------------------------------
AccessTypeOK ==
  /\ off \in BOOLEAN /\ socket \subseteq Link
  /\ access.slots \in Nat /\ access.scrollback \in Nat /\ access.write \in Nat
  /\ answer \in [door: Door \cup {"none"}, link: Link, opened: BOOLEAN]
  /\ \A l \in Link : \/ told[l] = <<>>
                      \/ told[l][1] \in [terminal: BOOLEAN, full: BOOLEAN,
                                         tunnel: BOOLEAN, files: BOOLEAN]

\* Which field of /capabilities speaks for a door.
Promised(view, door) ==
  IF door \in FullDoor THEN view.full
  ELSE IF door = "terminal" THEN view.terminal
  ELSE IF door = "tunnel" THEN view.tunnel ELSE view.files

\* What /capabilities answered is what a door on the same link then does: it
\* opens if it was offered and only then, except that nothing full opens once
\* access without SSH is switched off.
ToldIsTrue ==
  answer.door # "none" /\ told[answer.link] # <<>> =>
    LET promised == Promised(told[answer.link][1], answer.door) IN
    /\ answer.opened => promised
    /\ promised /\ ~answer.opened => off /\ answer.door \in FullDoor

\* No door worth an account opens over a link the terminal is closed to,
\* against the operator's word, or after the switch, whenever the socket was
\* opened: turning the terminal off leaves no door open behind it.
ClosedBehindIt ==
  answer.opened /\ answer.door \in FullDoor =>
    /\ ~off /\ terminal_available(answer.link)
    /\ host.env # "off"
    /\ host.env # "on" => conf.full # "off"

\* No capacity is zero, what the operator wrote is what holds, and more memory
\* never gives less.
CapacitiesWork ==
  /\ \A c \in {access.slots, access.scrollback, access.write} :
       c >= 1 /\ (conf.capacity # Unset /\ conf.capacity > 0 => c = conf.capacity)
  /\ \A m \in Memory :
       m >= Mem(host.memory) =>
         LET more == resolve(conf, [host EXCEPT !.memory = m]) IN
         more.slots >= access.slots /\ more.scrollback >= access.scrollback
           /\ more.write >= access.write

\* The doors do what the agent says and the operator wrote.
DoorsAgree == ToldIsTrue /\ ClosedBehindIt /\ CapacitiesWork
=============================================================================
