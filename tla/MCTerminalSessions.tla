------------------------ MODULE MCTerminalSessions ------------------------
(* Instances of TerminalSessions for TLC. *)
EXTENDS TerminalSessions, TLC

CONSTANTS c1, c2, f1, f2, s1, alice

\* Two connections of one account, one frame each: takeovers.
TwoConns   == {c1, c2}
OneEach    == f1 :> c1 @@ f2 :> c2
AllAlice   == [c \in Conn |-> alice]
=============================================================================
