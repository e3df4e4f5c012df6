-------------------------- MODULE MCSettingsFile --------------------------
(* Instances of SettingsFile for TLC. *)
EXTENDS SettingsFile, TLC

\* The settings page and the switch that only goes off.  The card order takes
\* the path of the settings with a field of its own and no live copy: a third
\* field multiplies the states by twelve and reaches no new step.
SettingsAndSwitch ==
  {[kind |-> "settings", value |-> 1], [kind |-> "full", value |-> FALSE]}

Defaults == [settings |-> 0, order |-> 0, full |-> TRUE]
OldAgent == [settings |-> 1, order |-> 0, full |-> TRUE]

RequestSymmetry == Permutations(Request)
=============================================================================
