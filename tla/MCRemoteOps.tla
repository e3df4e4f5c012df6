----------------------------- MODULE MCRemoteOps -----------------------------
(***************************************************************************)
(* What a remote caller does with the machine, checked side by side: the   *)
(* file API, /exec, and the connection to the local sshd.  They share no   *)
(* state; `part` says which of them moves.                                 *)
(***************************************************************************)
EXTENDS RemoteFiles, RemoteExec, SshHost, TLC

VARIABLE scene

vars == <<scene, filesVars, execVars, hostVars>>

\* One link to a file, one out of the roots.
MCLinks == "l" :> "a" @@ "out" :> Outside

Init == /\ scene \in {"files", "exec", "host"}
        /\ FilesInit /\ ExecInit /\ HostInit
        /\ scene # "files" => dir["a"] = Nothing /\ dir["b"] = Nothing
        /\ scene # "host" => serving = CHOOSE k \in HostKey : TRUE

Files_ == scene = "files" /\ UNCHANGED <<scene, execVars, hostVars>>
Exec_  == scene = "exec"  /\ UNCHANGED <<scene, filesVars, hostVars>>
Host_  == scene = "host"  /\ UNCHANGED <<scene, filesVars, execVars>>

Next == \/ Files_ /\ FilesNext
        \/ Exec_ /\ ExecNext
        \/ Host_ /\ HostNext

Spec == Init /\ [][Next]_vars /\ WF_vars(Exec_ /\ Handler) /\ WF_vars(Exec_ /\ TimePasses)

TypeOK == FilesTypeOK /\ ExecTypeOK /\ HostTypeOK

\* What is written and what is read are whole files (RemoteFiles).
FilesStand == FilesWhole /\ ReadIsOneVersion

\* ExecAnswers of RemoteExec, in the behaviours where /exec is what moves.
ExecAlwaysAnswers == scene = "exec" => ExecAnswers
=============================================================================
