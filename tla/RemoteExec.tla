----------------------------- MODULE RemoteExec -----------------------------
(***************************************************************************)
(* POST /api/v1/exec (run in src/monitor/src/api/exec.rs): a shell with    *)
(* three pipes, fed first and read afterwards, all within one timeout.     *)
(*                                                                         *)
(* Grain.  The two pipes are the operating system's buffers; the feed and  *)
(* the reads are the awaits of one future, which the timeout drops.        *)
(*                                                                         *)
(* External: the command, which may read, print, close its output or leave *)
(* it to a child that goes on, and exit at any time.                       *)
(*                                                                         *)
(* Abstracted: bytes to counts; the two output streams to one; the exit    *)
(* code; authorisation and the audit row, which come first.                *)
(***************************************************************************)
EXTENDS Naturals

CONSTANTS
  StdinLen,    \* what the caller sends for the command's stdin
  PipeSize,    \* what a pipe holds
  MaxOutput,   \* MAX_OUTPUT
  OutputBound  \* bound of the model: what the command prints

ASSUME ExecAssumption ==
  {StdinLen, PipeSize, MaxOutput, OutputBound} \subseteq Nat /\ PipeSize > 0

VARIABLES
  phase,    \* the handler: "feed", "collect", "answered", "expired", "failed"
  unsent,   \* of stdin
  inPipe,   \* in the stdin pipe
  inOpen,   \* our end of it
  readAll,  \* what the command has read
  command,  \* "running", "exited", "killed"
  child,    \* whether something it started still has the output open
  printed,  \* what went into the output pipe
  outPipe,  \* in it
  output,   \* what wait_with_output has read
  reply,    \* length and truncated flag of the output in the answer
  elapsed   \* TIMEOUT is over

execVars == <<phase, unsent, inPipe, inOpen, readAll, command, child, printed,
              outPipe, output, reply, elapsed>>

ExecInit ==
  /\ phase = "feed" /\ unsent = StdinLen /\ inPipe = 0 /\ inOpen = TRUE /\ readAll = 0
  /\ command = "running" /\ child = FALSE /\ printed = 0 /\ outPipe = 0 /\ output = 0
  /\ reply = <<0, FALSE>>
  /\ elapsed = FALSE

\* write_all to the pipe: a command that has gone makes it fail, which ends
\* the feed and no more.
Feed ==
  /\ phase = "feed" /\ unsent > 0
  /\ IF command # "running"
     THEN phase' = "collect" /\ inOpen' = FALSE /\ UNCHANGED <<unsent, inPipe>>
     ELSE /\ inPipe < PipeSize
          /\ unsent' = unsent - 1
          /\ inPipe' = inPipe + 1
          /\ UNCHANGED <<phase, inOpen>>
  /\ UNCHANGED <<readAll, command, child, printed, outPipe, output, reply, elapsed>>

Fed ==
  /\ phase = "feed" /\ unsent = 0
  /\ phase' = "collect" /\ inOpen' = FALSE
  /\ UNCHANGED <<unsent, inPipe, readAll, command, child, printed, outPipe, output,
                 reply, elapsed>>

Collect ==
  /\ phase = "collect" /\ outPipe > 0
  /\ outPipe' = outPipe - 1 /\ output' = output + 1
  /\ UNCHANGED <<phase, unsent, inPipe, inOpen, readAll, command, child, printed, reply, elapsed>>

\* MUTANT: the exit of the command is enough.
AtExit == command # "running"

\* wait_with_output: the command has exited and its output has ended, which it
\* has not while anything it started holds on to it.
AtEnd == command # "running" /\ ~child /\ outPipe = 0

cap(n) == IF n <= MaxOutput THEN <<n, FALSE>> ELSE <<MaxOutput, TRUE>>

Answer ==
  /\ phase = "collect" /\ AtEnd
  /\ phase' = "answered"
  /\ reply' = cap(output)
  /\ UNCHANGED <<unsent, inPipe, inOpen, readAll, command, child, printed, outPipe,
                 output, elapsed>>

\* The future is dropped, by the timeout or with its client, and the shell is
\* killed with it (kill_on_drop); what it started is not.
Abandon ==
  /\ inOpen' = FALSE
  /\ command' = IF command = "running" THEN "killed" ELSE command
  /\ UNCHANGED <<unsent, inPipe, readAll, child, printed, outPipe, output, reply, elapsed>>

\* MUTANT: the feed is awaited before the timeout starts.
TimeoutAfterFeed == phase = "collect" /\ elapsed /\ phase' = "expired" /\ Abandon

Timeout == phase \in {"feed", "collect"} /\ elapsed /\ phase' = "expired" /\ Abandon

ClientGone == phase \in {"feed", "collect"} /\ phase' = "failed" /\ Abandon

TimePasses ==
  /\ ~elapsed /\ elapsed' = TRUE
  /\ UNCHANGED <<phase, unsent, inPipe, inOpen, readAll, command, child, printed,
                 outPipe, output, reply>>

-----------------------------------------------------------------------------
\* The command.

ReadsInput ==
  /\ command = "running" /\ inPipe > 0
  /\ inPipe' = inPipe - 1 /\ readAll' = readAll + 1
  /\ UNCHANGED <<phase, unsent, inOpen, command, child, printed, outPipe, output, reply, elapsed>>

Listening == phase \notin {"expired", "failed"}

Prints ==
  /\ command = "running" \/ child
  /\ Listening /\ printed < OutputBound /\ outPipe < PipeSize
  /\ printed' = printed + 1 /\ outPipe' = outPipe + 1
  /\ UNCHANGED <<phase, unsent, inPipe, inOpen, readAll, command, child, output, reply, elapsed>>

Forks ==
  /\ command = "running" /\ child' \in BOOLEAN \ {child}
  /\ UNCHANGED <<phase, unsent, inPipe, inOpen, readAll, command, printed, outPipe,
                 output, reply, elapsed>>

Exits ==
  /\ command = "running" /\ command' = "exited"
  /\ UNCHANGED <<phase, unsent, inPipe, inOpen, readAll, child, printed, outPipe,
                 output, reply, elapsed>>

ChildExits ==
  /\ command # "running" /\ child /\ child' = FALSE
  /\ UNCHANGED <<phase, unsent, inPipe, inOpen, readAll, command, printed, outPipe,
                 output, reply, elapsed>>

Handler == Feed \/ Fed \/ Collect \/ Answer \/ Timeout
Command == ReadsInput \/ Prints \/ Forks \/ Exits \/ ChildExits

ExecNext == Handler \/ ClientGone \/ TimePasses \/ Command

ExecSpec == ExecInit /\ [][ExecNext]_execVars /\ WF_execVars(Handler) /\ WF_execVars(TimePasses)

-----------------------------------------------------------------------------
ExecTypeOK ==
  /\ phase \in {"feed", "collect", "answered", "expired", "failed"}
  /\ unsent \in 0..StdinLen /\ inPipe \in 0..PipeSize /\ readAll \in 0..StdinLen
  /\ command \in {"running", "exited", "killed"}
  /\ {inOpen, child, elapsed} \subseteq BOOLEAN
  /\ printed \in 0..OutputBound /\ outPipe \in 0..PipeSize /\ output \in 0..OutputBound

\* An answer that is not a timeout has everything the command and its children
\* printed, up to the cap, and says so when that is not all; no answer
\* leaves the shell running, the one of a timeout included ("kill_on_drop
\* handles the process").
ExecAnswerIsWhole ==
  /\ phase = "answered" => /\ reply = cap(printed)
                          /\ command = "exited" /\ ~child
  /\ phase \in {"answered", "expired", "failed"} => command # "running" /\ ~inOpen
  /\ inOpen <=> phase = "feed"
  /\ StdinLen = unsent + inPipe + readAll

\* Every request is answered, by a command that deadlocks with its own feed
\* (it prints more than a pipe holds before it has read its input) too.
ExecAnswers == <>(phase \in {"answered", "expired", "failed"})
=============================================================================
