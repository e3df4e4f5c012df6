---------------------------- MODULE StatusScript ----------------------------
(***************************************************************************)
(* The status script from the manifest to the sections the agent shows:    *)
(* what sbm_parser's script.rs generates, what a shell prints when it runs  *)
(* it, and how monitoring.rs and parse_script_segments cut that one stream  *)
(* back into one section per command.                                      *)
(*                                                                         *)
(* Grain.  One action per command the script runs, one per line parsed.     *)
(*                                                                         *)
(* Abstracted.  The stream is a sequence of lines, the last one still open, *)
(* and a line a sequence of pieces: a marker, or some text.  A name is the  *)
(* same value encoded and decoded: what matters is that a line is a marker  *)
(* only if it is one marker and nothing else.  A command may print such a   *)
(* line itself: the parser cannot tell it from a marker of the script's.    *)
(* "forged" is the text SrvBoxSep.cpu, a marker without the encoding.  The  *)
(* PowerShell form of the script, CRLF and standard error, which the script *)
(* discards, are left out.                                                  *)
(***************************************************************************)
EXTENDS Naturals, Sequences, SequencesExt

CONSTANTS
  Manifest,   \* the platform's command table: a sequence of [key, extended]
  Off,        \* the sets of keys an app may have disabled
  Dirs,       \* the directories: sequences of command names, in file-name order
  Output,     \* what a command may print: sequences of lines of text
  Spelled     \* the texts that read as an encoded marker, and whose marker each is

Keys == {Manifest[i].key : i \in DOMAIN Manifest}
FileNames == UNION {Range(d) : d \in Dirs}

ASSUME ScriptAssumption ==
  /\ Manifest \in Seq([key: STRING, extended: BOOLEAN])
  /\ \A i, j \in DOMAIN Manifest : Manifest[i].key = Manifest[j].key => i = j
  /\ Dirs \subseteq Seq(STRING) /\ Output \subseteq Seq(STRING)
  /\ \A t \in DOMAIN Spelled :
       Spelled[t] \in [sep : {"SrvBoxSep", "SrvBoxCusCmdSep"}, name : STRING]

VARIABLES
  disabled,  \* ScriptOptions.disabled
  dir,       \* the custom-command directory, as the shell's glob lists it
  script,    \* the commands the running script still has to print
  then,      \* the shell functions still to run
  stream,    \* stdout so far: closed lines and, last, the open one
  printed,   \* history: what each command printed, and whether its last line was ended
  parser,    \* parse_script_segments: what is unread, current, buf
  result,    \* the sections found
  stage      \* "run", "parse", "done", "failed"

scriptVars == <<disabled, dir, script, then, stream, printed, parser, result, stage>>

-----------------------------------------------------------------------------
(* Generating the script *)

Builtin(k) == [sep |-> "SrvBoxSep", name |-> k]
Custom(n)  == [sep |-> "SrvBoxCusCmdSep", name |-> n]

\* The entries of s at the places of S, in their order.
Nth(S, k) == CHOOSE i \in S : Cardinality({j \in S : j <= i}) = k
Picked(s, S) == [k \in 1..Cardinality(S) |-> s[Nth(S, k)]]

\* enabled and segment_list: one half of the manifest, less what is disabled.
segment_list(extended, off) ==
  LET kept == Picked(Manifest, {i \in DOMAIN Manifest :
                                  Manifest[i].extended = extended /\ Manifest[i].key \notin off})
  IN  [i \in DOMAIN kept |-> Builtin(kept[i].key)]

\* unix_custom_cmds: every file of the directory, in the status function only.
custom_cmds(func, files) ==
  IF func = "SbStatus" THEN [i \in DOMAIN files |-> Custom(files[i])] ELSE <<>>

\* build_unix_script: the body of one shell function.
unix_command(func, off, files) ==
  segment_list(func = "SbStatusExt", off) \o custom_cmds(func, files)

-----------------------------------------------------------------------------
(* Running it *)

\* Pieces are appended to the open line, which is the last.
Put(lines, piece) == Front(lines) \o <<Append(Last(lines), piece)>>

Marker(c) == [mark |-> TRUE, sep |-> c.sep, name |-> c.name]
\* A text is a marker when it spells one.
Text(t)   == IF t \in DOMAIN Spelled THEN Marker(Spelled[t]) ELSE [mark |-> FALSE, text |-> t]

\* The output of a command: every line ended but the last, which is ended
\* unless the command stops in the middle of it.
Lines(out, cut) ==
  [i \in DOMAIN out |-> <<Text(out[i])>>] \o (IF cut THEN <<>> ELSE << <<>> >>)

\* `echo "<marker>"`, which ends the line it is on, then what the command prints.
Emit(lines, c, out, cut) == Put(lines, Marker(c)) \o Lines(out, cut)

\* execute_commands: a line end after each function's output.
Joined(lines) == Append(lines, <<>>)

Blank(lines) == \A i \in DOMAIN lines : lines[i] = <<>>

ScriptInit ==
  /\ disabled \in Off /\ dir \in Dirs
  /\ script = unix_command("SbStatusExt", disabled, dir)
  /\ then = <<"SbStatus">>
  /\ stream = << <<>> >> /\ printed = <<>> /\ result = <<>>
  /\ parser = [unread |-> <<>>, current |-> <<>>, buf |-> <<>>]
  /\ stage = "run"

\* The next command of the function: its marker, then whatever it prints.  A
\* built-in command ends its last line; a custom one is the user's text, and
\* may also be killed by `timeout` in the middle of a line.
RunCommand ==
  /\ stage = "run" /\ script # <<>>
  /\ \E out \in Output, cut \in BOOLEAN :
       LET c == Head(script) IN
       /\ cut => c.sep = "SrvBoxCusCmdSep" /\ out # <<>>
       /\ stream' = Emit(stream, c, out, cut)
       /\ printed' = Append(printed, [cmd |-> c, out |-> out, cut |-> cut])
  /\ script' = Tail(script)
  /\ UNCHANGED <<disabled, dir, then, parser, result, stage>>

\* A function returns, and execute_commands runs the next of EXTENDED_FUNCS.
NextFunction ==
  /\ stage = "run" /\ script = <<>> /\ then # <<>>
  /\ stream' = Joined(stream)
  /\ script' = unix_command(Head(then), disabled, dir)
  /\ then' = Tail(then)
  /\ UNCHANGED <<disabled, dir, printed, parser, result, stage>>

\* The last function has returned.  An output with nothing in it is an error
\* of the whole cycle; anything else is parsed, line by line.
Collected ==
  /\ stage = "run" /\ script = <<>> /\ then = <<>>
  /\ stream' = Joined(stream)
  /\ stage' = IF Blank(stream') THEN "failed" ELSE "parse"
  /\ parser' = [parser EXCEPT !.unread = stream']
  /\ UNCHANGED <<disabled, dir, script, then, printed, result>>

-----------------------------------------------------------------------------
(* Parsing it *)

\* MUTANT: a marker is accepted without its encoding.
TakesForged(line) ==
  \/ Len(line) = 1 /\ line[1].mark
  \/ line = <<Text("forged")>>
\* decode_marker_name: the whole line is one encoded marker, whoever wrote it.
IsMarker(line) == Len(line) = 1 /\ line[1].mark

\* MUTANT: a custom command's section is filed under its bare name.
BareKey(sep, name) == [sep |-> "SrvBoxSep", name |-> name]
\* custom_result_key: a custom command's key keeps its separator.
result_key(sep, name) == [sep |-> sep, name |-> name]

\* The key a marker line opens a section under.
KeyOf(line) == IF line[1].mark THEN result_key(line[1].sep, line[1].name)
                               ELSE [sep |-> "SrvBoxSep", name |-> "cpu"]

\* str::trim, on lines: none of the texts is blank.
Trimmed(lines) ==
  LET filled == {i \in DOMAIN lines : lines[i] # <<>>}
  IN  IF filled = {} THEN <<>>
      ELSE SubSeq(lines, CHOOSE i \in filled : \A j \in filled : i <= j,
                         CHOOSE i \in filled : \A j \in filled : j <= i)

\* `flush`: the section under way, if there is one.
Flushed == IF parser.current = <<>> THEN result
           ELSE Append(result, [key |-> parser.current[1], value |-> Trimmed(parser.buf)])

\* A marker closes the section above and opens its own; any other line
\* belongs to the section above, or to none.
ParseLine ==
  /\ stage = "parse" /\ parser.unread # <<>>
  /\ LET line == Head(parser.unread) rest == Tail(parser.unread) IN
     IF IsMarker(line)
       THEN /\ result' = Flushed
            /\ parser' = [unread |-> rest, current |-> <<KeyOf(line)>>, buf |-> <<>>]
       ELSE /\ parser' = [parser EXCEPT !.unread = rest,
                            !.buf = IF parser.current = <<>> THEN @ ELSE Append(@, line)]
            /\ UNCHANGED result
  /\ UNCHANGED <<disabled, dir, script, then, stream, printed, stage>>

ParseEnd ==
  /\ stage = "parse" /\ parser.unread = <<>>
  /\ result' = Flushed /\ stage' = "done"
  /\ UNCHANGED <<disabled, dir, script, then, stream, printed, parser>>

ScriptNext == RunCommand \/ NextFunction \/ Collected \/ ParseLine \/ ParseEnd

ScriptSpec == ScriptInit /\ [][ScriptNext]_scriptVars

-----------------------------------------------------------------------------
\* collect_metrics: the sections as a map, where the last of a key wins.
Raw(k) == LET its == {i \in DOMAIN result : result[i].key = k}
          IN  IF its = {} THEN <<>> ELSE result[CHOOSE i \in its : \A j \in its : j <= i].value

\* custom_cmd_outputs: the custom sections, in the order they were printed.
custom_cmd_outputs ==
  LET own == Picked(result, {i \in DOMAIN result : result[i].key.sep = "SrvBoxCusCmdSep"})
  IN  [i \in DOMAIN own |-> [name |-> own[i].key.name, output |-> own[i].value]]

\* What a command printed, as the lines of its section.
Said(p) == [i \in DOMAIN p.out |-> <<Text(p.out[i])>>]

\* The sections that lines of its output open.
Forges(p) == {Spelled[p.out[i]] : i \in {j \in DOMAIN p.out : p.out[j] \in DOMAIN Spelled}}

Job == {Builtin(k) : k \in Keys} \cup {Custom(n) : n \in FileNames}
Headings == Job \cup {Spelled[t] : t \in DOMAIN Spelled}

ScriptTypeOK ==
  /\ disabled \in Off /\ dir \in Dirs
  /\ script \in Seq(Job) /\ then \in {<<>>, <<"SbStatus">>}
  /\ stage \in {"run", "parse", "done", "failed"}
  /\ \A i \in DOMAIN printed : /\ printed[i].cmd \in Job
                               /\ printed[i].out \in Output /\ printed[i].cut \in BOOLEAN
  /\ \A i \in DOMAIN result : result[i].key \in Headings
  /\ Len(parser.current) \in {0, 1}

\* Every built-in section is what its command printed, whatever the custom
\* commands are called and print: one named like a built-in does not overwrite
\* it, a marker without its encoding is text, and a command cut off in the middle
\* of a line harms nothing that is built in.  A line that is an encoded marker
\* is the exception: it ends the section of the command that prints it, and
\* takes the place of the one it names, if that one was printed before.
BuiltinsStand ==
  stage = "done" =>
    \A i \in DOMAIN printed :
      /\ printed[i].cmd.sep = "SrvBoxSep" /\ Forges(printed[i]) = {}
      /\ \A j \in DOMAIN printed : i < j => printed[i].cmd \notin Forges(printed[j])
      => Raw(printed[i].cmd) = Said(printed[i])

\* When every command ends its last line and none prints a marker, each custom
\* command has its own section, in the order of the files, holding what it printed.
CustomsInOrder ==
  stage = "done" /\ (\A i \in DOMAIN printed : ~printed[i].cut /\ Forges(printed[i]) = {}) =>
    LET own == Picked(printed, {i \in DOMAIN printed :
                                  printed[i].cmd.sep = "SrvBoxCusCmdSep"})
    IN  /\ [i \in DOMAIN own |-> own[i].cmd.name] = dir
        /\ custom_cmd_outputs =
             [i \in DOMAIN own |-> [name |-> own[i].cmd.name, output |-> Said(own[i])]]

\* The stream is cut back into what was printed: both of the above.
SectionsStand == BuiltinsStand /\ CustomsInOrder

\* A custom command that goes wrong breaks only itself, as the comment in
\* unix_custom_cmds has it: every other command has its section.
BreaksOnlyItself ==
  stage = "done" =>
    \A i \in DOMAIN printed :
      ~printed[i].cut /\ Forges(printed[i]) = {} =>
        \E j \in DOMAIN result : /\ result[j].key = printed[i].cmd
                                 /\ result[j].value = Said(printed[i])
=============================================================================
