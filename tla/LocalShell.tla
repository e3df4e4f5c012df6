----------------------------- MODULE LocalShell -----------------------------
(***************************************************************************)
(* A shell on a local PTY (src/monitor/src/ssh/local_pty.rs) and the task  *)
(* that drives it (drive_local_shell in src/monitor/src/api/ws/terminal.rs):*)
(* the reader's thread, the reaper's thread, the bounded channel between   *)
(* them and the driver, and the PTY's two buffers.                         *)
(*                                                                         *)
(* Grain.  A blocking call is a state of its own: read, blocking_send and  *)
(* the lock in the threads, and the write of a keystroke in the driver,    *)
(* which is not an await and stops it.                                     *)
(*                                                                         *)
(* External: the shell, which reads a line, prints, leaves something in    *)
(* the background that keeps the PTY open (or is a ConPTY, which stays     *)
(* open by itself), and exits; the browser behind the session.             *)
(*                                                                         *)
(* Abstracted: output to numbered chunks; resizing; how the shell is       *)
(* chosen; the exit status.                                                *)
(***************************************************************************)
EXTENDS Naturals, Sequences

CONSTANTS
  Channel,     \* the channel's capacity
  PtyOut,      \* chunks the PTY's output buffer holds
  PtyIn,       \* chunks its input buffer holds
  PrintBound,  \* bound of the model: chunks printed
  TypeBound    \* bound of the model: chunks typed

ASSUME ShellAssumption == {Channel, PtyOut, PtyIn, PrintBound, TypeBound} \subseteq Nat \ {0}

VARIABLES
  shell,      \* "waiting" for input, "printing", "exited"
  heldOpen,   \* the slave is open without the shell
  printed,    \* chunks printed so far
  drawn,      \* the last chunk read from the PTY
  inBuf,      \* chunks in its input buffer
  readerAt,   \* "read", "lock", "send", "ending", "done"
  reaperAt,   \* "poll", "wait", "lock", "send", "done"
  readerDone, \* reader_done
  gate,       \* who holds delivery_closed: "free", "reader", "reaper"
  closed,     \* its value
  events,     \* the channel
  driver,     \* "select", "write", "done"
  typed,      \* chunks of input the browser has sent
  pending,    \* of them, in the session's input queue
  closing,    \* a Close is behind them
  shown,      \* what was published, in order
  cutOff      \* history: the wait for the reader ran out

shellVars == <<shell, heldOpen, printed, drawn, inBuf, readerAt, reaperAt, readerDone,
               gate, closed, events, driver, typed, pending, closing, shown, cutOff>>

Exit == 0   \* among the numbers of the chunks, the exit

ShellInit ==
  /\ shell = "waiting" /\ heldOpen = FALSE /\ printed = 0 /\ drawn = 0 /\ inBuf = 0
  /\ readerAt = "read" /\ reaperAt = "poll" /\ readerDone = FALSE
  /\ gate = "free" /\ closed = FALSE /\ events = <<>>
  /\ driver = "select" /\ typed = 0 /\ pending = 0 /\ closing = FALSE
  /\ shown = <<>> /\ cutOff = FALSE

Slave == shell # "exited" \/ heldOpen
Space == Len(events) < Channel

-----------------------------------------------------------------------------
\* The reader's thread.

ReadPty ==
  /\ readerAt = "read"
  /\ \/ drawn < printed /\ drawn' = drawn + 1 /\ readerAt' = "lock"
     \/ drawn = printed /\ ~Slave /\ readerAt' = "ending" /\ UNCHANGED drawn
  /\ UNCHANGED <<shell, heldOpen, printed, inBuf, reaperAt, readerDone, gate, closed,
                 events, driver, typed, pending, closing, shown, cutOff>>

ReaderLocks ==
  /\ readerAt = "lock" /\ gate = "free"
  /\ IF closed THEN readerAt' = "ending" /\ UNCHANGED gate
               ELSE readerAt' = "send" /\ gate' = "reader"
  /\ UNCHANGED <<shell, heldOpen, printed, drawn, inBuf, reaperAt, readerDone, closed,
                 events, driver, typed, pending, closing, shown, cutOff>>

\* MUTANT: the guard lives until the next chunk is there.
HeldGate == "reader"

\* The guard is dropped with the iteration.
FreeGate == "free"

\* blocking_send: room, or nobody to receive.
ReaderSends ==
  /\ readerAt = "send"
  /\ IF driver = "done"
     THEN readerAt' = "ending" /\ gate' = "free" /\ UNCHANGED events
     ELSE /\ Space
          /\ events' = Append(events, drawn)
          /\ readerAt' = "read"
          /\ gate' = FreeGate
  /\ UNCHANGED <<shell, heldOpen, printed, drawn, inBuf, reaperAt, readerDone, closed,
                 driver, typed, pending, closing, shown, cutOff>>

ReaderEnds ==
  /\ readerAt = "ending"
  /\ readerAt' = "done" /\ readerDone' = TRUE
  /\ UNCHANGED <<shell, heldOpen, printed, drawn, inBuf, reaperAt, gate, closed, events,
                 driver, typed, pending, closing, shown, cutOff>>

-----------------------------------------------------------------------------
\* The reaper's thread.

Reap ==
  /\ reaperAt = "poll" /\ shell = "exited"
  /\ reaperAt' = "wait"
  /\ UNCHANGED <<shell, heldOpen, printed, drawn, inBuf, readerAt, readerDone, gate, closed,
                 events, driver, typed, pending, closing, shown, cutOff>>

\* MUTANT: the wait ends at the first wakeup.
WakeAnyTime == UNCHANGED cutOff

\* MUTANT: the wait has no end of its own.
WaitForReader == readerDone /\ UNCHANGED cutOff

\* wait_timeout_while: the reader is done, or the time is over.
Wake == cutOff' = ~readerDone

StopWaiting ==
  /\ reaperAt = "wait"
  /\ Wake
  /\ reaperAt' = "lock"
  /\ UNCHANGED <<shell, heldOpen, printed, drawn, inBuf, readerAt, readerDone, gate, closed,
                 events, driver, typed, pending, closing, shown>>

ReaperLocks ==
  /\ reaperAt = "lock" /\ gate = "free"
  /\ gate' = "reaper" /\ closed' = TRUE /\ reaperAt' = "send"
  /\ UNCHANGED <<shell, heldOpen, printed, drawn, inBuf, readerAt, readerDone, events,
                 driver, typed, pending, closing, shown, cutOff>>

ReaperSends ==
  /\ reaperAt = "send"
  /\ Space \/ driver = "done"
  /\ events' = IF driver = "done" THEN events ELSE Append(events, Exit)
  /\ reaperAt' = "done" /\ gate' = "free"
  /\ UNCHANGED <<shell, heldOpen, printed, drawn, inBuf, readerAt, readerDone, closed,
                 driver, typed, pending, closing, shown, cutOff>>

-----------------------------------------------------------------------------
\* The driver.  Its end kills the shell and drops the receiver.

Ended == driver' = "done" /\ events' = <<>>

TakeInput ==
  /\ driver = "select" /\ pending > 0
  /\ pending' = pending - 1 /\ driver' = "write"
  /\ UNCHANGED <<shell, heldOpen, printed, drawn, inBuf, readerAt, reaperAt, readerDone,
                 gate, closed, events, typed, closing, shown, cutOff>>

\* The PTY takes the chunk, once it has room; without a slave the write may
\* fail.
WriteInput ==
  /\ driver = "write"
  /\ \/ /\ inBuf < PtyIn
        /\ inBuf' = inBuf + 1 /\ driver' = "select" /\ UNCHANGED events
     \/ ~Slave /\ Ended /\ UNCHANGED inBuf
  /\ UNCHANGED <<shell, heldOpen, printed, drawn, readerAt, reaperAt, readerDone, gate,
                 closed, typed, pending, closing, shown, cutOff>>

TakeClose ==
  /\ driver = "select" /\ pending = 0 /\ closing
  /\ Ended
  /\ UNCHANGED <<shell, heldOpen, printed, drawn, inBuf, readerAt, reaperAt, readerDone,
                 gate, closed, typed, pending, closing, shown, cutOff>>

TakeEvent ==
  /\ driver = "select" /\ events # <<>>
  /\ shown' = Append(shown, Head(events))
  /\ IF Head(events) = Exit THEN Ended ELSE events' = Tail(events) /\ UNCHANGED driver
  /\ UNCHANGED <<shell, heldOpen, printed, drawn, inBuf, readerAt, reaperAt, readerDone,
                 gate, closed, typed, pending, closing, cutOff>>

-----------------------------------------------------------------------------
\* The shell and the browser.

Speaks ==
  /\ shell = "printing" \/ heldOpen
  /\ printed < PrintBound /\ printed - drawn < PtyOut
  /\ printed' = printed + 1
  /\ UNCHANGED <<shell, heldOpen, drawn, inBuf, readerAt, reaperAt, readerDone, gate,
                 closed, events, driver, typed, pending, closing, shown, cutOff>>

\* One line is read and answered before the next is read.
ReadLine ==
  /\ \/ shell = "waiting" /\ inBuf > 0 /\ inBuf' = inBuf - 1 /\ shell' = "printing"
     \/ shell = "printing" /\ printed - drawn < PtyOut /\ shell' = "waiting" /\ UNCHANGED inBuf
  /\ UNCHANGED <<heldOpen, printed, drawn, readerAt, reaperAt, readerDone, gate, closed,
                 events, driver, typed, pending, closing, shown, cutOff>>

\* Exits by itself or because it was killed.
ShellExits ==
  /\ shell # "exited"
  /\ shell' = "exited"
  /\ heldOpen' \in BOOLEAN
  /\ UNCHANGED <<printed, drawn, inBuf, readerAt, reaperAt, readerDone, gate, closed,
                 events, driver, typed, pending, closing, shown, cutOff>>

LetsGo ==
  /\ shell = "exited" /\ heldOpen /\ heldOpen' = FALSE
  /\ UNCHANGED <<shell, printed, drawn, inBuf, readerAt, reaperAt, readerDone, gate,
                 closed, events, driver, typed, pending, closing, shown, cutOff>>

Browser ==
  /\ ~closing
  /\ \/ typed < TypeBound /\ typed' = typed + 1 /\ pending' = pending + 1 /\ UNCHANGED closing
     \/ closing' = TRUE /\ UNCHANGED <<typed, pending>>
  /\ UNCHANGED <<shell, heldOpen, printed, drawn, inBuf, readerAt, reaperAt, readerDone,
                 gate, closed, events, driver, shown, cutOff>>

-----------------------------------------------------------------------------
Reader == ReadPty \/ ReaderLocks \/ ReaderSends \/ ReaderEnds
Reaper == Reap \/ StopWaiting \/ ReaperLocks \/ ReaperSends
Driver == TakeInput \/ WriteInput \/ TakeClose \/ TakeEvent
Killed == driver = "done" /\ ShellExits

ShellNext == Reader \/ Reaper \/ Driver \/ Speaks \/ ReadLine \/ ShellExits \/ LetsGo \/ Browser

\* The threads and the driver are scheduled, a lock that comes free again and
\* again is got, and a killed shell dies.  The shell owes nothing else.
ShellSpec == /\ ShellInit /\ [][ShellNext]_shellVars
             /\ WF_shellVars(Reader) /\ SF_shellVars(Reaper)
             /\ WF_shellVars(Driver) /\ WF_shellVars(Killed)

ShellTypeOK ==
  /\ shell \in {"waiting", "printing", "exited"} /\ {heldOpen, readerDone, closed, closing,
                cutOff} \subseteq BOOLEAN
  /\ printed \in 0..PrintBound /\ drawn \in 0..printed /\ inBuf \in 0..PtyIn
  /\ readerAt \in {"read", "lock", "send", "ending", "done"}
  /\ reaperAt \in {"poll", "wait", "lock", "send", "done"}
  /\ gate \in {"free", "reader", "reaper"} /\ driver \in {"select", "write", "done"}
  /\ events \in Seq(0..PrintBound) /\ Len(events) <= Channel
  /\ shown \in Seq(0..PrintBound) /\ pending \in 0..typed /\ typed \in 0..TypeBound

Delivered == shown \o events

\* Output reaches the session in order, the exit comes once and last, and
\* when the reader was done before the wait for it ran out nothing printed is
\* missing before the exit ("Preserve the usual PTY contract that the last
\* output comes before the exit notification").
ExitComesLast ==
  /\ \A i \in 1..Len(Delivered) : Delivered[i] = i \/ (Delivered[i] = Exit /\ i = Len(Delivered))
  /\ Delivered # <<>> /\ Delivered[Len(Delivered)] = Exit /\ ~cutOff
       => Len(Delivered) = printed + 1

\* The driver waits for a PTY whose input nobody reads.
Jammed == driver = "write" /\ inBuf = PtyIn /\ Slave

\* When the shell has exited or the browser has closed the session, the
\* driver ends, also while something in the background keeps the PTY open and
\* says nothing: the write of a keystroke to a full PTY is the only thing that
\* can keep it, in a cycle with a shell that prints to one or without.
DriverEnds ==
  []<>~Jammed => ((shell = "exited" \/ closing) ~> driver = "done")

\* After the driver both threads end, the reader when the PTY is closed or
\* the next output comes.
ThreadsEnd ==
  driver = "done" ~> /\ reaperAt = "done" /\ gate = "free"
                     /\ readerAt = "done" \/ heldOpen
=============================================================================
