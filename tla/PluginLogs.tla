----------------------------- MODULE PluginLogs -----------------------------
(***************************************************************************)
(* How the standard output of a plugin reaches the daemon: a plugin writes *)
(* lines into an os.Pipe, a goroutine scans them into a bounded channel,   *)
(* and the Logs stream that the daemon opened takes them out.  Every       *)
(* callback of the plugin may write, so a pipe that nobody drains would    *)
(* hold up the callbacks.  A line is counted, its text is left out.        *)
(***************************************************************************)
EXTENDS Integers

CONSTANTS
  PipeCap,   \* lines that fit the kernel's pipe buffer
  LogCap     \* capacity of server.logs (1000 in the code)

ASSUME LogAssumption == PipeCap \in Nat \ {0} /\ LogCap \in Nat

VARIABLES
  pipe,      \* lines in the pipe
  scanner,   \* "scan", or "drain" after a line the scanner cannot hold
  logs,      \* lines in the channel
  logstream  \* "none", "open", or "broken": the daemon's Logs stream

lvars == <<pipe, scanner, logs, logstream>>

LInit == pipe = 0 /\ scanner = "scan" /\ logs = 0 /\ logstream = "none"

\* A line fits the pipe; a writer waits until it does.
LineFits == pipe < PipeCap

\* A plugin callback writes a line.
WriteLine == LineFits /\ pipe' = pipe + 1 /\ UNCHANGED <<scanner, logs, logstream>>

\* A scanning goroutine that waits for room in the channel.
Scan_Blocks ==
  /\ pipe > 0 /\ scanner = "scan" /\ logs < LogCap
  /\ pipe' = pipe - 1
  /\ logs' = logs + 1
  /\ UNCHANGED <<scanner, logstream>>

\* The scanning goroutine: the line goes into the channel if there is room
\* and is dropped otherwise; a line that is too long ends the scanning.
Scan ==
  /\ pipe > 0 /\ scanner = "scan"
  /\ pipe' = pipe - 1
  /\ \/ logs' = (IF logs < LogCap THEN logs + 1 ELSE logs) /\ UNCHANGED scanner
     \/ scanner' = "drain" /\ UNCHANGED logs
  /\ UNCHANGED logstream

\* io.Copy(io.Discard, r) after the scanner has given up.
Drain ==
  /\ pipe > 0 /\ scanner = "drain"
  /\ pipe' = pipe - 1
  /\ UNCHANGED <<scanner, logs, logstream>>

\* RecvLogs: the daemon opens the stream.
RecvLogs == logstream = "none" /\ logstream' = "open" /\ UNCHANGED <<pipe, scanner, logs>>

\* The stream breaks: the daemon side stops receiving.
LogStreamBreaks == logstream = "open" /\ logstream' = "broken" /\ UNCHANGED <<pipe, scanner, logs>>

\* server.Logs: takes a line and sends it; the handler ends when Send fails,
\* and with it the line that was taken.
Logs ==
  /\ logs > 0 /\ logstream \in {"open", "broken"}
  /\ logs' = logs - 1
  /\ logstream' = IF logstream = "broken" THEN "none" ELSE "open"
  /\ UNCHANGED <<pipe, scanner>>
============================================================================
