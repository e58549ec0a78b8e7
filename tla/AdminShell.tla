----------------------------- MODULE AdminShell -----------------------------
(***************************************************************************)
(* sshpiperd-admin serve: one session channel of an operator.  An exec     *)
(* request runs one command; a shell runs one per line.  With a terminal,  *)
(* inputMux.readLoop reads the channel and hands what is typed either to   *)
(* the line editor or, while a command runs, to its cancel function.       *)
(*                                                                         *)
(* Every command makes an Aggregator of its own, uses it and closes it; as *)
(* a channel runs one command at a time, the variables of Aggregator hold  *)
(* the one of the current command.  Writing to the operator takes no time  *)
(* and fails once the channel is closed.                                   *)
(***************************************************************************)
EXTENDS Aggregator, Scans

CONSTANTS
  Cmd,        \* the goroutine that runs the commands
  Lines,      \* lines the operator may type, sequences of tokens
  MaxKeys,    \* keys the operator types (bound)
  Frames,     \* frames a stream may carry
  MaxFrames   \* frames of a stream (bound)

ASSUME ShellAssumption ==
  /\ Cmd \in Procs /\ MaxKeys \in Nat /\ MaxFrames \in Nat
  /\ Frames \subseteq [kind : STRING, channel : Nat] /\ None \notin Nat

VARIABLES
  mode,       \* "new", or how the channel is used: "exec", "pty", "plain"
  ch,         \* the channel: "open", "closed"
  keys,       \* number of keys typed
  typed,      \* a key on its way through the channel, or None
  reader,     \* readLoop: "none", "read", "feed", "scan", "write", "done"
  key,        \* the key readLoop has read
  taken,      \* the cancel function feed has taken: a command number, 0 for nil
  pipe,       \* the pipe to the line editor: "open", "closed"
  shell,      \* "new", "prompt", "line", "start", "run", "clear", "exit", "ended"
  line,       \* the line read
  cmd,        \* the command it is, while it runs
  command,    \* number of the current command
  cancel,     \* inputMux.cancel, a command number, 0 for nil
  cancelled,  \* the context of the current command is cancelled
  seen,       \* frames a stream in asciicast has delivered, for the properties
  locked,     \* lockedChannel of streamHandler, None before haveChannel
  out         \* records streamHandler has written

muxvars == <<ch, keys, typed, reader, key, taken, pipe>>
runvars == <<shell, line, cmd, command, cancel, cancelled>>
streamvars == <<seen, locked, out>>
svars == <<mode, muxvars, runvars, streamvars>>

----------------------------------------------------------------------------
(* Words and commands.                                                     *)

\* splitArgs, one token: what it is inside of, and the words so far.
SplitToken(s, c) ==
  LET keep == [s EXCEPT !.cur = Append(@, c), !.in = TRUE, !.escape = FALSE]
  IN IF s.escape THEN keep
     ELSE IF s.quote # "" /\ c = s.quote THEN [s EXCEPT !.quote = "", !.in = TRUE]
     ELSE IF c = "\\" /\ s.quote # "'" THEN [s EXCEPT !.escape = TRUE, !.in = @ \/ s.quote # ""]
     ELSE IF s.quote # "" THEN keep
     ELSE IF c = " "
     THEN IF s.in THEN [s EXCEPT !.out = Append(@, s.cur), !.cur = <<>>, !.in = FALSE] ELSE s
     ELSE IF c \in {"'", "\""} THEN [s EXCEPT !.quote = c, !.in = TRUE]
     ELSE keep

\* The same with s bound, so that TLC evaluates it once.
SplitStep(s, c) == CHOOSE t \in {SplitToken(u, c) : u \in {s}} : TRUE

\* The words of a line, or not ok when a quote or a backslash is left open.
SplitResult(s) ==
  [ok |-> s.quote = "" /\ ~s.escape, args |-> IF s.in THEN Append(s.out, s.cur) ELSE s.out]

SplitArgs(l) ==
  LET start == [out |-> <<>>, cur |-> <<>>, in |-> FALSE, quote |-> "", escape |-> FALSE]
      state[n \in 0 .. Len(l)] == IF n = 0 THEN start ELSE SplitStep(state[n - 1], l[n])
  IN CHOOSE r \in {SplitResult(s) : s \in {state[Len(l)]}} : TRUE

\* The cli library: a command, its flags and then its arguments.
ParseCommand(args) ==
  LET n == Len(args)
      flag == IF n >= 3 THEN args[2] ELSE <<>>
      isFlag == flag \in {<<"--instance">>, <<"--format">>}
      rest == SubSeq(args, IF isFlag THEN 4 ELSE 2, n)
  IN [name |-> IF n = 0 THEN <<"help">> ELSE args[1],
      instance |-> IF flag = <<"--instance">> THEN args[3][1] ELSE None,
      format |-> IF flag = <<"--format">> THEN args[3][1] ELSE "raw",
      narg |-> Len(rest),
      session |-> IF rest # <<>> /\ rest[1] # <<>> THEN rest[1][1] ELSE None]

NoCommand == ParseCommand(<<>>)

\* The commands that get as far as newAggregator.
WellFormed(c) ==
  \/ c.name = <<"list">>
  \/ c.name = <<"kill">> /\ c.narg = 1
  \/ c.name = <<"stream">> /\ c.narg = 1 /\ c.format \in {"raw", "asciicast"}

SInit ==
  /\ mode = "new" /\ ch = "open" /\ keys = 0 /\ typed = None
  /\ reader = "none" /\ key = None /\ taken = 0 /\ pipe = "open"
  /\ shell = "new" /\ line = <<>> /\ cmd = NoCommand /\ command = 0 /\ cancel = 0 /\ cancelled = FALSE
  /\ seen = <<>> /\ locked = None /\ out = <<>>

----------------------------------------------------------------------------
(* The operator and inputMux.                                              *)

TypeKey(k) ==
  /\ ch = "open" /\ keys < MaxKeys /\ typed = None /\ mode \in {"pty", "plain"}
  /\ keys' = keys + 1
  /\ typed' = k
  /\ UNCHANGED <<avars, mode, ch, reader, key, taken, pipe, runvars, streamvars>>

Leave ==
  /\ ch = "open" /\ mode # "new"
  /\ ch' = "closed"
  /\ UNCHANGED <<avars, mode, keys, typed, reader, key, taken, pipe, runvars, streamvars>>

\* readLoop reads a key, or the end of the channel.
ReadLoop ==
  /\ reader = "read"
  /\ IF typed # None
     THEN reader' = "feed" /\ key' = typed /\ typed' = None /\ UNCHANGED pipe
     ELSE /\ ch = "closed"
          /\ reader' = "done" /\ pipe' = "closed"
          /\ UNCHANGED <<key, typed>>
  /\ UNCHANGED <<avars, mode, ch, keys, taken, runvars, streamvars>>

\* feed takes the cancel function under the lock ...
Feed ==
  /\ reader = "feed"
  /\ taken' = cancel
  /\ reader' = IF cancel # 0 THEN "scan" ELSE "write"
  /\ UNCHANGED <<avars, mode, ch, keys, typed, key, pipe, runvars, streamvars>>

\* ... and calls it without: by then its command may be over.
Scan ==
  /\ reader = "scan"
  /\ cancelled' = (cancelled \/ (key = "ctrl-c" /\ taken = command))
  /\ reader' = "read" /\ taken' = 0 /\ key' = None
  /\ UNCHANGED <<avars, mode, ch, keys, typed, pipe, shell, line, cmd, command, cancel, streamvars>>

\* pw.Write fails when the pipe is closed; otherwise it waits for ReadLine.
WriteFails ==
  /\ reader = "write" /\ pipe = "closed"
  /\ reader' = "read" /\ key' = None
  /\ UNCHANGED <<avars, mode, ch, keys, typed, taken, pipe, runvars, streamvars>>

----------------------------------------------------------------------------
(* handleSession and the shell.                                            *)

\* handleSession comes to an exec or a shell request.
HandleSession ==
  /\ shell = "new"
  /\ \/ \E l \in Lines : mode' = "exec" /\ shell' = "line" /\ line' = l /\ UNCHANGED reader
     \/ mode' = "pty" /\ shell' = "prompt" /\ reader' = "read" /\ UNCHANGED line
     \/ mode' = "plain" /\ shell' = "prompt" /\ UNCHANGED <<line, reader>>
  /\ UNCHANGED <<avars, ch, keys, typed, key, taken, pipe, cmd, command, cancel, cancelled, streamvars>>

\* A key at the prompt: enter ends a line, Ctrl-C is the end of the input
\* for the line editor and a character like another without one.
Typed(k, interrupts) ==
  \/ k = "enter" /\ shell' = "line" /\ \E l \in Lines : line' = l
  \/ k = "ctrl-c" /\ shell' = (IF interrupts THEN "exit" ELSE shell) /\ UNCHANGED line
  \/ k = "other" /\ UNCHANGED <<shell, line>>

\* ReadLine takes what readLoop writes, or sees that the pipe is closed.
ReadLine ==
  /\ mode = "pty" /\ shell = "prompt"
  /\ IF pipe = "closed"
     THEN shell' = "exit" /\ UNCHANGED <<line, reader, key>>
     ELSE reader = "write" /\ Typed(key, TRUE) /\ reader' = "read" /\ key' = None
  /\ UNCHANGED <<avars, mode, ch, keys, typed, taken, pipe, cmd, command, cancel, cancelled, streamvars>>

\* The loop without a terminal reads the channel itself.
ReadPlain ==
  /\ mode = "plain" /\ shell = "prompt"
  /\ IF typed # None
     THEN Typed(typed, FALSE) /\ typed' = None
     ELSE ch = "closed" /\ shell' = "exit" /\ UNCHANGED <<line, typed>>
  /\ UNCHANGED <<avars, mode, ch, keys, reader, key, taken, pipe, cmd, command, cancel, cancelled, streamvars>>

AfterLine == IF mode = "exec" THEN "exit" ELSE "prompt"

\* runShellLine and runRemoteCommand, up to the start of the command.
RunShellLine ==
  /\ shell = "line"
  /\ \E split \in {SplitArgs(line)} :
       IF mode # "exec" /\ line = <<"exit">>
       THEN shell' = "exit" /\ UNCHANGED <<cmd, command, cancel, cancelled>>
       ELSE IF (mode # "exec" /\ line \in {<<>>, <<"help">>}) \/ ~split.ok
       THEN shell' = AfterLine /\ UNCHANGED <<cmd, command, cancel, cancelled>>
       ELSE /\ shell' = "start"
            /\ cmd' = ParseCommand(split.args)
            /\ command' = command + 1
            /\ cancelled' = FALSE
            /\ cancel' = IF mode = "pty" THEN command + 1 ELSE 0
  /\ line' = <<>>
  /\ UNCHANGED <<avars, mode, muxvars, streamvars>>

----------------------------------------------------------------------------
(* A command.                                                              *)

RunVarsBut(s) == shell' = s /\ UNCHANGED <<line, cmd, command, cancel, cancelled>>

\* The deferred Close, and the command returns.
Finish ==
  /\ CloseAll
  /\ Done(Cmd)
  /\ RunVarsBut("clear")
  /\ UNCHANGED <<world, mode, muxvars, streamvars>>

\* The command checks its arguments and calls newAggregator.
Start ==
  /\ shell = "start"
  /\ IF WellFormed(cmd)
     THEN RefreshResolve(Cmd) /\ RunVarsBut("run")
     ELSE RunVarsBut("clear") /\ UNCHANGED avars
  /\ UNCHANGED <<mode, muxvars, streamvars>>

\* newAggregator has refreshed: it gives up when no instance is known, else
\* the command lists the sessions or goes to the instance it was given.
Refreshed ==
  /\ shell = "run" /\ op[Cmd] = "refreshed"
  /\ IF infos = NoInfos THEN Finish
     ELSE /\ IF cmd.name # <<"list">> /\ cmd.instance # None
             THEN Route(Cmd, cmd.name[1], cmd.instance)
             ELSE ListJobs(Cmd)
          /\ UNCHANGED svars

\* resolveInstance: the one instance that reports the session, else the
\* only instance there is, else none.
ResolveInstance(s) ==
  LET known == {i \in Ids : infos[i] # None}
      matches == Holders(Cmd, s)
      found == IF matches = {} THEN known ELSE matches
  IN IF Cardinality(found) = 1 THEN CHOOSE i \in found : TRUE ELSE None

Listed ==
  /\ shell = "run" /\ op[Cmd] = "list" /\ AllIn(Cmd)
  /\ IF cmd.name = <<"list">> \/ ResolveInstance(cmd.session) = None THEN Finish
     ELSE Route(Cmd, cmd.name[1], ResolveInstance(cmd.session)) /\ UNCHANGED svars

Called == shell = "run" /\ op[Cmd] \in {"called", "unknown"} /\ Finish

\* The calls on the aggregator, all of them under the command's context.
ShellCalls ==
  /\ shell = "run"
  /\ \/ RefreshDial(Cmd) \/ RefreshStore(Cmd)
     \/ \E k \in DOMAIN reply[Cmd] : ServerInfo(Cmd, k) \/ ListReply(Cmd, k) \/ RpcFails(Cmd, k, cancelled)
     \/ Kill(Cmd, cmd.session, cancelled) \/ StreamEnds(Cmd, cmd.session, cancelled)
  /\ UNCHANGED svars

\* One that follows the last header it has seen.
StreamHandler_Follows(f) ==
  LET header == f.kind = "header"
      lock == IF header THEN f.channel ELSE locked
      rec == [kind |-> IF header /\ out # <<>> THEN "r" ELSE f.kind, channel |-> f.channel]
  IN IF cmd.format = "raw"
     THEN /\ out' = IF f.kind = "o" THEN Append(out, f) ELSE out
          /\ UNCHANGED locked
     ELSE /\ locked' = lock
          /\ out' = IF f.channel = lock /\ (header \/ out # <<>>) THEN Append(out, rec) ELSE out

\* streamHandler: asciicast records one channel, that of its first header,
\* from that header on; raw writes the output of all.
StreamHandler(f) ==
  LET header == f.kind = "header"
      lock == IF locked = None /\ header THEN f.channel ELSE locked
      rec == [kind |-> IF header /\ out # <<>> THEN "r" ELSE f.kind, channel |-> f.channel]
  IN IF cmd.format = "raw"
     THEN /\ out' = IF f.kind = "o" THEN Append(out, f) ELSE out
          /\ UNCHANGED locked
     ELSE /\ locked' = lock
          /\ out' = IF f.channel = lock /\ (header \/ out # <<>>) THEN Append(out, rec) ELSE out

\* A frame arrives; when it cannot be written the handler's error ends the
\* stream.
StreamFrame(f) ==
  /\ shell = "run" /\ op[Cmd] = "stream" /\ Len(seen) < MaxFrames /\ Len(out) < MaxFrames
  /\ Answers(target[Cmd]) /\ cmd.session \in live[target[Cmd]]
  /\ seen' = IF cmd.format = "raw" THEN seen ELSE Append(seen, f)
  /\ StreamHandler(f)
  /\ op' = IF ch = "closed" /\ out' # out THEN [op EXCEPT ![Cmd] = "called"] ELSE op
  /\ UNCHANGED <<world, shared, wanted, reply, infoMap, dupes, target, mode, muxvars, runvars>>

\* clearCancel, and the context is released.
Clear ==
  /\ shell = "clear"
  /\ cancel' = 0
  /\ cmd' = NoCommand
  /\ seen' = <<>> /\ locked' = None /\ out' = <<>>
  /\ shell' = AfterLine
  /\ UNCHANGED <<avars, mode, muxvars, line, command, cancelled>>

\* A shell that leaves its pipe open.
ShellExit_NoClose ==
  /\ shell = "exit"
  /\ shell' = "ended"
  /\ ch' = "closed"
  /\ UNCHANGED <<avars, mode, keys, typed, reader, key, taken, pipe, line, cmd, command, cancel, cancelled, streamvars>>

\* The shell returns: mux.close, the exit status and ch.Close.
ShellExit ==
  /\ shell = "exit"
  /\ shell' = "ended"
  /\ pipe' = IF mode = "pty" THEN "closed" ELSE pipe
  /\ ch' = "closed"
  /\ UNCHANGED <<avars, mode, keys, typed, reader, key, taken, line, cmd, command, cancel, cancelled, streamvars>>

Mux == ReadLoop \/ Feed \/ Scan \/ WriteFails
Shell ==
  \/ HandleSession \/ ReadLine \/ ReadPlain \/ RunShellLine
  \/ Start \/ Refreshed \/ Listed \/ Called \/ ShellCalls \/ Clear \/ ShellExit

SNext ==
  \/ \E k \in {"enter", "ctrl-c", "other"} : TypeKey(k)
  \/ Leave \/ Mux \/ Shell
  \/ \E f \in Frames : StreamFrame(f)

----------------------------------------------------------------------------
(* Properties.                                                             *)

\* The positions of the headers among the frames s, and the first of them.
Headers(s) == {n \in DOMAIN s : s[n].kind = "header"}
FirstHeader(s) == FirstOf(Headers(s))

\* The frames of the channel of the first header, from that header on.
Chosen(s) ==
  LET first == FirstHeader(s)
  IN Filter(SubSeq(s, first, Len(s)), {f \in Frames : f.channel = s[first].channel})

\* Those as they are to be recorded.
Recording(s) ==
  IF Headers(s) = {} THEN <<>>
  ELSE [n \in DOMAIN Chosen(s) |->
          LET f == Chosen(s)[n]
          IN IF n > 1 /\ f.kind = "header" THEN [f EXCEPT !.kind = "r"] ELSE f]

\* A recording is one channel's, complete from its first header: that
\* header once, every later header as a resize, every event in between,
\* whatever other channels' frames and early events the stream carries.
CastIsOneChannel == shell = "run" /\ cmd.format = "asciicast" => out = Recording(seen)

\* A Ctrl-C that feed takes for the running command ends that command, also
\* a stream of a session on which nothing happens.
InterruptEnds ==
  (reader = "scan" /\ key = "ctrl-c" /\ taken = command /\ shell = "run") ~> shell # "run"

\* readLoop does not outlive the shell, even when a key came in after the
\* line that ended it and readLoop is writing to a line editor that is gone.
ReaderEnds == shell = "ended" ~> reader \in {"none", "done"}
============================================================================
