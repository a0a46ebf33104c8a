------------------------------- MODULE Shell -------------------------------
(***************************************************************************)
(* The shell (user/sh.c) and the process it is started by (user/init.c):   *)
(* a line is parsed into a tree of commands, and runcmd runs the tree with *)
(* fork, pipe, dup, close, open and wait.  A step is one system call.      *)
(*                                                                         *)
(* Programs read their input to the end and exit; one that writes to a     *)
(* pipe may exit at once.  A line is a sequence of tokens; what gettoken   *)
(* and peek do with characters and blanks is left out, and so is cd.       *)
(***************************************************************************)
EXTENDS Integers, Sequences, FiniteSets, FiniteSetsExt, SequencesExt

CONSTANTS
  Lines,      \* lines that are typed
  MAXARGS,
  Pids, NOFILE,
  ForkFails   \* whether fork may fail

(***************************************************************************)
(* Parsing.  A parser returns the command and the rest of the tokens.      *)
(***************************************************************************)
Symbols == {"|", "(", ")", ";", "&", "<", ">", ">>"}
Redirects == {"<", ">", ">>"}

execcmd(argv) == [type |-> "EXEC", argv |-> argv]
Bad == [type |-> "BAD"]   \* panic: the process exits

peek(s, toks) == s # <<>> /\ Head(s) \in toks

\* A node of the tree; panic in a part is panic.
Unary(type, c) == IF c = Bad THEN Bad ELSE [type |-> type, cmd |-> c]
Binary(type, l, r) == IF l = Bad \/ r = Bad THEN Bad ELSE [type |-> type, left |-> l, right |-> r]

redircmd(c, tok, file) ==
  IF c = Bad THEN Bad ELSE [type |-> "REDIR", cmd |-> c, file |-> file, mode |-> tok, fd |-> IF tok = "<" THEN 0 ELSE 1]

\* The arguments and redirections from s on, after argv; in parseblock there are
\* only redirections.
RECURSIVE Words(_, _, _, _)
Words(s, argv, redirs, block) ==
  IF peek(s, Redirects)
    THEN IF Len(s) < 2 \/ s[2] \in Symbols THEN [ok |-> FALSE, s |-> <<>>]
         ELSE Words(SubSeq(s, 3, Len(s)), argv, Append(redirs, <<s[1], s[2]>>), block)
  ELSE IF block \/ s = <<>> \/ peek(s, {"|", ")", "&", ";"})
    THEN [ok |-> TRUE, s |-> s, argv |-> argv, redirs |-> redirs]
  ELSE IF Head(s) \in Symbols \/ Len(argv) + 1 >= MAXARGS THEN [ok |-> FALSE, s |-> <<>>]
  ELSE Words(Tail(s), Append(argv, Head(s)), redirs, block)

\* Mutation of Redirected: the first redirection is outermost.
Redirected_first(c, redirs) == FoldRight(LAMBDA r, d : redircmd(d, r[1], r[2]), redirs, c)

\* Each redirection goes around those before it.
Redirected(c, redirs) == FoldLeft(LAMBDA d, r : redircmd(d, r[1], r[2]), c, redirs)

RECURSIVE parseline(_)
RECURSIVE parsepipe(_)

parseblock(s) ==
  LET l == parseline(Tail(s))
      w == Words(Tail(l.s), <<>>, <<>>, TRUE) IN
  IF l.cmd = Bad \/ ~peek(l.s, {")"}) \/ ~w.ok THEN [cmd |-> Bad, s |-> <<>>]
  ELSE [cmd |-> Redirected(l.cmd, w.redirs), s |-> w.s]

parseexec(s) ==
  LET w == Words(s, <<>>, <<>>, FALSE) IN
  IF peek(s, {"("}) THEN parseblock(s)
  ELSE IF ~w.ok THEN [cmd |-> Bad, s |-> <<>>]
  ELSE [cmd |-> Redirected(execcmd(w.argv), w.redirs), s |-> w.s]

parsepipe(s) ==
  LET e == parseexec(s)
      r == parsepipe(Tail(e.s)) IN
  IF ~peek(e.s, {"|"}) THEN e ELSE [cmd |-> Binary("PIPE", e.cmd, r.cmd), s |-> r.s]

RECURSIVE Backs(_)
Backs(p) == IF peek(p.s, {"&"}) THEN Backs([cmd |-> Unary("BACK", p.cmd), s |-> Tail(p.s)]) ELSE p

parseline(s) ==
  LET b == Backs(parsepipe(s))
      r == parseline(Tail(b.s)) IN
  IF ~peek(b.s, {";"}) THEN b ELSE [cmd |-> Binary("LIST", b.cmd, r.cmd), s |-> r.s]

\* Leftovers are an error.
parsecmd(s) == LET l == parseline(s) IN IF l.s # <<>> THEN Bad ELSE l.cmd

(***************************************************************************)
(* What runcmd does for a command, as a sequence of system calls.  in and  *)
(* out are the input and output the command is given, for the properties.  *)
(***************************************************************************)
Call(op) == [op |-> op]
Close(fd) == [op |-> "close", fd |-> fd]
ClosePipe == <<[op |-> "closep", k |-> 1], [op |-> "closep", k |-> 2]>>
Fork(code, bg) == [op |-> "fork", code |-> code, bg |-> bg]

\* Mutation of PipeEnd: the child keeps the ends of the pipe.
PipeEnd_open(fd, k) == <<Close(fd), [op |-> "dup", k |-> k]>>

\* A child of PIPE: end k of the pipe becomes descriptor fd.
PipeEnd(fd, k) == <<Close(fd), [op |-> "dup", k |-> k]>> \o ClosePipe

\* Mutation of PipeParent: it keeps the pipe open while it waits.
PipeParent_open == <<Call("wait"), Call("wait"), Call("exit")>>

\* Mutation of PipeParent: it waits for one of the children.
PipeParent_once == ClosePipe \o <<Call("wait"), Call("exit")>>

PipeParent == ClosePipe \o <<Call("wait"), Call("wait"), Call("exit")>>

RECURSIVE runcmd(_, _, _)
runcmd(c, in, out) ==
  CASE c.type = "BAD" -> <<Call("exit")>>
    [] c.type = "EXEC" -> IF c.argv = <<>> THEN <<Call("exit")>> ELSE <<[op |-> "exec", in |-> in, out |-> out]>>
    [] c.type = "REDIR" ->
         <<Close(c.fd), [op |-> "open", file |-> c.file]>>
           \o runcmd(c.cmd, IF c.fd = 0 THEN c.file ELSE in, IF c.fd = 1 THEN c.file ELSE out)
    [] c.type = "LIST" -> <<Fork(runcmd(c.left, in, out), FALSE), Call("wait")>> \o runcmd(c.right, in, out)
    [] c.type = "PIPE" ->
         <<Call("pipe"), Fork(PipeEnd(1, 2) \o runcmd(c.left, in, "w"), FALSE),
           Fork(PipeEnd(0, 1) \o runcmd(c.right, "r", out), FALSE)>> \o PipeParent
    [] c.type = "BACK" -> <<Fork(runcmd(c.cmd, in, out), TRUE), Call("exit")>>

VARIABLES
  sh,     \* the shell: at the prompt, waiting for its child, or gone
  proc,   \* the processes it started, and their children
  failed  \* a fork failed since the last line was typed

vars == <<sh, proc, failed>>

None == <<"none">>
Tty == <<"cons">>
SHELL == 0
INIT == -1
Unused == [st |-> "UNUSED", code |-> <<>>, fds |-> <<>>, p |-> <<>>, parent |-> INIT, bg |-> FALSE]
Started == [n \in 0..(NOFILE - 1) |-> IF n < 3 THEN Tty ELSE None]

Init == sh = "prompt" /\ proc = [i \in Pids |-> Unused] /\ failed = FALSE

Alive == {i \in Pids : proc[i].st \in {"shell", "program"}}
Children(i) == {j \in Pids : proc[j].st # "UNUSED" /\ proc[j].parent = i}
Zombies(i) == {j \in Children(i) : proc[j].st = "ZOMBIE"}
Unopened(fds) == {n \in DOMAIN fds : fds[n] = None}
Lowest(fds) == Min(Unopened(fds))
Opened(obj) == \E i \in Alive : \E n \in DOMAIN proc[i].fds : proc[i].fds[n] = obj

NewProc(i, parent, code, fds, p, bg) ==
  [st |-> "shell", code |-> code, fds |-> fds, p |-> p, parent |-> parent, bg |-> bg]

\* Process i exits: its children are init's, which waits for those that are dead.
Exited(i) ==
  [j \in Pids |->
     CASE j = i -> IF proc[i].parent = INIT THEN Unused
                   ELSE [Unused EXCEPT !.st = "ZOMBIE", !.parent = proc[i].parent]
       [] j \in Zombies(i) -> Unused
       [] j \in Children(i) \ Zombies(i) -> [proc[j] EXCEPT !.parent = INIT]
       [] OTHER -> proc[j]]

\* The call at which process i is has returned, with the descriptors fds.
Return(i, fds) == proc' = [proc EXCEPT ![i].code = Tail(@), ![i].fds = fds]
Exit(i) == proc' = Exited(i)

step(i) ==
  LET me == proc[i]
      c == Head(me.code)
      r == Lowest(me.fds)
      k == Min({k \in Pids : ~Opened(<<"r", k>>) /\ ~Opened(<<"w", k>>)}) IN
  /\ me.st = "shell"
  /\ \/ c.op = "exit" /\ Exit(i) /\ UNCHANGED failed
     \/ c.op = "close" /\ Return(i, [me.fds EXCEPT ![c.fd] = None]) /\ UNCHANGED failed
     \/ c.op = "closep" /\ Return(i, [me.fds EXCEPT ![me.p[c.k]] = None]) /\ UNCHANGED failed
     \/ c.op = "dup" /\ Return(i, [me.fds EXCEPT ![r] = me.fds[me.p[c.k]]]) /\ UNCHANGED failed
     \/ /\ c.op = "open"
        /\ Return(i, [me.fds EXCEPT ![r] = <<"file", c.file>>]) \/ Exit(i)
        /\ UNCHANGED failed
     \/ /\ c.op = "pipe"
        /\ LET w == Min(Unopened(me.fds) \ {r}) IN
             proc' = [proc EXCEPT ![i].code = Tail(@), ![i].p = <<r, w>>,
                                  ![i].fds = [@ EXCEPT ![r] = <<"r", k>>, ![w] = <<"w", k>>]]
        /\ UNCHANGED failed
     \/ /\ c.op = "exec"
        /\ proc' = [proc EXCEPT ![i].st = "program"] \/ Exit(i)
        /\ UNCHANGED failed
     \/ /\ c.op = "wait"
        /\ IF Children(i) = {} THEN Return(i, me.fds)
           ELSE \E j \in Zombies(i) : proc' = [proc EXCEPT ![i].code = Tail(@), ![j] = Unused]
        /\ UNCHANGED failed
  /\ UNCHANGED sh

\* fork1: without a process it panics, and the caller exits.
fork1(i) ==
  LET me == proc[i]
      c == Head(me.code)
      unused == {j \in Pids : proc[j].st = "UNUSED"} IN
  /\ me.st = "shell" /\ c.op = "fork"
  /\ \/ /\ unused # {}
        /\ proc' = [proc EXCEPT ![i].code = Tail(@),
                      ![Min(unused)] = NewProc(Min(unused), i, c.code, me.fds, me.p, me.bg \/ c.bg)]
        /\ UNCHANGED failed
     \/ (unused = {} \/ ForkFails) /\ Exit(i) /\ failed' = TRUE
  /\ UNCHANGED sh

\* A program has read its input to the end.
AtEnd(i) == proc[i].fds[0][1] = "r" => ~Opened(<<"w", proc[i].fds[0][2]>>)
finish(i) ==
  /\ proc[i].st = "program" /\ AtEnd(i)
  /\ Exit(i) /\ UNCHANGED <<sh, failed>>

(***************************************************************************)
(* The shell's loop in main, and init's.                                   *)
(***************************************************************************)
\* As a bound, the next line is typed when nothing runs in the background.
getcmd(line) ==
  LET unused == {j \in Pids : proc[j].st = "UNUSED"} IN
  /\ sh = "prompt" /\ Alive = {}
  /\ \/ /\ unused # {}
        /\ sh' = "wait"
        /\ proc' = [proc EXCEPT ![Min(unused)] =
                      NewProc(Min(unused), SHELL, runcmd(parsecmd(line), "cons", "cons"), Started, <<>>, FALSE)]
     \/ (unused = {} \/ ForkFails) /\ sh' = "gone" /\ UNCHANGED proc
  /\ failed' = FALSE

wait ==
  /\ sh = "wait"
  /\ \E j \in Zombies(SHELL) : proc' = [proc EXCEPT ![j] = Unused]
  /\ sh' = "prompt" /\ UNCHANGED failed

\* End of input, or no process: the shell exits.  init waits for it and starts
\* another.
eof == sh = "prompt" /\ sh' = "gone" /\ UNCHANGED <<proc, failed>>
initmain == sh = "gone" /\ sh' = "prompt" /\ UNCHANGED <<proc, failed>>

Next ==
  \/ \E i \in Pids : step(i) \/ fork1(i) \/ finish(i)
  \/ (\E line \in Lines : getcmd(line)) \/ wait \/ eof \/ initmain

(***************************************************************************)
(* Properties.                                                             *)
(***************************************************************************)
\* The prompt comes back only when all that the line runs in the foreground is
\* done, whatever of it ended first, unless a fork failed.
ForegroundDone == sh = "prompt" /\ ~failed => \A i \in Alive : proc[i].bg

Kind(obj) == IF obj[1] = "file" THEN obj[2] ELSE obj[1]

\* A program is run with the input and output its place in the line gives it,
\* and has no other descriptor open: no end of a pipe, which would keep the
\* reader of that pipe from its end.
ProgramFds ==
  \A i \in Alive : proc[i].st = "program" =>
    LET fds == proc[i].fds
        c == Head(proc[i].code) IN
    /\ DOMAIN fds \ Unopened(fds) = {0, 1, 2}
    /\ Kind(fds[0]) = c.in /\ Kind(fds[1]) = c.out

\* The prompt comes back: while the shell waits, some process can go on.  A
\* reader at a pipe that nobody will close, with its parent waiting for it,
\* could not.  (Every step shortens what is left to do.)
NobodyStuck ==
  sh = "wait" =>
    \/ Zombies(SHELL) # {}
    \/ \E i \in Alive : IF proc[i].st = "program" THEN AtEnd(i)
                        ELSE Head(proc[i].code).op = "wait" => Children(i) = {} \/ Zombies(i) # {}

(***************************************************************************)
(* The text of a command, with parentheses where the grammar asks for them.*)
(***************************************************************************)
RECURSIVE Text(_)
ExecText(c) == IF c.type \in {"EXEC", "REDIR"} THEN Text(c) ELSE <<"(">> \o Text(c) \o <<")">>
PipeText(c) == IF c.type = "PIPE" THEN Text(c) ELSE ExecText(c)
BackText(c) == IF c.type = "BACK" THEN Text(c) ELSE PipeText(c)
Text(c) ==
  CASE c.type = "EXEC" -> c.argv
    [] c.type = "REDIR" -> ExecText(c.cmd) \o <<c.mode, c.file>>
    [] c.type = "PIPE" -> ExecText(c.left) \o <<"|">> \o PipeText(c.right)
    [] c.type = "BACK" -> BackText(c.cmd) \o <<"&">>
    [] c.type = "LIST" -> BackText(c.left) \o <<";">> \o Text(c.right)

\* The parser understands every command as it was meant: precedence, nesting
\* and the order of redirections.
RoundTrip(c) == parsecmd(Text(c)) = c

RECURSIVE Trees(_)
Trees(n) ==
  IF n = 0 THEN {execcmd(<<"a">>)}
  ELSE LET t == Trees(n - 1) IN
       t \cup {Unary("BACK", c) : c \in t} \cup {redircmd(c, m, "f") : c \in t, m \in {"<", ">"}}
         \cup {Binary(x[1], x[2], x[3]) : x \in {"PIPE", "LIST"} \X t \X t}
====
