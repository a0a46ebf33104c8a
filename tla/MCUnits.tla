------------------------------ MODULE MCUnits ------------------------------
(***************************************************************************)
(* One instance each of the components that share no state: the console,   *)
(* the contents of files, the page tables, the clock, the user-level       *)
(* allocator, the shell and the library of algorithms.  A behaviour is one *)
(* of one of them, chosen at the start, with the others at rest.           *)
(***************************************************************************)
EXTENDS Integers, Sequences

CONSTANTS
  Readers, Writers, INPUT_BUF_SIZE, UART_TX_BUF_SIZE, Wrap, ConsoleLens,
  BSIZE, NDIRECT, DataBlocks, MAXOPBLOCKS,
  Slots, PGSIZE,
  Limit, Units, Morecore,
  MAXARGS, Pids, NOFILE, ForkFails, TreeDepth,
  Sleepers, TickWrap,
  Width, DIRSIZ, BufSize, PatternLen, TextLen, PathLen, InputLen, MemLen

VARIABLES
  which,
  cons, tx, uart, user,
  inuse, data, unlogged, inode, opened,
  used, proc, k,
  ptr, size, freep, brk, live, own,
  sh, jobs, failed, tree,
  ticks, nap, job

(***************************************************************************)
(* Two files: f1 is read and written at length, f2 written a little.       *)
(***************************************************************************)
MCOpened == {1, 2}
MCWriteLens == <<{7}, {2}>>
MCReadLens == <<{5}, {}>>

\* sbrk, and a program of two segments, at sizes that are no multiple of a page.
MCGrow == {-3, 1}
MCImages == {<<1, 3>>}

MCNaps == {-1, 0, 3}

MCLines == {<<"a", "|", "b", "|", "c">>,
            <<"(", "a", "<", "f", ";", "b", ")", ">", "g", "|", "c">>,
            <<"a", "&", ";", "b", ">", "f">>,
            <<"(", "a", "&", ")", "|", "b">>,
            <<"a", ")">>}

C == INSTANCE Console WITH ReadLens <- ConsoleLens
F == INSTANCE FileData WITH Opened <- MCOpened, InodeOf <- <<1, 2>>, Byte <- <<1, 3>>,
                            WriteLens <- MCWriteLens, ReadLens <- MCReadLens
P == INSTANCE PageTable WITH Grow <- MCGrow, Images <- MCImages
M == INSTANCE Malloc WITH Chunk <- Morecore
S == INSTANCE Shell WITH Lines <- MCLines, proc <- jobs
T == INSTANCE Clock WITH Naps <- MCNaps
L == INSTANCE Library

console == <<cons, tx, uart, user>>
file == <<inuse, data, unlogged, inode, opened>>
table == <<used, proc, k>>
heap == <<ptr, size, freep, brk, live, own>>
shell == <<sh, jobs, failed, tree>>
clock == <<ticks, nap>>
vars == <<which, console, file, table, heap, shell, clock, job>>

Nothing == S!execcmd(<<>>)

Init ==
  /\ which \in {"console", "file", "table", "malloc", "shell", "parser", "clock", "library"}
  /\ C!Init /\ F!Init /\ P!Init /\ M!Init /\ S!Init /\ T!Init /\ L!Init
  /\ tree = Nothing

\* A command to parse, and the next.
Parse == \/ tree = Nothing /\ tree' \in S!Trees(TreeDepth)
         \/ tree # Nothing /\ tree' = Nothing

Next ==
  /\ UNCHANGED which
  /\ \/ which = "console" /\ C!Next /\ UNCHANGED <<file, table, heap, shell, clock, job>>
     \/ which = "file" /\ F!Next /\ UNCHANGED <<console, table, heap, shell, clock, job>>
     \/ which = "table" /\ P!Next /\ UNCHANGED <<console, file, heap, shell, clock, job>>
     \/ which = "malloc" /\ M!Next /\ UNCHANGED <<console, file, table, shell, clock, job>>
     \/ which = "shell" /\ S!Next /\ UNCHANGED <<console, file, table, heap, tree, clock, job>>
     \/ which = "parser" /\ Parse /\ UNCHANGED <<console, file, table, heap, sh, jobs, failed, clock, job>>
     \/ which = "clock" /\ T!Next /\ UNCHANGED <<console, file, table, heap, shell, job>>
     \/ which = "library" /\ L!Next /\ UNCHANGED <<console, file, table, heap, shell, clock>>

Spec == Init /\ [][Next]_vars

(***************************************************************************)
(* The properties of the modules, each for its own part.                   *)
(***************************************************************************)
\* consoleintr, consoleread, uartputc and uartstart: the ring of input is an editor of
\* lines, the end of file is a read of 0 bytes, and output leaves in order.
ConsoleInOrder ==
  [][which = "console" => C!ConsoleIsEditor /\ C!EofIsARead /\ C!OutputInOrder]_vars

\* consoleintr, consoleread, uartputc and uartintr: a full buffer is given to the readers,
\* nobody sleeps for what is there, and characters that wait will be sent.
ConsoleAwake ==
  which = "console" => C!FullIsFinished /\ C!ConsoleSleepers /\ C!OutputMoves

\* writei, readi, itrunc: a file is a sequence of bytes.
FileIsSequence == [][which = "file" => F!FileIsSequence]_vars

\* balloc, bmap, itrunc, writei, filewrite: the free map is exact, every byte of a file
\* has a block, and what one transaction logs fits.
FileBlocks ==
  which = "file" => F!BlocksExact /\ F!NoHoles /\ F!WriteFitsLog

\* uvmalloc, uvmdealloc, uvmcopy, exec: exactly the pages below the size are mapped, the
\* error paths lose no page, and no check panics.
TablesExact ==
  which = "table" => P!NoVmPanic /\ P!ImageMapped /\ P!FramesExact

\* malloc and free: no memory is handed out twice or lost, the list is in order, and
\* neighbours are merged.
HeapKept ==
  which = "malloc" => M!HeapExact /\ M!ListInOrder /\ M!Coalesced

\* parsecmd and runcmd: a command is understood as it is meant, its programs get their
\* descriptors and no others, and the prompt comes back, after the foreground.
CommandsRun ==
  /\ which = "shell" => S!ForegroundDone /\ S!ProgramFds /\ S!NobodyStuck
  /\ which = "parser" => tree = Nothing \/ S!RoundTrip(tree)

\* sys_sleep and clockintr: n ticks are n ticks, over the wrap too.
SleepExact == which = "clock" => T!SleepExact

\* memmove, printint, copyin, copyinstr, fetchaddr, skipelem, namecmp, and grep and its
\* matcher compute what their definitions say, on every input within the bounds.
LibraryExact ==
  which = "library" =>
    /\ L!MemmoveExact /\ L!PrintExact
    /\ L!CopyinExact /\ L!FetchExact
    /\ L!PathExact
    /\ L!MatchExact /\ L!GrepExact
====
