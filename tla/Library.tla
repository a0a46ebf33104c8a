------------------------------ MODULE Library ------------------------------
(***************************************************************************)
(* Algorithms on bytes that the kernel and the programs rely on, as        *)
(* functions, each beside a definition of what it should return: memmove,  *)
(* printint and atoi, copyin and copyinstr, the elements of a path, and    *)
(* the pattern matcher and input loop of grep.                             *)
(*                                                                         *)
(* A string in memory is a sequence; 0 is the byte that ends it.  In a     *)
(* path, 1 and 2 are letters and 3 is the slash.                           *)
(***************************************************************************)
EXTENDS Integers, Sequences, FiniteSets, FiniteSetsExt, SequencesExt

CONSTANTS
  Width,      \* bits of an int
  PGSIZE,
  DIRSIZ,
  BufSize,    \* of grep's buffer
  PatternLen, TextLen, PathLen, InputLen, MemLen  \* bounds of the inputs

Strings(S, n) == UNION {[1..k -> S] : k \in 0..n}

\* What a buffer of n bytes with string s reads as: to the 0, if there is one.
ReadString(s) == IF 0 \in Range(s) THEN SubSeq(s, 1, Min({i \in DOMAIN s : s[i] = 0}) - 1) ELSE s

(***************************************************************************)
(* memmove, in the kernel and in the user library: a byte at a time, in an *)
(* order that depends on the overlap.                                      *)
(***************************************************************************)
\* Mutation of Backward: it never copies from the end.
Backward_never(lib, dst, src, n) == FALSE

Backward(lib, dst, src, n) == IF lib = "kernel" THEN src < dst /\ src + n > dst ELSE src <= dst

memmove(lib, mem, dst, src, n) ==
  FoldLeft(LAMBDA b, i : [b EXCEPT ![dst + i] = b[src + i]], mem,
           [k \in 1..n |-> IF Backward(lib, dst, src, n) THEN n - k ELSE k - 1])

(***************************************************************************)
(* printint, and atoi.  Digits are numbers, and -1 is the minus sign.      *)
(***************************************************************************)
\* Mutation of Magnitude: the negated value is an int again.
Magnitude_int(xx, sign) == IF sign /\ xx < 0 THEN (-xx) % 2^(Width - 1) ELSE xx % 2^Width

\* An unsigned int, so that -xx is right for the least int.
Magnitude(xx, sign) == IF sign /\ xx < 0 THEN (-xx) % 2^Width ELSE xx % 2^Width

RECURSIVE Digits(_, _)
Digits(x, base) == (IF x \div base = 0 THEN <<>> ELSE Digits(x \div base, base)) \o <<x % base>>

printint(xx, base, sign) ==
  (IF sign /\ xx < 0 THEN <<-1>> ELSE <<>>) \o Digits(Magnitude(xx, sign), base)

atoi(s) == FoldLeft(LAMBDA n, d : n * 10 + d, 0, s)

(***************************************************************************)
(* copyin and copyinstr: page by page, until walkaddr fails.  Memory is a  *)
(* byte for each address, and the set of pages that the user has.          *)
(***************************************************************************)
\* Mutation of NextPage: the address is advanced by a page from where it is.
NextPage_off(va) == va + PGSIZE

NextPage(va) == (va - (va % PGSIZE)) + PGSIZE

RECURSIVE copyin(_, _, _, _)
copyin(pages, mem, va, len) ==
  LET n == Min({PGSIZE - (va % PGSIZE), len})
      rest == copyin(pages, mem, NextPage(va), len - n) IN
  IF len = 0 THEN [ok |-> TRUE, dst |-> <<>>]
  ELSE IF va \div PGSIZE \notin pages THEN [ok |-> FALSE, dst |-> <<>>]
  ELSE [rest EXCEPT !.dst = [i \in 1..n |-> mem[va + i - 1]] \o @]

RECURSIVE copyinstr(_, _, _, _)
copyinstr(pages, mem, va, max) ==
  LET n == Min({PGSIZE - (va % PGSIZE), max})
      part == [i \in 1..n |-> mem[va + i - 1]]
      rest == copyinstr(pages, mem, NextPage(va), max - n) IN
  IF max = 0 \/ va \div PGSIZE \notin pages THEN [ok |-> FALSE, dst |-> <<>>]
  ELSE IF 0 \in Range(part) THEN [ok |-> TRUE, dst |-> ReadString(part) \o <<0>>]
  ELSE [rest EXCEPT !.dst = part \o @]

\* Mutation of fetchaddr: only the end is compared.
fetchaddr_end(addr, word, sz) == (addr + word) % 2^Width <= sz

\* Whether fetchaddr goes on to copyin, for a process of size sz.
fetchaddr(addr, word, sz) == addr < sz /\ (addr + word) % 2^Width <= sz

(***************************************************************************)
(* skipelem; name is the caller's buffer, which has the element before.    *)
(***************************************************************************)
\* The length of the longest prefix of s with bytes in S.
Span(s, S) == Min({i \in 0..Len(s) : i = Len(s) \/ s[i + 1] \notin S})
From(s, i) == SubSeq(s, i + 1, Len(s))

\* Mutation of NameOf: the name is not ended.
NameOf_open(name, elem) ==
  [i \in 1..DIRSIZ |-> IF i <= Len(elem) THEN elem[i] ELSE name[i]]

\* The name is cut at DIRSIZ bytes, or ended by 0 before that.
NameOf(name, elem) ==
  [i \in 1..DIRSIZ |-> IF i <= Len(elem) THEN elem[i] ELSE IF i = Len(elem) + 1 THEN 0 ELSE name[i]]

skipelem(path, name) ==
  LET p == From(path, Span(path, {3}))
      len == Span(p, {1, 2})
      q == From(p, len) IN
  [path |-> From(q, Span(q, {3})), name |-> NameOf(name, SubSeq(p, 1, len)), found |-> p # <<>>]

\* strncpy of a name to a directory entry, and strncmp of two of them.
strncpy(s) == [i \in 1..DIRSIZ |-> IF i <= Len(s) THEN s[i] ELSE 0]
strncmp(p, q) ==
  \E i \in 0..DIRSIZ : /\ i = DIRSIZ \/ (p[i + 1] = 0 /\ q[i + 1] = 0)
                       /\ \A j \in 1..i : p[j] = q[j] /\ p[j] # 0

\* The names that namex's loop looks up.
RECURSIVE namex(_, _)
namex(path, name) ==
  LET r == skipelem(path, name) IN IF r.found THEN <<r.name>> \o namex(r.path, r.name) ELSE <<>>

(***************************************************************************)
(* grep's matcher: . stands for any character, * repeats the one before    *)
(* it, ^ and $ hold to the start and the end.                              *)
(***************************************************************************)
Is(c, text) == text # <<>> /\ (c = "." \/ c = Head(text))

RECURSIVE matchhere(_, _)

\* Mutation of matchstar: one instance at least.
matchstar_plus(c, re, text) ==
  \E i \in 1..Len(text) : (\A j \in 1..i : Is(c, <<text[j]>>)) /\ matchhere(re, From(text, i))

matchstar(c, re, text) ==
  \E i \in 0..Len(text) : (\A j \in 1..i : Is(c, <<text[j]>>)) /\ matchhere(re, From(text, i))

matchhere(re, text) ==
  IF re = <<>> THEN TRUE
  ELSE IF Len(re) > 1 /\ re[2] = "*" THEN matchstar(re[1], From(re, 2), text)
  ELSE IF re = <<"$">> THEN text = <<>>
  ELSE Is(Head(re), text) /\ matchhere(Tail(re), Tail(text))

match(re, text) ==
  IF re # <<>> /\ Head(re) = "^" THEN matchhere(Tail(re), text)
  ELSE \E i \in 0..Len(text) : matchhere(re, From(text, i))

(***************************************************************************)
(* grep's loop: the buffer keeps the line that is not complete.  It ends   *)
(* at the end of the input, and when no space is left for it to read into. *)
(***************************************************************************)
LastNl(s) == Max({0} \cup {i \in DOMAIN s : s[i] = "nl"})

\* The lines that are complete in s, without the newlines.
Lines(s) ==
  LET nls == SetToSortSeq({i \in DOMAIN s : s[i] = "nl"}, <) IN
  [k \in DOMAIN nls |-> SubSeq(s, (IF k = 1 THEN 0 ELSE nls[k - 1]) + 1, nls[k] - 1)]

\* Mutation of Kept: the lines that were complete are kept too.
Kept_all(s) == s

\* What is moved to the start of the buffer.
Kept(s) == From(s, LastNl(s))

Selected(re, lines) == SelectSeq(lines, LAMBDA l : match(re, l))

\* A turn: read returned n bytes.
grep(g, n) ==
  LET s == g.buf \o SubSeq(g.input, g.at + 1, g.at + n) IN
  [g EXCEPT !.at = @ + n, !.buf = Kept(s), !.out = @ \o Selected(g.re, Lines(s))]

(***************************************************************************)
(* Each call, on the inputs within the bounds.                             *)
(***************************************************************************)
VARIABLE job

Ints == (-(2^(Width - 1)))..(2^(Width - 1) - 1)

Jobs ==
       [f : {"memmove"}, lib : {"kernel", "user"}, dst : 0..(MemLen \div 2), src : 0..(MemLen \div 2), n : 0..(MemLen \div 2)]
  \cup [f : {"printint"}, xx : Ints, base : {10, 16}, sign : BOOLEAN]
  \cup [f : {"copyin"}, pages : SUBSET (0..((MemLen \div PGSIZE) - 1)), mem : [0..(MemLen - 1) -> {0, 1}], va : 0..(MemLen - 1), n : 0..(MemLen - 1)]
  \cup [f : {"fetchaddr"}, va : 0..(2^Width - 1), word : {2}, sz : 0..(2^(Width - 1))]
  \cup [f : {"path"}, path : Strings({1, 2, 3}, PathLen)]
  \cup [f : {"match"}, re : Strings({"a", ".", "*", "^", "$"}, PatternLen), text : Strings({"a", "b"}, TextLen)]
  \cup [f : {"grep"}, re : {<<"a">>}, input : Strings({"a", "b", "nl"}, InputLen), at : {0}, buf : {<<>>}, out : {<<>>}]

Init == job = [f |-> "none"]

call == job.f = "none" /\ job' \in Jobs
read ==
  /\ job.f = "grep"
  /\ \E n \in 1..Min({Len(job.input) - job.at, BufSize - Len(job.buf) - 1}) : job' = grep(job, n)
return == job.f # "none" /\ job' = [f |-> "none"]

Next == call \/ read \/ return

(***************************************************************************)
(* Properties.                                                             *)
(***************************************************************************)
\* However source and destination overlap, memmove moves the bytes as they were
\* before, and no other byte changes.
MemmoveExact ==
  job.f = "memmove" =>
    LET d == job.dst
        mem == [i \in 0..MemLen |-> i] IN
    memmove(job.lib, mem, d, job.src, job.n) =
      [i \in 0..MemLen |-> IF i >= d /\ i < d + job.n THEN job.src + i - d ELSE i]

\* The value of a number that is printed.
Value(s, base) ==
  IF s[1] = -1 THEN -FoldLeft(LAMBDA n, d : n * base + d, 0, Tail(s)) ELSE FoldLeft(LAMBDA n, d : n * base + d, 0, s)

\* printint prints the int, or its bits as a number, without leading zeros, also
\* the least int; and atoi reads back what was printed.
PrintExact ==
  job.f = "printint" =>
    LET s == printint(job.xx, job.base, job.sign) IN
    /\ Value(s, job.base) = IF job.sign THEN job.xx ELSE job.xx % 2^Width
    /\ s[1] = 0 => Len(s) = 1
    /\ job.sign /\ job.base = 10 /\ job.xx >= 0 => atoi(s) = job.xx

\* copyin gets the bytes at the user's addresses if it may read all of them, and
\* copyinstr those up to the first 0 if that is among the first max and all up to
\* it may be read; pages behind it need not be there.
CopyinExact ==
  job.f = "copyin" /\ job.va + job.n <= MemLen =>
    LET bytes == [i \in 1..job.n |-> job.mem[job.va + i - 1]]
        Readable(n) == \A i \in 1..n : (job.va + i - 1) \div PGSIZE \in job.pages
        c == copyin(job.pages, job.mem, job.va, job.n)
        s == copyinstr(job.pages, job.mem, job.va, job.n)
        len == Len(ReadString(bytes)) IN
    /\ c.ok = Readable(job.n) /\ (c.ok => c.dst = bytes)
    /\ s.ok = (0 \in Range(bytes) /\ Readable(len + 1)) /\ (s.ok => s.dst = SubSeq(bytes, 1, len + 1))
    /\ Len(s.dst) <= job.n

\* The comment in fetchaddr: with both tests, overflow included, the word lies
\* below the size.
FetchExact ==
  job.f = "fetchaddr" => (fetchaddr(job.va, job.word, job.sz) <=> job.va + job.word <= job.sz)

\* The elements of a path are its longest pieces without a slash, cut at DIRSIZ,
\* whatever an earlier element left in the buffer: each is found under the name
\* that strncpy wrote, and under no other.
PathExact ==
  job.f = "path" =>
    LET p == job.path
        Slash(i) == i \in {0, Len(p) + 1} \/ p[i] = 3
        starts == SetToSortSeq({i \in 1..Len(p) : ~Slash(i) /\ Slash(i - 1)}, <)
        End(i) == Min({j \in i..Len(p) : Slash(j + 1)})
        names == namex(p, [i \in 1..DIRSIZ |-> 2]) IN
    /\ Len(names) = Len(starts)
    /\ \A k \in 1..Len(names) : \A e \in Strings({1, 2}, DIRSIZ) :
         strncmp(names[k], strncpy(e)) <=>
           e = SubSeq(p, starts[k], Min({End(starts[k]), starts[k] + DIRSIZ - 1}))

\* The items of a pattern: a character, and whether it is repeated.
RECURSIVE Items(_)
Items(re) ==
  IF re = <<>> THEN <<>>
  ELSE IF Len(re) > 1 /\ re[2] = "*" THEN <<<<re[1], TRUE>>>> \o Items(From(re, 2))
  ELSE <<<<re[1], FALSE>>>> \o Items(Tail(re))

\* The matcher finds a pattern exactly if the text has a part that can be cut
\* into pieces, one for each item: backtracking misses no way to cut it.
MatchExact ==
  job.f = "match" =>
    LET start == job.re # <<>> /\ Head(job.re) = "^"
        all == Items(IF start THEN Tail(job.re) ELSE job.re)
        end == all # <<>> /\ Last(all) = <<"$", FALSE>>
        items == IF end THEN Front(all) ELSE all
        n == Len(items)
        Fits(k, i, j) == /\ i <= j /\ (items[k][2] \/ j = i + 1)
                         /\ \A x \in (i + 1)..j : items[k][1] \in {".", job.text[x]} IN
    match(job.re, job.text) <=>
      \E cut \in [0..n -> 0..Len(job.text)] :
        /\ start => cut[0] = 0
        /\ end => cut[n] = Len(job.text)
        /\ \A k \in 1..n : Fits(k, cut[k - 1], cut[k])

\* In whatever pieces the input arrives, grep has printed the complete lines
\* that match, each once and in order.
GrepExact ==
  job.f = "grep" => job.out = Selected(job.re, Lines(SubSeq(job.input, 1, job.at)))
====
