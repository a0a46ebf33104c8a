------------------------------- MODULE Clock -------------------------------
(***************************************************************************)
(* The clock (clockintr in kernel/trap.c) and the processes that sleep by  *)
(* it (sys_sleep in kernel/sysproc.c).  A step is what happens under       *)
(* tickslock.                                                              *)
(***************************************************************************)
EXTENDS Integers

CONSTANTS
  Sleepers,
  TickWrap,   \* 2^32: ticks is an unsigned int
  Naps        \* arguments of sleep

VARIABLES
  ticks,
  nap   \* of each process: where it is, its n and ticks0, whether it was
        \* killed, and the ticks since the call, up to the wrap

vars == <<ticks, nap>>

Awake == [pc |-> "idle", n |-> 0, ticks0 |-> 0, killed |-> FALSE, since |-> 0]

Init == ticks = 0 /\ nap = [p \in Sleepers |-> Awake]

\* Mutation of Early: it is the sum that is compared.
Early_sum(ticks0, n) == ticks < (ticks0 + n) % TickWrap

Early(ticks0, n) == (ticks - ticks0) % TickWrap < n

\* The loop from the check of ticks to sleep or the return.
Check(p, s) ==
  nap' = [nap EXCEPT ![p] = [s EXCEPT !.pc = IF ~Early(s.ticks0, s.n) \/ s.killed THEN "done" ELSE "asleep"]]

sys_sleep(p, n) ==
  /\ nap[p].pc = "idle"
  /\ Check(p, [Awake EXCEPT !.n = IF n < 0 THEN 0 ELSE n, !.ticks0 = ticks])
  /\ UNCHANGED ticks

woken(p) == nap[p].pc = "woken" /\ Check(p, nap[p]) /\ UNCHANGED ticks

return(p) == nap[p].pc = "done" /\ nap' = [nap EXCEPT ![p] = Awake] /\ UNCHANGED ticks

\* As a bound, a process that was woken runs before the clock has gone round.
clockintr ==
  /\ \A p \in Sleepers : nap[p].since < TickWrap - 1
  /\ ticks' = (ticks + 1) % TickWrap
  /\ nap' = [p \in Sleepers |->
               CASE nap[p].pc = "asleep" -> [nap[p] EXCEPT !.pc = "woken", !.since = @ + 1]
                 [] nap[p].pc = "woken" -> [nap[p] EXCEPT !.since = @ + 1]
                 [] OTHER -> nap[p]]

kill(p) ==
  /\ nap[p].pc \in {"asleep", "woken"}
  /\ nap' = [nap EXCEPT ![p].killed = TRUE, ![p].pc = "woken"]
  /\ UNCHANGED ticks

Next ==
  \/ \E p \in Sleepers : (\E n \in Naps : sys_sleep(p, n)) \/ woken(p) \/ return(p) \/ kill(p)
  \/ clockintr

Spec == Init /\ [][Next]_vars

\* A process sleeps as long as it asked for and no longer, also over the wrap of
\* ticks: it is not asleep once n ticks have passed, and sleep does not return
\* before that unless the process was killed.
SleepExact ==
  \A p \in Sleepers :
    /\ nap[p].pc = "asleep" => nap[p].since < nap[p].n
    /\ nap[p].pc = "done" => nap[p].since >= nap[p].n \/ nap[p].killed
====
