---------------------------- MODULE ClockProofs ----------------------------
(***************************************************************************)
(* SleepExact is an invariant of Clock, for any number of processes, any   *)
(* width of ticks and any arguments of sleep.                              *)
(***************************************************************************)
EXTENDS Clock, WrapLemmas

Nap == [pc : {"idle", "asleep", "woken", "done"}, n : Nat, ticks0 : 0..(TickWrap - 1),
        killed : BOOLEAN, since : 0..(TickWrap - 1)]

\* What sys_sleep computes, ticks - ticks0 in an unsigned int, is the number of
\* ticks since the call.
IInv ==
  /\ ticks \in 0..(TickWrap - 1) /\ nap \in [Sleepers -> Nap]
  /\ \A p \in Sleepers : nap[p].pc \in {"asleep", "woken"} => nap[p].since = (ticks - nap[p].ticks0) % TickWrap
  /\ SleepExact

LEMMA ClockInit ==
  ASSUME TickWrap \in Nat \ {0}, Init
  PROVE  IInv
BY DEF Init, IInv, Awake, Nap, SleepExact

\* The check of ticks leaves the process asleep only when it is early.
LEMMA CheckStep ==
  ASSUME TickWrap \in Nat \ {0}, IInv, UNCHANGED ticks, NEW p \in Sleepers, NEW s \in Nap,
         s.since = (ticks - s.ticks0) % TickWrap, Check(p, s)
  PROVE  IInv'
<1> DEFINE t == [s EXCEPT !.pc = IF ~Early(s.ticks0, s.n) \/ s.killed THEN "done" ELSE "asleep"]
<1>1. nap' = [nap EXCEPT ![p] = t] BY DEF Check
<1>2. /\ t \in Nap /\ t.since = s.since /\ t.n = s.n /\ t.ticks0 = s.ticks0 /\ t.killed = s.killed
      /\ t.pc = IF ~Early(s.ticks0, s.n) \/ s.killed THEN "done" ELSE "asleep"
  BY DEF Nap
<1>3. Early(s.ticks0, s.n) <=> s.since < s.n BY DEF Early
<1>4. s.since \in Int /\ s.n \in Int BY DEF Nap
<1> HIDE DEF t
<1>5. t.pc = "asleep" => t.since < t.n BY <1>2, <1>3
<1>6. t.pc = "done" => t.since >= t.n \/ t.killed BY <1>2, <1>3, <1>4
<1>7. nap' \in [Sleepers -> Nap] BY <1>1, <1>2 DEF IInv
<1>8. \A q \in Sleepers : nap'[q] = IF q = p THEN t ELSE nap[q] BY <1>1 DEF IInv
<1>9. SleepExact' BY <1>5, <1>6, <1>8 DEF IInv, SleepExact
<1> QED BY <1>2, <1>7, <1>8, <1>9 DEF IInv

LEMMA ClockStep ==
  ASSUME TickWrap \in Nat \ {0}, Naps \subseteq Int, IInv, [Next]_vars
  PROVE  IInv'
<1>1. ASSUME NEW p \in Sleepers, NEW n \in Naps, sys_sleep(p, n) PROVE IInv'
  <2> DEFINE m == IF n < 0 THEN 0 ELSE n
             s == [Awake EXCEPT !.n = m, !.ticks0 = ticks]
  <2>1. s \in Nap /\ s.since = 0 /\ s.ticks0 = ticks
    <3>1. m \in Nat OBVIOUS
    <3> HIDE DEF m
    <3>2. Awake \in Nap /\ Awake.since = 0 BY DEF Awake, Nap
    <3> QED BY <3>1, <3>2 DEF IInv, Nap
  <2>2. (ticks - ticks) % TickWrap = 0 BY ModSmall DEF IInv
  <2>3. Check(p, s) /\ UNCHANGED ticks BY <1>1 DEF sys_sleep
  <2> HIDE DEF s
  <2> QED BY <2>1, <2>2, <2>3, CheckStep
<1>2. ASSUME NEW p \in Sleepers, woken(p) PROVE IInv'
  <2>1. nap[p] \in Nap /\ nap[p].since = (ticks - nap[p].ticks0) % TickWrap BY <1>2 DEF woken, IInv
  <2> QED BY <1>2, <2>1, CheckStep DEF woken
<1>3. ASSUME NEW p \in Sleepers, return(p) PROVE IInv'
  <2>1. Awake \in Nap /\ Awake.pc = "idle" BY DEF Awake, Nap
  <2>2. /\ nap' \in [Sleepers -> Nap] /\ ticks' = ticks
        /\ \A q \in Sleepers : nap'[q] = IF q = p THEN Awake ELSE nap[q]
    BY <1>3, <2>1 DEF return, IInv
  <2> QED BY <2>1, <2>2 DEF IInv, SleepExact
<1>4. ASSUME NEW p \in Sleepers, kill(p) PROVE IInv'
  <2> DEFINE t == [nap[p] EXCEPT !.killed = TRUE, !.pc = "woken"]
  <2>1. /\ t \in Nap /\ t.pc = "woken" /\ t.since = nap[p].since /\ t.ticks0 = nap[p].ticks0
        /\ nap[p].pc \in {"asleep", "woken"}
    BY <1>4 DEF kill, IInv, Nap
  <2>2. nap' = [nap EXCEPT ![p] = t] /\ ticks' = ticks BY <1>4 DEF kill, IInv, Nap
  <2> HIDE DEF t
  <2>3. nap' \in [Sleepers -> Nap] /\ \A q \in Sleepers : nap'[q] = IF q = p THEN t ELSE nap[q]
    BY <2>1, <2>2 DEF IInv
  <2> QED BY <2>1, <2>2, <2>3 DEF IInv, SleepExact
<1>5. CASE clockintr
  <2>1. ticks' \in 0..(TickWrap - 1)
    <3>1. ticks' = (ticks + 1) % TickWrap BY <1>5 DEF clockintr
    <3>2. ticks + 1 \in Int BY DEF IInv
    <3> QED BY <3>1, <3>2, ModRange
  <2>2. ASSUME NEW p \in Sleepers
        PROVE  /\ nap'[p] \in Nap
               /\ nap'[p].pc \in {"asleep", "woken"} => nap'[p].since = (ticks' - nap'[p].ticks0) % TickWrap
               /\ nap'[p].pc # "asleep"
               /\ nap'[p].pc = "done" => nap'[p] = nap[p]
    <3>1. nap[p] \in Nap /\ nap[p].since < TickWrap - 1 BY <1>5 DEF clockintr, IInv
    <3>2. nap'[p] = CASE nap[p].pc = "asleep" -> [nap[p] EXCEPT !.pc = "woken", !.since = @ + 1]
                      [] nap[p].pc = "woken" -> [nap[p] EXCEPT !.since = @ + 1]
                      [] OTHER -> nap[p]
      BY <1>5 DEF clockintr
    <3>3. CASE nap[p].pc \in {"asleep", "woken"}
      <4>1. nap[p].since = (ticks - nap[p].ticks0) % TickWrap BY <3>3 DEF IInv
      <4>2. nap[p].ticks0 \in 0..(TickWrap - 1) /\ nap[p].since + 1 \in 0..(TickWrap - 1) BY <3>1 DEF Nap
      <4>3. (((ticks + 1) % TickWrap) - nap[p].ticks0) % TickWrap = nap[p].since + 1
        BY <3>1, <4>1, <4>2, DifferenceUp DEF IInv
      <4>4. nap'[p] = [nap[p] EXCEPT !.pc = "woken", !.since = @ + 1] BY <3>1, <3>2, <3>3 DEF Nap
      <4>5. /\ nap'[p] \in Nap /\ nap'[p].pc = "woken" /\ nap'[p].since = nap[p].since + 1
            /\ nap'[p].ticks0 = nap[p].ticks0
        BY <3>1, <4>2, <4>4 DEF Nap
      <4> QED BY <1>5, <4>3, <4>5 DEF clockintr
    <3>4. CASE nap[p].pc \notin {"asleep", "woken"}
      BY <3>1, <3>2, <3>4
    <3> QED BY <3>3, <3>4
  <2>3. nap' \in [Sleepers -> Nap] BY <1>5, <2>2 DEF clockintr
  <2> QED BY <2>1, <2>2, <2>3 DEF IInv, SleepExact
<1>6. CASE UNCHANGED vars BY <1>6 DEF vars, IInv, SleepExact
<1> QED BY <1>1, <1>2, <1>3, <1>4, <1>5, <1>6 DEF Next

\* sys_sleep returns after n ticks and no earlier, unless the process was killed,
\* wherever in its range ticks was at the call.
THEOREM SleepIsExact ==
  ASSUME TickWrap \in Nat \ {0}, Naps \subseteq Int
  PROVE  Spec => []SleepExact
<1>1. Init => IInv BY ClockInit
<1>2. IInv /\ [Next]_vars => IInv' BY ClockStep
<1>3. IInv => SleepExact BY DEF IInv
<1> QED BY <1>1, <1>2, <1>3, PTL DEF Spec
====
