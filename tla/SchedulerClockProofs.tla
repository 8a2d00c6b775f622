------------------------- MODULE SchedulerClockProofs ------------------------
(* The loop of the scheduler, whatever the length of a day, of a cycle, of a *)
(* turn (short of two minutes) and of a correction of the clock (short of a  *)
(* day).                                                                     *)
EXTENDS SchedulerClock, TLAPS

USE ClockAssumption

\* What MinuteOf means: the minute's beginning, and its end.
LEMMA MinuteBounds ==
    ASSUME NEW t \in Nat
    PROVE  /\ MinuteOf(t) \in 0 .. t
           /\ MinuteOf(t) * MINUTE <= t
           /\ t < MinuteOf(t) * MINUTE + MINUTE
<1> DEFINE q == t \div MINUTE
<1>1. q \in Int /\ MINUTE * q <= t /\ t < MINUTE * q + MINUTE
  OBVIOUS
<1>2. q \in Nat
  BY <1>1
<1>3. q <= MINUTE * q
  BY <1>2
<1>4. MINUTE * q = q * MINUTE
  BY <1>2
<1> QED BY <1>1, <1>2, <1>3, <1>4 DEF MinuteOf

\* Products with the length of a minute keep the order, and step by a minute.
LEMMA MinuteOrder ==
    ASSUME NEW m \in Int, NEW n \in Int
    PROVE  /\ m * MINUTE \in Int
           /\ (m + 1) * MINUTE = m * MINUTE + MINUTE
           /\ m < n => m * MINUTE + MINUTE <= n * MINUTE
           /\ m * MINUTE < n * MINUTE => m < n
<1>1. m * MINUTE \in Int /\ (m + 1) * MINUTE = m * MINUTE + MINUTE
  OBVIOUS
<1>2. ASSUME m < n PROVE m * MINUTE + MINUTE <= n * MINUTE
  <2>1. (n - m - 1) * MINUTE >= 0
    BY <1>2
  <2>2. (n - m - 1) * MINUTE = n * MINUTE - m * MINUTE - MINUTE
    OBVIOUS
  <2> QED BY <2>1, <2>2
<1>3. ASSUME m * MINUTE < n * MINUTE PROVE m < n
  <2>1. SUFFICES ASSUME n <= m PROVE FALSE
    OBVIOUS
  <2>2. (m - n) * MINUTE >= 0
    BY <2>1
  <2>3. (m - n) * MINUTE = m * MINUTE - n * MINUTE
    OBVIOUS
  <2> QED BY <1>3, <2>2, <2>3
<1> QED BY <1>1, <1>2, <1>3

\* Windows are a day apart: two of them that are less than a day apart are one.
LEMMA WindowsAreDaysApart ==
    ASSUME NEW m \in Nat, NEW n \in Nat, ShouldFire(m), ShouldFire(n), m > n - DAY, m # n
    PROVE  m > n
<1> DEFINE p == m \div DAY
           q == n \div DAY
<1>1. p \in Int /\ m = DAY * p + FireAt
  BY DEF ShouldFire
<1>2. q \in Int /\ n = DAY * q + FireAt
  BY DEF ShouldFire
<1> HIDE DEF p, q
<1>3. p \in Int /\ q \in Int
  BY <1>1, <1>2
<1>4. SUFFICES ASSUME m < n PROVE FALSE
  OBVIOUS
<1>5. m - n = DAY * (p - q)
  BY <1>1, <1>2, <1>3
<1>6. CASE p >= q
  <2>1. DAY * (p - q) >= 0
    BY <1>3, <1>6
  <2> QED BY <1>4, <1>5, <2>1
<1>7. CASE p < q
  <2>1. DAY * (q - p - 1) >= 0
    BY <1>3, <1>7
  <2>2. DAY * (q - p - 1) = -(DAY * (p - q)) - DAY
    BY <1>3
  <2> QED BY <1>5, <2>1, <2>2
<1> QED BY <1>3, <1>6, <1>7

\* A window that is due now and is not the one fired last is later than all that
\* have been fired.
LEMMA DueIsNew ==
    ASSUME ClockInv, ShouldFire(MinuteOf(now)), MinuteOf(now) # fired
    PROVE  \A m \in fires : m < MinuteOf(now)
<1> DEFINE w == MinuteOf(now)
<1>1. now \in Nat /\ latest \in Nat /\ fires \subseteq Nat
  BY DEF ClockInv, TypeOK
<1>2. w \in Nat /\ now < w * MINUTE + MINUTE
  BY <1>1, MinuteBounds
<1> HIDE DEF w
<1>3. CASE fired = None
  BY <1>3 DEF ClockInv, FiredIsLast
<1>4. CASE fired # None
  <2>1. fired \in Nat /\ ShouldFire(fired) /\ fired * MINUTE <= latest /\ \A m \in fires : m <= fired
    BY <1>4 DEF ClockInv, TypeOK, FiredIsLast
  <2>2. latest - MINUTE * (DAY - 1) <= now
    BY <1>1 DEF ClockInv, ClockIsNear
  <2>3. (fired - DAY) * MINUTE = fired * MINUTE - MINUTE * (DAY - 1) - MINUTE
    BY <2>1
  <2>4. fired * MINUTE \in Int /\ MINUTE * (DAY - 1) \in Int /\ w * MINUTE \in Int
    BY <1>2, <2>1
  <2>5. (fired - DAY) * MINUTE < w * MINUTE
    BY <1>1, <1>2, <2>1, <2>2, <2>3, <2>4
  <2>6. fired - DAY < w
    BY <1>2, <2>1, <2>5, MinuteOrder
  <2>7. w > fired
    BY <1>2, <2>1, <2>6, WindowsAreDaysApart DEF w
  <2> QED BY <1>1, <1>2, <2>1, <2>7 DEF w
<1> QED BY <1>3, <1>4

LEMMA InitInv == Init => ClockInv
<1> SUFFICES ASSUME Init PROVE ClockInv
  OBVIOUS
<1>1. TypeOK /\ ClockIsNear /\ FiredIsLast
  BY DEF Init, TypeOK, ClockIsNear, FiredIsLast, None
<1>2. NoWideGap
  <2>1. SUFFICES ASSUME NEW m \in 0 .. now PROVE now < (m + 1) * MINUTE + MINUTE
    BY DEF Init, NoWideGap
  <2>2. m = 0 /\ now = 0
    BY DEF Init
  <2> QED BY <2>2
<1> QED BY <1>1, <1>2 DEF ClockInv

\* A look at the clock closes the gap before it.
LEMMA LookKeepsNoWideGap ==
    ASSUME ClockInv, pc = "looking", looks' = looks \union {MinuteOf(now)}, pc' # "looking",
           UNCHANGED <<now, idle>>
    PROVE  NoWideGap'
<1> SUFFICES ASSUME NEW m \in 0 .. now, idle <= m * MINUTE, m * MINUTE < now
             PROVE  LooksAround(m)'
  BY DEF NoWideGap, ClockInv, TypeOK
<1>1. now \in Nat /\ m \in Nat
  BY DEF ClockInv, TypeOK
<1>2. LooksAround(m) \/ now < (m + 1) * MINUTE + MINUTE
  BY DEF ClockInv, NoWideGap
<1>3. CASE LooksAround(m)
  BY <1>3 DEF LooksAround
<1>4. CASE now < (m + 1) * MINUTE + MINUTE
  <2> DEFINE w == MinuteOf(now)
  <2>1. /\ w \in 0 .. now
        /\ w * MINUTE <= now
        /\ now < w * MINUTE + MINUTE
    BY ONLY <1>1, MinuteBounds, Zenon
  <2> HIDE DEF w
  <2>2. m * MINUTE \in Int /\ w * MINUTE \in Int
    BY <1>1, <2>1
  <2>3. (m + 1) * MINUTE = m * MINUTE + MINUTE /\ (m + 2) * MINUTE = (m + 1) * MINUTE + MINUTE
    BY <1>1
  <2>4. (w + 1) * MINUTE = w * MINUTE + MINUTE
    BY <2>1
  <2>5. w < m + 2
    BY <1>1, <1>4, <2>1, <2>2, <2>3, MinuteOrder
  <2>6. m < w + 1
    BY <1>1, <2>1, <2>2, <2>4, MinuteOrder
  <2>7. w = m \/ w = m + 1
    BY <1>1, <2>1, <2>5, <2>6
  <2> QED BY <2>7 DEF LooksAround, w
<1> QED BY <1>2, <1>3, <1>4

LEMMA FireKeepsInv == ClockInv /\ Fire => ClockInv'
<1> SUFFICES ASSUME ClockInv, Fire PROVE ClockInv'
  OBVIOUS
<1> DEFINE w == MinuteOf(now)
<1>1. now \in Nat /\ latest \in Nat /\ now <= latest /\ fires \subseteq Nat /\ looks \subseteq Nat
  BY DEF ClockInv, TypeOK, ClockIsNear
<1>2. w \in Nat /\ w * MINUTE <= now
  BY <1>1, MinuteBounds
<1>3. ShouldFire(w) /\ w # fired /\ fired' = w /\ fires' = fires \union {w}
  BY DEF Fire, Remember
<1>4. looks' = looks \union {w} /\ pc = "looking" /\ pc' = "cycle" /\ UNCHANGED <<now, idle, latest>>
  BY DEF Fire
<1>5. \A m \in fires : m < w
  BY <1>3, DueIsNew
<1>6. NoWideGap'
  BY <1>4, LookKeepsNoWideGap
<1> HIDE DEF w
<1>7. TypeOK'
  BY <1>1, <1>2, <1>3, <1>4 DEF ClockInv, TypeOK
<1>8. w * MINUTE \in Int
  BY <1>2
<1>9. FiredIsLast'
  BY <1>1, <1>2, <1>3, <1>4, <1>5, <1>8 DEF FiredIsLast, None, ShouldFire
<1>10. ClockIsNear'
  BY <1>4 DEF ClockInv, ClockIsNear
<1> QED BY <1>6, <1>7, <1>9, <1>10 DEF ClockInv

LEMMA LookKeepsInv == ClockInv /\ LookOnly => ClockInv'
<1> SUFFICES ASSUME ClockInv, LookOnly PROVE ClockInv'
  OBVIOUS
<1>1. now \in Nat
  BY DEF ClockInv, TypeOK
<1>2. MinuteOf(now) \in Nat
  BY <1>1, MinuteBounds
<1>3. /\ looks' = looks \union {MinuteOf(now)} /\ pc = "looking" /\ pc' = "sleeping"
      /\ UNCHANGED <<now, fired, fires, idle, latest>>
  BY DEF LookOnly
<1>4. NoWideGap'
  BY <1>3, LookKeepsNoWideGap
<1>5. TypeOK'
  BY <1>2, <1>3 DEF ClockInv, TypeOK
<1>6. FiredIsLast' /\ ClockIsNear'
  BY <1>3 DEF ClockInv, FiredIsLast, ClockIsNear, ShouldFire
<1> QED BY <1>4, <1>5, <1>6 DEF ClockInv

\* Time that passes leaves the clock near its latest reading, and that one ahead of
\* what has been fired.
LEMMA TimePasses ==
    ASSUME ClockInv, NEW ticks \in Nat, Passes(ticks)
    PROVE  /\ now' \in Nat /\ latest' \in Nat /\ now' = now + ticks /\ latest <= latest'
           /\ ClockIsNear'
           /\ UNCHANGED <<fired, fires>> => FiredIsLast'
<1>1. now \in Nat /\ latest \in Nat /\ now <= latest /\ latest - MaxBack <= now
  BY DEF ClockInv, TypeOK, ClockIsNear
<1>2. now' = now + ticks /\ latest' = IF now' > latest THEN now' ELSE latest
  BY DEF Passes
<1>3. MaxBack \in Nat
  <2>1. MINUTE * (DAY - 1) \in Int
    OBVIOUS
  <2> QED BY <2>1
<1>4. ClockIsNear'
  BY <1>1, <1>2, <1>3 DEF ClockIsNear
<1>5. ASSUME UNCHANGED <<fired, fires>> PROVE FiredIsLast'
  <2>1. fired # None => fired * MINUTE \in Int
    BY DEF ClockInv, TypeOK
  <2> QED BY <1>1, <1>2, <1>5, <2>1 DEF ClockInv, FiredIsLast, ShouldFire
<1> QED BY <1>1, <1>2, <1>4, <1>5

LEMMA CycleEndsKeepsInv == ClockInv /\ CycleEnds => ClockInv'
<1> SUFFICES ASSUME ClockInv, CycleEnds PROVE ClockInv'
  OBVIOUS
<1>1. PICK ticks \in 0 .. MaxCycle : Passes(ticks)
  BY DEF CycleEnds
<1>2. pc' = "sleeping" /\ idle' = now' /\ UNCHANGED <<fired, fires, looks>>
  BY DEF CycleEnds
<1>3. now' \in Nat /\ latest' \in Nat /\ ClockIsNear' /\ FiredIsLast'
  BY <1>1, <1>2, TimePasses
<1>4. TypeOK'
  BY <1>2, <1>3 DEF ClockInv, TypeOK
<1>5. NoWideGap'
  BY <1>2 DEF NoWideGap
<1> QED BY <1>3, <1>4, <1>5 DEF ClockInv

LEMMA SleepKeepsInv == ClockInv /\ Sleep => ClockInv'
<1> SUFFICES ASSUME ClockInv, Sleep PROVE ClockInv'
  OBVIOUS
<1>1. PICK late \in 0 .. MaxLate : Passes(PollInterval + late)
  BY DEF Sleep
<1>2. pc = "sleeping" /\ pc' = "looking" /\ UNCHANGED <<fired, fires, looks, idle>>
  BY DEF Sleep
<1>3. PollInterval + late \in Nat /\ PollInterval + late < MINUTE + MINUTE
  BY DEF PollInterval
<1>4. /\ now' \in Nat /\ latest' \in Nat /\ ClockIsNear' /\ FiredIsLast'
      /\ now' < now + MINUTE + MINUTE /\ now \in Nat
  BY <1>1, <1>2, <1>3, TimePasses DEF ClockInv, TypeOK
<1>5. TypeOK'
  BY <1>2, <1>4 DEF ClockInv, TypeOK
<1>6. NoWideGap'
  <2>1. SUFFICES ASSUME NEW m \in 0 .. now', idle <= m * MINUTE, ~LooksAround(m)
                 PROVE  now' < (m + 1) * MINUTE + MINUTE
    BY <1>2 DEF NoWideGap, LooksAround
  <2>2. m * MINUTE \in Int /\ m <= m * MINUTE /\ (m + 1) * MINUTE = m * MINUTE + MINUTE
    BY <1>4
  <2>3. m \in 0 .. now => now <= m * MINUTE
    BY <1>2, <2>1 DEF ClockInv, NoWideGap
  <2>4. now <= m * MINUTE
    BY <1>4, <2>2, <2>3
  <2> QED BY <1>4, <2>2, <2>4
<1> QED BY <1>4, <1>5, <1>6 DEF ClockInv

LEMMA RestartKeepsInv == ClockInv /\ Restart => ClockInv'
<1> SUFFICES ASSUME ClockInv, Restart PROVE ClockInv'
  OBVIOUS
<1>1. PICK ticks \in 0 .. MaxDown : Passes(ticks)
  BY DEF Restart
<1>2. pc' = "looking" /\ fired' = None /\ fires' = {} /\ looks' = {} /\ idle' = now'
  BY DEF Restart
<1>3. now' \in Nat /\ latest' \in Nat /\ ClockIsNear'
  BY <1>1, TimePasses
<1>4. TypeOK' /\ FiredIsLast'
  BY <1>2, <1>3 DEF TypeOK, FiredIsLast
<1>5. NoWideGap'
  <2>1. SUFFICES ASSUME NEW m \in 0 .. now', now' <= m * MINUTE
                 PROVE  now' < (m + 1) * MINUTE + MINUTE
    BY <1>2 DEF NoWideGap
  <2>2. m * MINUTE \in Int /\ (m + 1) * MINUTE = m * MINUTE + MINUTE
    BY <1>3
  <2> QED BY <1>3, <2>1, <2>2
<1> QED BY <1>3, <1>4, <1>5 DEF ClockInv

LEMMA SetBackKeepsInv == ClockInv /\ ClockSetBack => ClockInv'
<1> SUFFICES ASSUME ClockInv, ClockSetBack PROVE ClockInv'
  OBVIOUS
<1>1. /\ now \in Nat /\ latest \in Nat /\ now <= latest
  BY DEF ClockInv, TypeOK, ClockIsNear
<1>2. MaxBack \in Nat
  <2>1. MINUTE * (DAY - 1) \in Int
    OBVIOUS
  <2> QED BY <2>1
<1>3. now' \in (latest - MaxBack) .. (now - 1) /\ now' >= 0
      /\ UNCHANGED <<pc, fired, fires, looks, idle, latest>>
  BY DEF ClockSetBack
<1>4. now' \in Nat /\ now' < now /\ latest - MaxBack <= now'
  BY <1>1, <1>2, <1>3
<1>5. TypeOK' /\ ClockIsNear' /\ FiredIsLast'
  BY <1>1, <1>3, <1>4 DEF ClockInv, TypeOK, ClockIsNear, FiredIsLast, ShouldFire
<1>6. NoWideGap'
  <2>1. SUFFICES ASSUME NEW m \in 0 .. now', idle <= m * MINUTE, ~LooksAround(m)
                 PROVE  IF pc = "looking" THEN now' < (m + 1) * MINUTE + MINUTE
                                          ELSE now' <= m * MINUTE
    BY <1>3 DEF NoWideGap, LooksAround
  <2>2. m \in 0 .. now /\ m * MINUTE \in Int /\ (m + 1) * MINUTE \in Int
    BY <1>1, <1>4
  <2>3. IF pc = "looking" THEN now < (m + 1) * MINUTE + MINUTE ELSE now <= m * MINUTE
    BY <2>1, <2>2 DEF ClockInv, NoWideGap
  <2> QED BY <1>1, <1>4, <2>2, <2>3
<1> QED BY <1>5, <1>6 DEF ClockInv

LEMMA StutterKeepsInv == ClockInv /\ UNCHANGED vars => ClockInv'
BY DEF vars, ClockInv, TypeOK, ClockIsNear, FiredIsLast, ShouldFire, NoWideGap, LooksAround

\* The types, the clock, what has been fired and what has been looked at
\* (app.py:108-127) keep to the inductive invariant.
THEOREM ClockInvHolds == Spec => []ClockInv
<1>1. ClockInv /\ [Next]_vars => ClockInv'
  BY FireKeepsInv, LookKeepsInv, CycleEndsKeepsInv, SleepKeepsInv, RestartKeepsInv,
     SetBackKeepsInv, StutterKeepsInv DEF Next
<1> QED BY InitInv, <1>1, PTL DEF Spec

\* No minute is fired twice by one process, although the wall clock may be set back
\* by anything short of a day: comparing with the last minute fired is enough
\* (app.py:116-123).
THEOREM FiresOnce == Spec => OncePerWindow
<1>1. ASSUME ClockInv, [Next]_vars, pc = "looking", pc' = "cycle"
      PROVE  MinuteOf(now) \notin fires
  <2>1. ShouldFire(MinuteOf(now)) /\ MinuteOf(now) # fired
    BY <1>1 DEF Next, vars, Fire, LookOnly, CycleEnds, Sleep, Restart, ClockSetBack
  <2>2. \A m \in fires : m < MinuteOf(now)
    BY <1>1, <2>1, DueIsNew
  <2>3. now \in Nat
    BY <1>1 DEF ClockInv, TypeOK
  <2>4. MinuteOf(now) \in Nat
    BY <2>3, MinuteBounds
  <2> QED BY <2>2, <2>4
<1>2. ClockInv /\ [Next]_vars => [pc = "looking" /\ pc' = "cycle" => MinuteOf(now) \notin fires]_vars
  BY <1>1
<1> QED BY ClockInvHolds, <1>2, PTL DEF Spec, OncePerWindow

\* If a turn of the loop takes less than two minutes, it never steps over two
\* minutes in a row (app.py:47, 127).
THEOREM StepsOverOneMinute == Spec => []SkipsOneMinute
<1>1. ASSUME ClockInv PROVE SkipsOneMinute
  <2>1. SUFFICES ASSUME NEW m \in 0 .. now, Watched(m, m + 1) PROVE LooksAround(m)
    BY DEF SkipsOneMinute
  <2>2. now \in Nat /\ m \in Nat
    BY <1>1 DEF ClockInv, TypeOK
  <2>3. m * MINUTE \in Int /\ (m + 1) * MINUTE = m * MINUTE + MINUTE
    BY <2>2
  <2>4. now > m * MINUTE
    BY <2>1, <2>2, <2>3 DEF Watched
  <2>5. LooksAround(m) \/ now <= m * MINUTE
    BY <1>1, <2>1 DEF ClockInv, NoWideGap, Watched
  <2> QED BY <2>2, <2>3, <2>4, <2>5
<1> QED BY ClockInvHolds, <1>1, PTL

=============================================================================
