---------------------------- MODULE SchedulerClock ---------------------------
(***************************************************************************)
(* The loop of the scheduler service (services/scheduler/app.py, main()): it *)
(* looks at the wall clock, fires the daily cycle in the minute that cron    *)
(* names, and sleeps for a minute.  Time is counted in ticks; what a cycle   *)
(* does is in IngestionCycle.  Looks, sleeps and cycles take time, hosts are *)
(* slow, the wall clock is set back now and then, the container restarts.    *)
(***************************************************************************)
EXTENDS Integers

CONSTANTS
    MINUTE,     \* ticks in a minute
    DAY,        \* minutes in a day
    FireAt,     \* ingestion_cron: the minute of the day, 540 for "0 9 * * *"
    MaxLate,    \* bound: ticks a turn of the loop takes besides its sleep
    MaxCycle,   \* bound: ticks a cycle takes
    MaxDown,    \* bound: ticks a restart takes
    MaxBack,    \* bound: ticks the wall clock may be behind what it showed before
    MaxTime     \* bound: the last tick of a behaviour

\* A turn of the loop is late by less than a minute, and the clock never goes back
\* by a whole day.
ASSUME ClockAssumption ==
    /\ MINUTE \in Nat \ {0}
    /\ DAY \in Nat \ {0}
    /\ FireAt \in 0 .. DAY - 1
    /\ MaxLate \in 0 .. MINUTE - 1
    /\ MaxCycle \in Nat /\ MaxDown \in Nat /\ MaxTime \in Nat
    /\ MaxBack \in 0 .. MINUTE * (DAY - 1)

VARIABLES
    pc,         \* where the process is in main()
    now,        \* the wall clock
    fired,      \* fired_this_minute, or None
    fires,      \* history: minutes in which this process has fired
    looks,      \* history: minutes in which this process has looked at the clock
    idle,       \* history: since when this process has had no cycle to run
    latest      \* history: the latest time the wall clock has shown

vars == <<pc, now, fired, fires, looks, idle, latest>>

None == -1

\* minute_key, with its date: minutes since the beginning.
MinuteOf(t) == t \div MINUTE

\* _should_fire(): hour and minute are those of the expression, on any day.
ShouldFire(m) == m % DAY = FireAt

\* Mutant of PollInterval: the clock is looked at every other minute.
PollIntervalOfTwo == 2 * MINUTE

\* _POLL_INTERVAL_SECONDS: a minute.
PollInterval == MINUTE

TypeOK ==
    /\ pc \in {"looking", "cycle", "sleeping"}
    /\ now \in Nat
    /\ fired \in Nat \union {None}
    /\ fires \subseteq Nat
    /\ looks \subseteq Nat
    /\ idle \in Nat
    /\ latest \in Nat

Init ==
    /\ pc = "looking"
    /\ now = 0
    /\ fired = None
    /\ fires = {} /\ looks = {} /\ idle = 0
    /\ latest = 0

\* The clock goes on by some ticks.
Passes(ticks) ==
    /\ now + ticks <= MaxTime
    /\ now' = now + ticks
    /\ latest' = IF now' > latest THEN now' ELSE latest

\* Mutant of Remember: fired_this_minute is never set.
RememberNothing(m) == fired' = fired

Remember(m) == fired' = m

\* Cron matches, and the minute is not the one fired last: run_ingestion_cycle().
Fire ==
    /\ pc = "looking"
    /\ LET m == MinuteOf(now)
       IN  /\ ShouldFire(m)
           /\ m # fired
           /\ Remember(m)
           /\ fires' = fires \union {m}
           /\ looks' = looks \union {m}
    /\ pc' = "cycle"
    /\ UNCHANGED <<now, idle, latest>>

\* Nothing to fire in this minute.
LookOnly ==
    /\ pc = "looking"
    /\ LET m == MinuteOf(now)
       IN  /\ ~ShouldFire(m) \/ m = fired
           /\ looks' = looks \union {m}
    /\ pc' = "sleeping"
    /\ UNCHANGED <<now, fired, fires, idle, latest>>

\* The cycle returns or raises; the handler makes no difference between the two.
CycleEnds ==
    /\ pc = "cycle"
    /\ pc' = "sleeping"
    /\ \E ticks \in 0 .. MaxCycle : Passes(ticks)
    /\ idle' = now'
    /\ UNCHANGED <<fired, fires, looks>>

\* time.sleep(), and the time of the turn around it.
Sleep ==
    /\ pc = "sleeping"
    /\ pc' = "looking"
    /\ \E late \in 0 .. MaxLate : Passes(PollInterval + late)
    /\ UNCHANGED <<fired, fires, looks, idle>>

\* The process ends, at any point, and its container starts it again.
Restart ==
    /\ pc' = "looking"
    /\ \E ticks \in 0 .. MaxDown : Passes(ticks)
    /\ fired' = None
    /\ fires' = {} /\ looks' = {} /\ idle' = now'

\* The wall clock is corrected.
ClockSetBack ==
    /\ now' \in (latest - MaxBack) .. (now - 1)
    /\ now' >= 0
    /\ UNCHANGED <<pc, fired, fires, looks, idle, latest>>

Next == Fire \/ LookOnly \/ CycleEnds \/ Sleep \/ Restart \/ ClockSetBack

Spec == Init /\ [][Next]_vars

-----------------------------------------------------------------------------
(* Properties. *)

\* The daily cycle is fired "once per day" (app.py:4): the process never fires in a
\* minute a second time, although it may see that minute again on a clock set back.
OncePerWindow == [][pc = "looking" /\ pc' = "cycle" => MinuteOf(now) \notin fires]_vars

\* The process has had no cycle to run since minute m began, and has looked at the
\* clock after the end of minute n.
Watched(m, n) ==
    /\ idle <= m * MINUTE
    /\ pc # "looking"
    /\ now >= n * MINUTE + MINUTE

\* The loop has looked at the clock in minute m or in the next one.
LooksAround(m) == m \in looks \/ m + 1 \in looks

\* A turn of the loop takes more than a minute (app.py:127) and may step over one: if
\* cron names it the day is missed.  It never steps over two in a row.
SkipsOneMinute == \A m \in 0 .. now : Watched(m, m + 1) => LooksAround(m)

-----------------------------------------------------------------------------
(* The inductive invariant. *)

\* The clock is not further behind than the bound.
ClockIsNear == now <= latest /\ latest - MaxBack <= now

\* fired_this_minute stands for all that the process has fired.
FiredIsLast ==
    /\ fired = None => fires = {}
    /\ fired # None => ShouldFire(fired) /\ fired * MINUTE <= latest
    /\ \A m \in fires : m <= fired

\* The minutes looked at leave no gap of two, up to the present one.
NoWideGap ==
    \A m \in 0 .. now :
        idle <= m * MINUTE =>
            \/ LooksAround(m)
            \/ pc = "looking" /\ now < (m + 1) * MINUTE + MINUTE
            \/ pc # "looking" /\ now <= m * MINUTE

ClockInv == TypeOK /\ ClockIsNear /\ FiredIsLast /\ NoWideGap

=============================================================================
