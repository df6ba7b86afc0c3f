------------------------------ MODULE TickTimes ------------------------------
(***************************************************************************)
(* Absolute times (lib/common/include_platform/mlua/platform_common.h,     *)
(* mlua.int64.c), and the sleeps and alarms made of them (mlua.time.c and  *)
(* pico.time.c) where lua_Integer has half of the bits of a time.  A time  *)
(* is given as an Int64, or as an integer that stands for the low bits.    *)
(* One call of one thread, or one alarm, is followed.                      *)
(***************************************************************************)
EXTENDS Integers

CONSTANTS
    Half,      \* 2 ^ (L - 1), where L is the number of bits of a lua_Integer
    Ms,        \* the microseconds of a millisecond
    MaxNow,    \* bound on the clock, which is far from the end of the times
    Late       \* bound on the time from when a thread is due to its next sleep

VARIABLES
    now,       \* the clock
    pc,        \* "idle", "asleep" or, of an alarm, "callback"
    api,       \* whose loop the sleep is: "mlua", "pico" or "alarm"
    time,      \* the time that the thread sleeps until, as it was given
    delay,     \* the delay of an alarm
    due        \* the time that was meant

vars == <<now, pc, api, time, delay, due>>

\* The number of values of a lua_Integer, and of a time, which has 2 * L bits.
Ints == 2 * Half
Times == Ints * Ints
MaxInt == Half - 1
MinInt == -Half
MaxTicks == Ints * Half - 1
Integer(t) == [type |-> "integer", v |-> t % Ints]
Int64(t) == [type |-> "int64", v |-> t]

\* The time nearest to at whose low bits are ticks; one before 0 wraps around.
to_ticks64(ticks, at) ==
    LET res == at - (at % Ints) + ticks
        t == at % Ints
    IN (CASE t < ticks /\ ticks - t > MaxInt -> res - Ints
          [] ticks < t /\ t - ticks > -MinInt -> res + Ints
          [] OTHER -> res) % Times

check_time(x) == IF x.type = "integer" THEN to_ticks64(x.v, now) ELSE x.v

ticks64_reached(t) == now >= t
ticks_reached(t) == (now - t) % Ints <= MaxInt
time_reached(x) == IF x.type = "integer" THEN ticks_reached(x.v) ELSE ticks64_reached(x.v)

timeout_deadline(t, timeout) == IF t + timeout <= MaxTicks THEN t + timeout ELSE MaxTicks

push_deadline(timeout) ==
    IF timeout <= MaxInt THEN Integer(now + timeout)
    ELSE Int64(timeout_deadline(now, timeout))

\* A delay in milliseconds, with a division that keeps the product in range.
push_deadline_ms(ms) ==
    IF ms <= MaxInt \div Ms THEN Integer(now + ms * Ms)
    ELSE Int64(timeout_deadline(now, ms * Ms))

compare(x, y) == LET a == check_time(x)  b == check_time(y)
                 IN IF a < b THEN -1 ELSE IF a = b THEN 0 ELSE 1
\* The difference of unsigned times, as a signed one.
diff(from, to) == LET d == check_time(to) - check_time(from)
                  IN ((d + MaxTicks + 1) % Times) - MaxTicks - 1

-----------------------------------------------------------------------------

Init ==
    /\ now \in 0..Ints /\ pc = "idle" /\ api = "mlua"
    /\ time = Int64(0) /\ delay = 0 /\ due = 0

\* The time that a program means by an integer is within half of the range.
Meant(x) == IF x.type = "int64" THEN x.v
            ELSE CHOOSE t \in (now + MinInt)..(now + MaxInt) : t % Ints = x.v
Given == {Integer(t) : t \in 0..(Ints - 1)} \cup {Int64(t) : t \in 0..(MaxNow + 2)}
Delays == 0..(Ints + 1)

Sleep(who, x, t) ==
    /\ pc' = "asleep" /\ api' = who /\ time' = x /\ due' = t
    /\ UNCHANGED <<now, delay>>

\* mlua.time: the loop suspends the thread with the time as it was given; a
\* thread that blocks waits for the 64-bit time.
mod_sleep_until(x) ==
    /\ pc = "idle"
    /\ \/ ~time_reached(x) /\ Sleep("mlua", x, Meant(x))
       \/ Sleep("mlua", Int64(check_time(x)), Meant(x))
mod_sleep_for(d) ==
    /\ pc = "idle" /\ d > 0
    /\ ~time_reached(push_deadline(d)) /\ Sleep("mlua", push_deadline(d), now + d)

\* pico.time: the loop converts the time anew when it is resumed.
pico_sleep_until(x) ==
    /\ pc = "idle" /\ ~ticks64_reached(check_time(x)) /\ Sleep("pico", x, Meant(x))
mod_sleep_us(d) == pc = "idle" /\ d > 0 /\ Sleep("pico", push_deadline(d), now + d)
mod_sleep_ms(d) ==
    pc = "idle" /\ d > 0 /\ Sleep("pico", push_deadline_ms(d), now + d * Ms)

Reached == IF api = "mlua" THEN time_reached(time) ELSE ticks64_reached(check_time(time))

\* mod_sleep_until_1(): the thread is resumed, when it is due or by a program.
mod_sleep_until_1 ==
    /\ pc = "asleep" /\ Reached
    /\ pc' = (IF api = "alarm" THEN "callback" ELSE "idle")
    /\ UNCHANGED <<now, api, time, delay, due>>

\* schedule_alarm() starts the thread, which sleeps unless the time is reached.
alarm_thread(x, t, d) ==
    /\ pc' = "asleep" /\ api' = "alarm" /\ time' = x /\ due' = t /\ delay' = d
    /\ UNCHANGED now

\* D_UNKNOWN: an integer unless the time is too far ahead.
mod_add_alarm_at(x, fire_if_past) ==
    LET t == check_time(x)
    IN /\ pc = "idle" /\ (fire_if_past \/ ~ticks64_reached(t))
       /\ alarm_thread(IF t - now <= MaxInt THEN Integer(t) ELSE Int64(t), Meant(x), 0)

\* D_INTEGER or D_INT64, from the delay.
mod_add_alarm_in_us(d) ==
    pc = "idle" /\ alarm_thread(push_deadline(d), now + d, 0)
mod_add_alarm_in_ms(d) ==
    pc = "idle" /\ alarm_thread(push_deadline_ms(d), now + d * Ms, 0)
mod_add_repeating_timer_us(d) ==
    LET delta == IF d < 0 THEN -d ELSE d
    IN pc = "idle" /\ d # 0 /\ alarm_thread(push_deadline(delta), now + delta, d)

\* Mutant: the next time of a repeating timer is always an integer.
M_NextTime(next) == Integer(next)
NextTime(next) ==
    IF next - now \in MinInt..MaxInt THEN Integer(next) ELSE Int64(next)

\* The time is before the clock started, or too far in the past for an integer.
Misread == due < 0 \/ now - due >= -MinInt

\* The callback has returned the next delay, or that there is none: a negative
\* one is from when the alarm was due, a positive one from now.
alarm_thread_2(d) ==
    /\ pc = "callback"
    /\ delay # 0 => delay' = d
    /\ delay = 0 => delay' = 0
    /\ IF d = 0 THEN pc' = "idle" /\ UNCHANGED <<time, due>>
       ELSE LET next == IF d < 0 THEN check_time(time) - d ELSE now + d
            IN /\ pc' = "asleep" /\ time' = NextTime(next)
               /\ due' = IF d > 0 THEN now + d ELSE IF Misread THEN -1 ELSE due - d
    /\ UNCHANGED <<now, api>>

mod_cancel_alarm ==
    /\ pc # "idle" /\ api = "alarm" /\ pc' = "idle"
    /\ UNCHANGED <<now, api, time, delay, due>>

\* The dispatcher resumes a thread that is due before Late has passed.
Tick ==
    /\ now < MaxNow /\ (pc # "idle" => now < due + Late)
    /\ now' = now + 1
    /\ UNCHANGED <<pc, api, time, delay, due>>

Next ==
    \/ Tick
    \/ mod_sleep_until_1
    \/ mod_cancel_alarm
    \/ \E x \in Given : \/ mod_sleep_until(x) \/ pico_sleep_until(x)
                        \/ \E past \in BOOLEAN : mod_add_alarm_at(x, past)
    \/ \E d \in Delays : \/ mod_sleep_for(d) \/ mod_sleep_us(d) \/ mod_sleep_ms(d)
                         \/ mod_add_alarm_in_us(d) \/ mod_add_alarm_in_ms(d)
    \/ \E d \in {-MaxInt - 2, -1, 0, 1, MaxInt + 2} :
          mod_add_repeating_timer_us(d) \/ alarm_thread_2(d)

Spec == Init /\ [][Next]_vars

-----------------------------------------------------------------------------
(* Properties. *)

\* A thread is not taken out of its sleep before the time that was meant, and is
\* when that has passed, also where the low bits have wrapped around, and a
\* repeating alarm with a negative delay does not drift.  An integer that means
\* a time before the clock started does not (to_ticks64() wraps around), nor does
\* an alarm for an Int64 further in the past than an integer reaches, or a sleep
\* until an integer at the very end of the range (ticks_reached()).
WakesWhenDue == pc = "asleep" /\ ~Misread => (Reached <=> now >= due)

\* Times given as integers and as Int64s compare, and differ, like the times
\* that are meant.
TimesCompare == pc = "idle" /\ due = 0 =>
    \A x, y \in Given :
       LET a == Meant(x)  b == Meant(y)
       IN a >= 0 /\ b >= 0 => /\ compare(x, y) = (IF a < b THEN -1 ELSE IF a = b THEN 0 ELSE 1)
                              /\ diff(x, y) = b - a
=============================================================================
