------------------------------- MODULE Clock --------------------------------
(***************************************************************************)
(* Time: the clocks, and the timers that the timer interrupt serves.  They *)
(* are two systems: each has its variables and its specification.          *)
(***************************************************************************)
EXTENDS Integers, Sequences, FiniteSets

(***************************************************************************)
(* The clocks: `comps/time` (the real-time clock chip read at boot, the    *)
(* clock source over the time stamp counter and the timer that refreshes   *)
(* it), `aster-util/coeff.rs` (cycles to nanoseconds by one multiplication  *)
(* and one shift) and `vdso.rs` (the copy of the clock that user programs   *)
(* read without a system call).  One reader is followed at a time: readers  *)
(* change nothing, so they do not disturb each other.                       *)
(*                                                                         *)
(* Units are small: NANOS_PER_SECOND and the frequency are constants, and   *)
(* WIDTH stands for the 32 bits of `Coeff`.  The chip is a counter with     *)
(* registers; a day ends its month.  The timer interrupt refreshes the      *)
(* clock at most LATENCY cycles late, and boot, which runs with interrupts  *)
(* disabled, takes at most BOOT_CYCLES.                                     *)
(***************************************************************************)

CONSTANTS
    NANOS_PER_SECOND,   \* nanoseconds per second
    Machines,           \* [freq, mode, time]: cycles per second, how the
                        \* chip presents its registers, its time at boot
    MAX_DELAY_SECS,     \* the longest time between two refreshes
    WIDTH,              \* bits of `mult`
    LATENCY,            \* how late, in cycles, the interrupt may come
    BOOT_CYCLES,        \* how long boot takes at most
    MAX_CYCLES,         \* bound on the counter
    RTC_TICKS           \* seconds that may pass while the chip is read

VARIABLES
    freq,           \* rigid: the frequency of the counter
    mode,           \* rigid: register B of the chip, and its century register
    tsc,            \* the time stamp counter
    chip,           \* the chip: its time, whether it is updating
    rtc,            \* `update_time`: where it is and what it has read
    start_time,     \* START_TIME
    coeff,          \* of the clock source
    last_cycles,
    last_instant,
    due,            \* when the refresh timer expires
    phase,          \* how far boot has come
    vdso,           \* what the page shared with user programs holds
    start_secs,     \* START_SECS_COUNT, relative to START_TIME
    kr,             \* a task in `read_instant`
    ur,             \* a user program in the vDSO's `clock_gettime`
    halt            \* "no", or how the kernel has stopped

cvars == <<freq, mode, tsc, chip, rtc, start_time, coeff, last_cycles, last_instant,
           due, phase, vdso, start_secs, kr, ur, halt>>

(***************************************************************************)
(* Coefficients                                                            *)
(***************************************************************************)
ShiftAcc(max_multiplier) ==
    LET tmp == max_multiplier \div 2^WIDTH
        bits == CHOOSE b \in 0..WIDTH : /\ tmp < 2^b
                                        /\ b = 0 \/ tmp >= 2^(b - 1)
    IN  WIDTH - bits

MultAt(numerator, denominator, shift) ==
    (numerator * 2^shift + (denominator \div 2)) \div denominator

\* The loop stops at the largest shift whose multiplier fits.
CoeffNew(numerator, denominator, max_multiplier) ==
    LET fits == {s \in 1..WIDTH : MultAt(numerator, denominator, s)
                                     < 2^ShiftAcc(max_multiplier)}
        shift == IF fits = {} THEN 0 ELSE CHOOSE s \in fits : \A r \in fits : r <= s
        tried == IF fits = {} THEN 1 ELSE shift
    IN  [mult |-> MultAt(numerator, denominator, tried) % 2^WIDTH,
         shift |-> shift, max_multiplier |-> max_multiplier]

Mul(c, rhs) == (rhs * c.mult) \div 2^c.shift

MaxDelaySecs == IF MAX_DELAY_SECS < 2 THEN 2 ELSE MAX_DELAY_SECS

(***************************************************************************)
(* Instants                                                                *)
(***************************************************************************)
zero == [secs |-> 0, nanos |-> 0]

from_nanos(n) == [secs |-> n \div NANOS_PER_SECOND, nanos |-> n % NANOS_PER_SECOND]

add(i, d) ==
    LET nanos == i.nanos + d.nanos
    IN  IF nanos >= NANOS_PER_SECOND
        THEN [secs |-> i.secs + d.secs + 1, nanos |-> nanos - NANOS_PER_SECOND]
        ELSE [secs |-> i.secs + d.secs, nanos |-> nanos]

Nanos(i) == i.secs * NANOS_PER_SECOND + i.nanos

cycles_to_nanos(cycles) == Mul(coeff, cycles)

\* What `calculate_instant` returns when nothing comes between its reads.
calculate_instant(cycles) ==
    add(last_instant, from_nanos(cycles_to_nanos(cycles - last_cycles)))

(***************************************************************************)
(* The chip.  Time is a tuple: second, minute, hour, month, year, century.  *)
(***************************************************************************)
Bases == <<60, 60, 24, 12, 100, 100>>

\* One second later: the lowest places that are full start again at 0.
Later(t) ==
    LET full(i) == \A j \in 1..(i - 1) : t[j] = Bases[j] - 1
    IN  [i \in 1..6 |-> IF full(i) THEN (t[i] + 1) % Bases[i] ELSE t[i]]

RECURSIVE LaterBy(_, _)
LaterBy(t, n) == IF n = 0 THEN t ELSE LaterBy(Later(t), n - 1)

AsBcd(v) == IF mode.bcd THEN (v \div 10) * 16 + (v % 10) ELSE v

\* The hour register: in 12-hour mode noon and midnight read 12, and the top
\* bit says "pm".
AsHour(h) ==
    IF mode.h24 THEN AsBcd(h)
    ELSE AsBcd(IF h % 12 = 0 THEN 12 ELSE h % 12) + (IF h >= 12 THEN 128 ELSE 0)

get_cmos(t, i) == IF i = 3 THEN AsHour(t[3]) ELSE AsBcd(t[i])

FromBcd(v) == (v % 16) + (v \div 16) * 10

convert_bcd_to_binary(r) ==
    IF ~mode.bcd THEN r
    ELSE [i \in 1..6 |->
            CASE i = 3 -> FromBcd(r[3] % 128) + (r[3] \div 128) * 128
              [] i = 6 -> IF mode.century THEN FromBcd(r[6]) ELSE 20
              [] OTHER -> FromBcd(r[i])]

convert_12_hour_to_24_hour(r) ==
    IF ~mode.h24 /\ r[3] >= 128
    THEN [r EXCEPT ![3] = ((r[3] % 128) + 12) % 24] ELSE r

modify_year(r) == [r EXCEPT ![5] = r[5] + r[6] * 100]

Converted(r) == modify_year(convert_12_hour_to_24_hour(convert_bcd_to_binary(r)))

(***************************************************************************)
(* Boot                                                                    *)
(***************************************************************************)
Registers == 1..(IF mode.century THEN 6 ELSE 5)

NoRead == [at |-> 0, reg |-> <<0, 0, 0, 0, 0, 0>>, last |-> <<>>]

CInit ==
    /\ \E m \in Machines :
          /\ freq = m.freq /\ mode = m.mode
          /\ chip = [time |-> m.time, updating |-> FALSE, ticks |-> 0]
    /\ tsc = 1
    /\ rtc = NoRead
    /\ start_time = <<>>
    /\ coeff = CoeffNew(NANOS_PER_SECOND, freq, MaxDelaySecs * freq)
    /\ last_cycles = 0 /\ last_instant = zero
    /\ due = 0 /\ phase = "init" /\ start_secs = 0
    /\ vdso = [seq |-> 0, cycles |-> 0, mono |-> zero, real |-> zero]
    /\ kr = [pc |-> "idle", c |-> 0, delta |-> 0, out |-> zero]
    /\ ur = [pc |-> "idle", c |-> 0, last |-> 0, out |-> zero]
    /\ halt = "no"

\* `tsc::init`: the clock starts at zero now; then the chip is read.
calibrate ==
    /\ phase = "init"
    /\ last_cycles' = tsc /\ last_instant' = zero
    /\ phase' = "rtc" /\ rtc' = [rtc EXCEPT !.at = 0]
    /\ UNCHANGED <<freq, mode, coeff, tsc, chip, start_time, due, vdso, start_secs, kr, ur, halt>>

\* The chip announces an update of its registers and then makes it, a second
\* after the last.
ChipUpdates ==
    /\ phase = "rtc" /\ ~chip.updating /\ chip.ticks < RTC_TICKS
    /\ chip' = [chip EXCEPT !.updating = TRUE]
    /\ UNCHANGED <<freq, mode, coeff, tsc, rtc, start_time, last_cycles, last_instant,
                   due, phase, vdso, start_secs, kr, ur, halt>>

ChipUpdated ==
    /\ phase = "rtc" /\ chip.updating
    /\ chip' = [time |-> Later(chip.time), updating |-> FALSE, ticks |-> chip.ticks + 1]
    /\ tsc' = tsc + freq
    /\ UNCHANGED <<freq, mode, coeff, rtc, start_time, last_cycles, last_instant,
                   due, phase, vdso, start_secs, kr, ur, halt>>

\* `update_from_rtc`: wait until the chip is not updating, then read one
\* register after the other.
update_from_rtc ==
    /\ phase = "rtc"
    /\ \/ /\ rtc.at = 0 /\ ~chip.updating
          /\ rtc' = [rtc EXCEPT !.at = 1]
       \/ /\ rtc.at \in Registers
          /\ rtc' = [rtc EXCEPT !.at = rtc.at + 1,
                                !.reg[rtc.at] = get_cmos(chip.time, rtc.at)]
    /\ UNCHANGED <<freq, mode, coeff, tsc, chip, start_time, last_cycles, last_instant,
                   due, phase, vdso, start_secs, kr, ur, halt>>

\* `update_time`: read until two reads agree, then convert; START_TIME keeps
\* the result and the timer is set for the first time.
FirstRead ==
    /\ rtc.reg # rtc.last
    /\ rtc' = [rtc EXCEPT !.at = 0, !.last = rtc.reg]
    /\ UNCHANGED <<start_time, due, phase>>

ReadsAgree ==
    /\ rtc.reg = rtc.last
    /\ start_time' = Converted(rtc.reg)
    /\ due' = tsc + (MaxDelaySecs \div 2) * freq
    /\ phase' = "boot"
    /\ rtc' = NoRead

update_time ==
    /\ phase = "rtc" /\ rtc.at \notin Registers \cup {0}
    /\ FirstRead \/ ReadsAgree
    /\ UNCHANGED <<freq, mode, coeff, tsc, chip, last_cycles, last_instant, vdso,
                   start_secs, kr, ur, halt>>

(***************************************************************************)
(* The page shared with user programs                                      *)
(***************************************************************************)
Lshift(i) == [secs |-> i.secs, nanos |-> i.nanos * 2^coeff.shift]

update_instant(v, instant, cycles, start) ==
    [v EXCEPT !.cycles = cycles,
              !.mono = Lshift(instant),
              !.real = [Lshift(instant) EXCEPT !.secs = @ + start]]

\* The copy in the shared page: the sequence number is 1 while the fields are
\* written and 0 again afterwards; no user program runs in between.
update_vdso_instant(instant, cycles, start) ==
    [update_instant(vdso, instant, cycles, start) EXCEPT !.seq = 0]

\* `vdso::init`: START_SECS_COUNT is the time now, not the time at which the
\* clock started; from here on interrupts are enabled.
init_vdso ==
    /\ phase = "boot"
    /\ start_secs' = calculate_instant(tsc).secs
    /\ vdso' = update_instant(vdso, last_instant, last_cycles, start_secs')
    /\ phase' = "up"
    /\ UNCHANGED <<freq, mode, coeff, tsc, chip, rtc, start_time, last_cycles,
                   last_instant, due, kr, ur, halt>>

(***************************************************************************)
(* The counter and the refresh                                             *)
(***************************************************************************)
Ticks ==
    /\ halt = "no" /\ tsc < MAX_CYCLES
    /\ \/ phase = "boot" /\ tsc - last_cycles < BOOT_CYCLES
       \/ phase = "up" /\ tsc < due + LATENCY
    /\ tsc' = tsc + 1
    /\ UNCHANGED <<freq, mode, coeff, chip, rtc, start_time, last_cycles, last_instant,
                   due, phase, vdso, start_secs, kr, ur, halt>>

Rearmed == tsc + (MaxDelaySecs - 1) * freq

\* `update_clocksource`, in the timer interrupt.  It takes both locks of the
\* clock source: a reader it has interrupted inside one never gives it up.
update_clocksource ==
    /\ phase = "up" /\ halt = "no" /\ tsc >= due
    /\ IF kr.pc \in {"in_cycles", "in_instant"}
       THEN halt' = "spins" /\ UNCHANGED <<last_cycles, last_instant, vdso, due>>
       ELSE /\ last_cycles' = tsc
            /\ last_instant' = calculate_instant(tsc)
            /\ vdso' = update_vdso_instant(last_instant', last_cycles', start_secs)
            /\ due' = Rearmed
            /\ UNCHANGED halt
    /\ UNCHANGED <<freq, mode, coeff, tsc, chip, rtc, start_time, phase, start_secs, kr, ur>>

(***************************************************************************)
(* A task reads the clock: cycles, then `last_cycles`, then `last_instant`, *)
(* each of the last two under its own lock, with interrupts enabled.        *)
(***************************************************************************)
Reads(r) ==
    /\ phase = "up" /\ halt = "no"
    /\ kr' = r
    /\ UNCHANGED <<freq, mode, coeff, tsc, chip, rtc, start_time, last_cycles, last_instant,
                   due, phase, vdso, start_secs, ur>>

read_cycles ==
    kr.pc = "idle" /\ ur.pc = "idle"
        /\ Reads([kr EXCEPT !.pc = "cycles", !.c = tsc]) /\ UNCHANGED halt

LockCycles ==
    kr.pc = "cycles" /\ Reads([kr EXCEPT !.pc = "in_cycles"]) /\ UNCHANGED halt

\* The subtraction of two u64 panics when the counter was read before the
\* refresh and `last_cycles` after it.
read_last_cycles ==
    /\ kr.pc = "in_cycles"
    /\ Reads([kr EXCEPT !.pc = "delta", !.delta = kr.c - last_cycles])
    /\ halt' = IF kr.c < last_cycles THEN "panic" ELSE halt

LockInstant ==
    kr.pc = "delta" /\ Reads([kr EXCEPT !.pc = "in_instant"]) /\ UNCHANGED halt

read_last_instant ==
    /\ kr.pc = "in_instant"
    /\ Reads([kr EXCEPT !.pc = "done",
                        !.out = add(last_instant, from_nanos(cycles_to_nanos(kr.delta)))])
    /\ UNCHANGED halt

Returned ==
    /\ kr.pc = "done" /\ UNCHANGED halt
    /\ Reads([pc |-> "idle", c |-> 0, delta |-> 0, out |-> zero])

(***************************************************************************)
(* A user program reads the page: the sequence number, the counter and the  *)
(* base, and the number again; it starts over if the number has changed.    *)
(***************************************************************************)
UserReads(r) ==
    /\ phase = "up" /\ halt = "no"
    /\ ur' = r
    /\ UNCHANGED <<freq, mode, coeff, tsc, chip, rtc, start_time, last_cycles, last_instant,
                   due, phase, vdso, start_secs, kr, halt>>

VdsoInstant(base, delta) ==
    LET ns == (base.nanos + delta * coeff.mult) \div 2^coeff.shift
    IN  add([secs |-> base.secs, nanos |-> 0], from_nanos(ns))

UserBegin ==
    ur.pc = "idle" /\ kr.pc = "idle" /\ vdso.seq = 0
        /\ UserReads([ur EXCEPT !.pc = "cycles", !.c = tsc, !.last = vdso.cycles])

UserBase ==
    ur.pc = "cycles"
        /\ UserReads([ur EXCEPT !.pc = "base", !.out = VdsoInstant(vdso.mono, ur.c - ur.last)])

UserAccepts ==
    ur.pc = "base" /\ vdso.seq = 0 /\ UserReads([ur EXCEPT !.pc = "done"])

UserReturned ==
    /\ ur.pc = "done"
    /\ UserReads([pc |-> "idle", c |-> 0, last |-> 0, out |-> zero])

CNext ==
    \/ calibrate \/ ChipUpdates \/ ChipUpdated \/ update_from_rtc \/ update_time
    \/ init_vdso \/ Ticks \/ update_clocksource
    \/ read_cycles \/ LockCycles \/ read_last_cycles \/ LockInstant
    \/ read_last_instant \/ Returned
    \/ UserBegin \/ UserBase \/ UserAccepts \/ UserReturned

CSpec == CInit /\ [][CNext]_cvars

(***************************************************************************)
(* Properties                                                              *)
(***************************************************************************)
Running == phase \in {"boot", "up"} /\ halt = "no"

\* The cycles since the last refresh stay within what the coefficient was made
\* for (`debug_assert` of `mul`), and the product fits in twice its width.
DeltaInRange ==
    Running => /\ tsc - last_cycles <= coeff.max_multiplier
               /\ (tsc - last_cycles) * coeff.mult < 2^(2 * WIDTH)

\* A user program that is not interrupted reads from the page what
\* `clock_gettime` would answer: same base, same rounding.
VdsoAgrees ==
    phase = "up" /\ halt = "no" =>
        VdsoInstant(vdso.mono, tsc - vdso.cycles) = calculate_instant(tsc)

\* START_TIME is a time the chip showed while it was read, though its
\* registers are read one by one while it runs: twelve-hour clocks that show
\* 12, and binary ones without a century, are not converted.
StartTimeTrue ==
    start_time # <<>> =>
        \E k \in 0..chip.ticks, m \in Machines :
            /\ LaterBy(m.time, chip.ticks) = chip.time
            /\ LET t == LaterBy(m.time, k) IN
                start_time = [t EXCEPT ![5] = t[5] + (IF mode.century THEN t[6] ELSE 20) * 100,
                                       ![6] = IF mode.century THEN t[6] ELSE 20]

\* The clock source, its copy for user programs and the start time are sound
\* at every moment at which somebody may read them.
ClockSound == DeltaInRange /\ VdsoAgrees /\ StartTimeTrue

\* A refresh rounds the time down and starts counting again from there: the
\* clock never goes back when it does.
Forward ==
    Running /\ Running' => Nanos(calculate_instant(tsc)) <= Nanos(calculate_instant(tsc)')
ClockMonotone == [][Forward]_cvars

-----------------------------------------------------------------------------
(***************************************************************************)
(* Timers: `timer.rs` (the one-shot `Timer`) over                           *)
(* `arch/x86/timer/mod.rs` (the list of timeouts, served by the timer       *)
(* interrupt).  Tasks set and clear timers; in the interrupt the callbacks  *)
(* of the timers that are due run one after the other, and each may set and *)
(* clear timers too, its own included.  A callback object is free again     *)
(* once neither its timer nor the list nor the interrupt holds it.          *)
(***************************************************************************)

CONSTANTS
    TimerIds,       \* the timers
    CallbackIds,    \* the `TimerCallback` objects there can be
    Timeouts,       \* durations a timer is set to, in nanoseconds
    TIMER_FREQ,     \* ticks per second
    NANOS,          \* nanoseconds per second
    MaxTick         \* bound on TICK

VARIABLES
    TICK,           \* ticks since boot
    timeout_list,   \* the callbacks in the heap
    callback,       \* callback object -> its timer, expiry and cancelled flag
    timer,          \* timer -> start_tick, timeout_tick, timer_callback
    callbacks,      \* those the interrupt has collected and not yet called
    called          \* the timers whose latest timeout has called the function

tmvars == <<TICK, timeout_list, callback, timer, callbacks, called>>

None == 0

NANOS_DIVIDE == NANOS \div TIMER_FREQ

SeqElems(s) == {s[i] : i \in 1..Len(s)}

Dropped == [timer |-> None, expire_ticks |-> 0, is_cancelled |-> FALSE]

Held == timeout_list \cup SeqElems(callbacks) \cup {timer[t].timer_callback : t \in TimerIds}

TMInit ==
    /\ TICK = 0 /\ timeout_list = {} /\ callbacks = <<>>
    /\ callback = [c \in CallbackIds |-> Dropped]
    /\ timer = [t \in TimerIds |->
                  [start_tick |-> 0, timeout_tick |-> 0, timer_callback |-> None]]
    /\ called = {}

-----------------------------------------------------------------------------
NoCancel(t) == [c \in CallbackIds |-> IF c \notin Held THEN Dropped ELSE callback[c]]

\* `cancel` of whatever callback the timer has.
cancel(t) ==
    [c \in CallbackIds |->
        IF c \notin Held THEN Dropped
        ELSE [callback[c] EXCEPT !.is_cancelled = @ \/ c = timer[t].timer_callback]]

TickCount(timeout) ==
    (timeout \div NANOS) * TIMER_FREQ + ((timeout % NANOS) \div NANOS_DIVIDE)

\* `add_timeout_list`: the smallest free object stands for the new allocation.
add_timeout_list(c, t, count) ==
    /\ callback' = [cancel(t) EXCEPT ![c] = [timer |-> t, expire_ticks |-> TICK + count,
                                             is_cancelled |-> FALSE]]
    /\ timeout_list' = timeout_list \cup {c}

set(t, timeout) ==
    /\ CallbackIds \ Held # {}
    /\ LET c == CHOOSE c \in CallbackIds \ Held : TRUE
           count == TickCount(timeout)
       IN /\ add_timeout_list(c, t, count)
          /\ timer' = [timer EXCEPT ![t] = [start_tick |-> TICK,
                                            timeout_tick |-> TICK + count,
                                            timer_callback |-> c]]

clear(t) ==
    /\ callback' = cancel(t)
    /\ timer' = [timer EXCEPT ![t] = [start_tick |-> 0, timeout_tick |-> 0,
                                      timer_callback |-> None]]
    /\ UNCHANGED timeout_list

remain(t) ==
    LET tick_remain == timer[t].timeout_tick - TICK
    IN  IF tick_remain <= 0 THEN 0
        ELSE (tick_remain \div TIMER_FREQ) * NANOS + (tick_remain % TIMER_FREQ) * NANOS_DIVIDE

-----------------------------------------------------------------------------
(* What `peek` and `pop` remove in the loop: the heap is popped in the      *)
(* order of expiry, up to the first callback that is live and not yet due.  *)
Stop(now) == {c \in timeout_list : ~callback[c].is_cancelled /\ callback[c].expire_ticks > now}

Popped(now) ==
    {c \in timeout_list : \A s \in Stop(now) :
        callback[c].expire_ticks < callback[s].expire_ticks}

Orders(S) ==
    {o \in [1..Cardinality(S) -> S] :
        /\ \A i, j \in 1..Cardinality(S) : i # j => o[i] # o[j]
        /\ \A i, j \in 1..Cardinality(S) :
              i < j => callback[o[i]].expire_ticks <= callback[o[j]].expire_ticks}

\* A cancelled callback that expires with the first live one may or may not
\* be popped with the rest; it is dead either way.
timer_callback ==
    /\ callbacks = <<>> /\ TICK < MaxTick
    /\ TICK' = TICK + 1
    /\ timeout_list' = timeout_list \ Popped(TICK)
    /\ callbacks' \in Orders({c \in Popped(TICK) : ~callback[c].is_cancelled})
    /\ UNCHANGED <<callback, timer, called>>

\* The function of the timer, called with the interrupt's other callbacks still
\* to come.  It may set or clear one timer, as `update_clocksource` does.
Function(c) ==
    LET now == called \cup {t \in TimerIds : timer[t].timer_callback = c} IN
    \/ UNCHANGED <<callback, timer, timeout_list>> /\ called' = now
    \/ \E u \in TimerIds :
          /\ clear(u) \/ \E d \in Timeouts : set(u, d)
          /\ called' = now \ {u}

RunCallback ==
    /\ callbacks # <<>>
    /\ callbacks' = Tail(callbacks)
    /\ Function(Head(callbacks))
    /\ UNCHANGED TICK

TaskSets ==
    /\ callbacks = <<>>
    /\ \E t \in TimerIds :
          /\ \/ \E d \in Timeouts : set(t, d)
             \/ timer[t].timer_callback # None /\ clear(t)
          /\ called' = called \ {t}
    /\ UNCHANGED <<TICK, callbacks>>

TMNext == timer_callback \/ RunCallback \/ TaskSets

TMSpec == TMInit /\ [][TMNext]_tmvars

-----------------------------------------------------------------------------
Armed(t) == timer[t].timer_callback # None /\ t \notin called

\* A timer that is set is waiting in the list for exactly the tick `remain`
\* counts down to, or in the hands of the interrupt of that tick; a timer that
\* was set again or cleared has no other live callback in the list; and nothing
\* is collected before its time.
TimersSound ==
    /\ \A t \in TimerIds : Armed(t) =>
          LET c == timer[t].timer_callback IN
            \/ /\ c \in timeout_list
               /\ TICK <= callback[c].expire_ticks
               /\ callback[c].expire_ticks = TICK + TickCount(remain(t))
               /\ ~callback[c].is_cancelled
            \/ c \in SeqElems(callbacks)
    /\ \A c \in timeout_list : callback[c].is_cancelled \/ timer[callback[c].timer].timer_callback = c
    /\ \A c \in SeqElems(callbacks) : callback[c].expire_ticks < TICK
=============================================================================
