----------------------------- MODULE PortValues -----------------------------
(***************************************************************************)
(* Times and hexadecimal strings of port.c.  The thousand milliseconds of  *)
(* a second and the million nanoseconds of a millisecond are constants.    *)
(***************************************************************************)
EXTENDS Integers, Sequences

CONSTANTS NsPerMs, MsPerSec,    \* a million and a thousand in the code
          Laps,                 \* what is added to a time or taken off
          MaxSec                \* bound: seconds of a time

VARIABLES
    ts,         \* two times
    total,      \* the nanoseconds each should be
    digits      \* the digits of a number to convert, 0 to 15

vars == <<ts, total, digits>>

NsPerSec == NsPerMs * MsPerSec

Init == /\ ts = [i \in 1..2 |-> [sec |-> 0, nsec |-> 0]]
        /\ total = [i \in 1..2 |-> 0]
        /\ digits = <<0, 0>>

\* Division and remainder of C, towards zero.
Abs(n) == IF n < 0 THEN -n ELSE n
Sgn(n) == IF n < 0 THEN -1 ELSE IF n > 0 THEN 1 ELSE 0
Quotient(a, b) == Sgn(a) * (Abs(a) \div b)
Remainder(a, b) == Sgn(a) * (Abs(a) % b)

bctbx_timespec_add_secs(t, lap) ==
    IF lap < 0 /\ -lap > t.sec THEN [sec |-> 0, nsec |-> 0] ELSE [t EXCEPT !.sec = @ + lap]

\* Mutant: borrowing a second does not count it.
add_without_borrow(t, lap) ==
    LET lap_secs == Quotient(lap, MsPerSec)
        lap_nsecs == Remainder(lap, MsPerSec) * NsPerMs
        u == IF lap_secs # 0 THEN bctbx_timespec_add_secs(t, lap_secs) ELSE t
        nsec == u.nsec + lap_nsecs
    IN  IF nsec < 0 THEN [u EXCEPT !.nsec = IF u.sec = 0 THEN 0 ELSE NsPerSec + nsec]
        ELSE [u EXCEPT !.nsec = nsec]

\* A sum of exactly one second is not carried.
bctbx_timespec_add_millisecs(t, lap) ==
    LET lap_secs == Quotient(lap, MsPerSec)
        lap_nsecs == Remainder(lap, MsPerSec) * NsPerMs
        u == IF lap_secs # 0 THEN bctbx_timespec_add_secs(t, lap_secs) ELSE t
        nsec == u.nsec + lap_nsecs
    IN  IF nsec < 0
        THEN IF u.sec = 0 THEN [u EXCEPT !.nsec = 0]
             ELSE [sec |-> u.sec - 1, nsec |-> NsPerSec + nsec]
        ELSE IF nsec > NsPerSec THEN [sec |-> u.sec + 1, nsec |-> nsec % NsPerSec]
        ELSE [u EXCEPT !.nsec = nsec]

bctbx_timespec_compare(s1, s2) ==
    IF s1.sec = s2.sec THEN Sgn(s1.nsec - s2.nsec) ELSE Sgn(s1.sec - s2.sec)

\* The milliseconds of the current time, rounded.
bctbx_get_cur_time_ms(now) == (now.sec * MsPerSec) + ((now.nsec + (NsPerMs \div 2)) \div NsPerMs)

\* What there is to sleep, where the system has no sleep until a time.
bctbx_sleep_until(t, current) ==
    LET sec == t.sec - current.sec
        nsec == t.nsec - current.nsec
    IN  IF nsec < 0 THEN [sec |-> sec - 1, nsec |-> nsec + NsPerSec] ELSE [sec |-> sec, nsec |-> nsec]

bctbx_sleep_ms(ms) == [sec |-> ms \div MsPerSec, nsec |-> (ms % MsPerSec) * NsPerMs]

\* Characters are their codes; a byte wraps around.
bctbx_char_to_byte(c) ==
    IF c > 41 /\ c < 58 THEN (c - 48) % 256
    ELSE IF c > 96 /\ c < 103 THEN c - 87
    ELSE IF c > 64 /\ c < 71 THEN c - 55
    ELSE 0

bctbx_byte_to_char(b) == LET crop == b % 16 IN IF crop < 10 THEN crop + 48 ELSE crop + 87

bctbx_str_to_uint8(s) ==
    [i \in 1..(Len(s) \div 2) |-> ((bctbx_char_to_byte(s[2*i - 1]) * 16) + bctbx_char_to_byte(s[2*i])) % 256]

bctbx_int8_to_str(bytes) ==
    [i \in 1..(2 * Len(bytes)) |->
        LET b == bytes[(i + 1) \div 2] IN bctbx_byte_to_char(IF i % 2 = 1 THEN b \div 16 ELSE b)]

\* bctbx_uint32_to_str and bctbx_uint64_to_str, of a number given by its
\* digits, and back.
bctbx_uint_to_str(n) == [i \in DOMAIN n |-> bctbx_byte_to_char(n[i])]

bctbx_str_to_uint(s) == [i \in DOMAIN s |-> bctbx_char_to_byte(s[i])]

-----------------------------------------------------------------------------

Plus(n, lap) == IF n + lap < 0 THEN 0 ELSE n + lap

AddSecs(i) == \E lap \in Laps \cup {-n : n \in Laps} :
    /\ ts' = [ts EXCEPT ![i] = bctbx_timespec_add_secs(@, lap)]
    /\ total' = [total EXCEPT ![i] = Plus(@, lap * NsPerSec)]

AddMillisecs(i) == \E lap \in Laps \cup {-n : n \in Laps} :
    /\ ts' = [ts EXCEPT ![i] = bctbx_timespec_add_millisecs(@, lap)]
    /\ total' = [total EXCEPT ![i] = Plus(@, lap * NsPerMs)]

\* A time read from the clock.
ReadClock(i) == \E n \in 0..(NsPerSec - 1) :
    /\ ts' = [ts EXCEPT ![i] = [sec |-> 1, nsec |-> n]]
    /\ total' = [total EXCEPT ![i] = NsPerSec + n]

Times == /\ \E i \in 1..2 : AddSecs(i) \/ AddMillisecs(i) \/ ReadClock(i)
         /\ \A i \in 1..2 : ts'[i].sec <= MaxSec
         /\ UNCHANGED digits

Digits == /\ \E d \in 0..15 : digits' = <<digits[2], d>>
          /\ UNCHANGED <<ts, total>>
=============================================================================
