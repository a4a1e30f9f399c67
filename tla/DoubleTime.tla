----------------------------- MODULE DoubleTime -----------------------------
(* doubletime of helpers.h: the next timeout of a select loop. *)
EXTENDS Naturals

Second == 1000000       \* in microseconds
Zero == [sec |-> 0, usec |-> 0]

\* Mutant: the first test of the half compares with the limit itself.
DoubletimeLate(tv, maxsec, maxusec) ==
    IF tv.sec = 0 /\ 0 < tv.usec /\ tv.usec < Second THEN [tv EXCEPT !.usec = 2 * @]
    ELSE IF tv.usec = 0 /\ tv.sec = 0 THEN [tv EXCEPT !.usec = 1] ELSE [tv EXCEPT !.sec = maxsec]

\* Seconds are only doubled below half of maxsec; a time of less than a
\* second below half of maxusec, or of a second.  No limits: it never ends.
Doubletime(tv, maxsec, maxusec) ==
    LET endless == maxsec = 0 /\ maxusec = 0
        halfmaxusec == (IF maxusec = 0 \/ maxusec > Second THEN Second ELSE maxusec) \div 2
    IN CASE tv = Zero -> [tv EXCEPT !.usec = 1]
         [] tv.sec = 0 /\ 0 < tv.usec /\ tv.usec <= halfmaxusec -> [tv EXCEPT !.usec = 2 * @]
         [] tv.sec = 0 /\ tv.usec > halfmaxusec ->
              IF maxsec > 0 \/ endless THEN [sec |-> 1, usec |-> 0]
              ELSE [tv EXCEPT !.usec = maxusec]
         [] tv.sec > 0 /\ tv.sec >= maxsec \div 2 /\ ~endless -> [tv EXCEPT !.sec = maxsec]
         [] tv.sec > 0 /\ (tv.sec < maxsec \div 2 \/ endless) -> [tv EXCEPT !.sec = 2 * @]

Shorter(a, b) == a.sec < b.sec \/ (a.sec = b.sec /\ a.usec < b.usec)

=============================================================================
