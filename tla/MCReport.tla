------------------------------ MODULE MCReport ------------------------------
EXTENDS Report

\* With a day of two units, one warning day and a largest duration of three:
\* expired, expiring and secure certificates, such as change from one to the next
\* while the clock runs, fractions of days, and a difference that is cut.
MCDates == {0, 2, 3, 4}
=============================================================================
