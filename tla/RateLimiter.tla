---------------------------- MODULE RateLimiter ----------------------------
(***************************************************************************)
(* The window of one client in RateLimiter.allow (agency/security.py),     *)
(* which threads of the API read and write without a lock.                 *)
(***************************************************************************)
EXTENDS Integers, Sequences, FiniteSets

CONSTANTS
    Callers,        \* threads that serve requests of this client
    PerMinute,      \* requests a window admits
    Minute,         \* length of a window in ticks of the clock
    MaxTime         \* bound of the exploration: ticks

ASSUME RateLimiterAssumption ==
    PerMinute \in Nat \ {0} /\ Minute \in Nat \ {0} /\ MaxTime \in Nat

VARIABLES
    now,
    window,     \* _windows[key]: at most one [count, start]
    call,       \* what each thread has read
    admitted    \* times of the admitted calls, in the order of their writes

limiter == <<now, window, call, admitted>>

Away == [pc |-> "away"]

LimiterInit ==
    /\ now = 0 /\ window = {} /\ admitted = <<>>
    /\ call = [t \in Callers |-> Away]

ReadClock(t) ==
    /\ call[t] = Away
    /\ call' = [call EXCEPT ![t] = [pc |-> "clock", at |-> now]]
    /\ UNCHANGED <<now, window, admitted>>

\* A missing or an elapsed window starts over.
Window(at) == IF \E w \in window : at - w.start < Minute
              THEN CHOOSE w \in window : TRUE
              ELSE [count |-> 0, start |-> at]

ReadWindow(t) ==
    /\ call[t].pc = "clock"
    /\ LET w == Window(call[t].at) IN
       call' = [call EXCEPT ![t] = [pc |-> "window", at |-> @.at, count |-> w.count, start |-> w.start]]
    /\ UNCHANGED <<now, window, admitted>>

\* Fault: a denied call prolongs the window.
DenialProlongs(c) == [count |-> c.count, start |-> c.at]

\* A denied call leaves the window as it was read.
Denial(c) == [count |-> c.count, start |-> c.start]

Denied(t) == call[t].pc = "window" /\ call[t].count >= PerMinute

WriteWindow(t) ==
    LET c == call[t] IN
    /\ c.pc = "window"
    /\ IF Denied(t)
       THEN window' = {Denial(c)} /\ UNCHANGED admitted
       ELSE /\ window' = {[count |-> c.count + 1, start |-> c.start]}
            /\ admitted' = Append(admitted, now)
    /\ call' = [call EXCEPT ![t] = Away]
    /\ UNCHANGED now

\* How many calls were admitted in the minute before time t.
AdmittedBefore(t) == Cardinality({i \in DOMAIN admitted : admitted[i] > t - Minute})

Tick ==
    /\ now < MaxTime
    /\ now' = now + 1
    /\ UNCHANGED <<window, call, admitted>>

LimiterNext == Tick \/ \E t \in Callers : ReadClock(t) \/ ReadWindow(t) \/ WriteWindow(t)

LimiterSpec == LimiterInit /\ [][LimiterNext]_limiter

-----------------------------------------------------------------------------
(* Properties                                                              *)

\* A call is denied only after PerMinute calls of the last minute were admitted: races
\* between threads let more calls pass, never fewer (RateLimiter.allow).
NobodyDeniedEarly == \A t \in Callers : Denied(t) => AdmittedBefore(call[t].at) >= PerMinute
=============================================================================
