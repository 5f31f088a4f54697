------------------------------ MODULE KoruWait ------------------------------
(***************************************************************************)
(* The timeout of ENTER: the conversion of timeout_ns to jiffies, and the  *)
(* loop of `wait' (kernel/koru.rs) against a clock.  KoruRing lets a       *)
(* capped wait time out whenever it sleeps; here the time it takes counts. *)
(*                                                                         *)
(* One task waits.  Completions arrive when workers make them, and each    *)
(* one wakes it, after which it waits for the whole timeout again.         *)
(***************************************************************************)
EXTENDS Naturals

CONSTANTS NsPerMs,      \* 1_000_000 in the code
          MsPerJiffy,   \* 1000 / HZ
          I32Max,       \* 2^31 - 1: msecs_to_jiffies takes more than that for infinity
          U32Max,       \* 2^32 - 1
          Timeouts,     \* the values of timeout_ns
          MaxOps,       \* bound: operations in flight when the wait begins
          MaxTime       \* bound: how long the clock runs

ASSUME UnitsAssumption ==
  /\ NsPerMs \in Nat \ {0} /\ MsPerJiffy \in Nat \ {0}
  /\ I32Max \in Nat /\ U32Max \in Nat /\ I32Max < U32Max
ASSUME RangesAssumption == Timeouts \subseteq Nat /\ MaxOps \in Nat /\ MaxTime \in Nat

VARIABLES now,          \* the clock, in ns, from the call of wait
          timeout,      \* timeout_ns
          min,          \* min_complete
          len,          \* completions queued
          inflight,     \* deferred operations
          pc,           \* check, asleep, or returned, and why
          expires       \* when the timer of the sleeping task fires

waitVars == <<now, timeout, min, len, inflight, pc, expires>>

Never == MaxTime + 1
DivCeil(a, b) == (a + b - 1) \div b

\* A variant no specification uses: what rounding down would do.
MillisecondsDown(ns) == ns \div NsPerMs

\* Rounded up to milliseconds, and more of them than a u32 holds are as many as
\* it holds.
Milliseconds(ns) ==
  LET ms == DivCeil(ns, NsPerMs) IN IF ms > U32Max THEN U32Max ELSE ms

\* The cap in ns: msecs_to_jiffies rounds up again.  Never stands for no cap,
\* for infinity, and for whatever the clock does not reach.
Cap(ns) ==
  LET ms == Milliseconds(ns)
      cap == DivCeil(ms, MsPerJiffy) * MsPerJiffy * NsPerMs
  IN  IF ns = 0 \/ ms > I32Max \/ cap > MaxTime THEN Never ELSE cap

WaitInit ==
  /\ now = 0
  /\ timeout \in Timeouts
  /\ min \in 1..(MaxOps + 1)
  /\ len = 0
  /\ inflight \in 0..MaxOps
  /\ pc = "check"
  /\ expires = Never

-----------------------------------------------------------------------------
Enough ==
  /\ pc = "check"
  /\ len >= min
  /\ pc' = "enough"
  /\ UNCHANGED <<now, timeout, min, len, inflight, expires>>

Quiescent ==
  /\ pc = "check"
  /\ len < min /\ inflight = 0
  /\ pc' = "quiescent"
  /\ UNCHANGED <<now, timeout, min, len, inflight, expires>>

\* wait_interruptible_timeout, with all the jiffies of the call.
Sleep ==
  /\ pc = "check"
  /\ len < min /\ inflight > 0
  /\ expires' = IF Cap(timeout) = Never THEN Never ELSE now + Cap(timeout)
  /\ pc' = "asleep"
  /\ UNCHANGED <<now, timeout, min, len, inflight>>

\* complete, and its notify_all.
Complete ==
  /\ inflight > 0
  /\ inflight' = inflight - 1
  /\ len' = len + 1
  /\ pc' = IF pc = "asleep" THEN "check" ELSE pc
  /\ UNCHANGED <<now, timeout, min, expires>>

Timeout ==
  /\ pc = "asleep"
  /\ now >= expires
  /\ pc' = "timeout"
  /\ UNCHANGED <<now, timeout, min, len, inflight, expires>>

Signal ==
  /\ pc = "asleep"
  /\ pc' = "signal"
  /\ UNCHANGED <<now, timeout, min, len, inflight, expires>>

Tick ==
  /\ now < MaxTime
  /\ pc = "asleep" /\ now < expires
  /\ now' = now + 1
  /\ UNCHANGED <<timeout, min, len, inflight, pc, expires>>

WaitNext == Enough \/ Quiescent \/ Sleep \/ Complete \/ Timeout \/ Signal \/ Tick

WaitSpec == WaitInit /\ [][WaitNext]_waitVars

-----------------------------------------------------------------------------
(* The property.                                                           *)

\* The cap is never shorter than what was asked for, though it is converted
\* twice: a wait that timed out has lasted timeout_ns at least (the comment in
\* wait: a sub-millisecond request does not become a zero-jiffy no-wait).
NeverEarly == pc = "timeout" => timeout > 0 /\ now >= timeout
=============================================================================
