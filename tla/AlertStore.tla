------------------------------ MODULE AlertStore ------------------------------
(***************************************************************************)
(* What evaluateCPUAlert expects of an AlertStateStore (alert_store.go:     *)
(* 13-18): goroutines call its four operations at the same time, and each   *)
(* call takes effect at one instant between its start and its return.  An   *)
(* absent count is 0, an absent cooldown ended at time 0.                   *)
(***************************************************************************)
EXTENDS Integers

CONSTANTS
  Client,             \* goroutines that call the store
  Machine,            \* machine ids, the keys
  None,               \* no goroutine, no machine
  Cooldown,           \* the ttl of TryAcquireCooldown, in ticks
  MaxCalls, MaxTime   \* bounds of a finite run

VARIABLES
  now,         \* the clock
  counts,      \* counts[m]: consecutive breaches counted
  coolUntil,   \* coolUntil[m]: when the cooldown of m ends
  call,        \* call[c]: the call of goroutine c, or NoCall
  calls        \* calls made: a bound
vars == <<now, counts, coolUntil, call, calls>>

Op == {"IncrementCPUBreach", "GetCPUBreachCount", "ResetCPUBreach", "TryAcquireCooldown"}
NoCall == [op |-> "none", mach |-> None, done |-> FALSE, ret |-> 0]

Init ==
  /\ now = 0
  /\ counts = [m \in Machine |-> 0]
  /\ coolUntil = [m \in Machine |-> 0]
  /\ call = [c \in Client |-> NoCall]
  /\ calls = 0

\* The count a call leaves, and the end of the cooldown it leaves, at time t.
CountAfter(op, n) ==
  CASE op = "IncrementCPUBreach" -> n + 1
    [] op = "ResetCPUBreach" -> 0
    [] OTHER -> n
Wins(op, until, t) == op = "TryAcquireCooldown" /\ t >= until
UntilAfter(op, until, t) == IF Wins(op, until, t) THEN t + Cooldown ELSE until

\* What it returns; TRUE is 1.
Reply(op, n, until, t) ==
  CASE op \in {"IncrementCPUBreach", "GetCPUBreachCount"} -> CountAfter(op, n)
    [] op = "TryAcquireCooldown" -> IF Wins(op, until, t) THEN 1 ELSE 0
    [] OTHER -> 0

Begin(c, op, m) ==
  /\ call[c] = NoCall
  /\ calls < MaxCalls
  /\ calls' = calls + 1
  /\ call' = [call EXCEPT ![c] = [op |-> op, mach |-> m, done |-> FALSE, ret |-> 0]]
  /\ UNCHANGED <<now, counts, coolUntil>>

Perform(c) ==
  LET op == call[c].op  m == call[c].mach IN
  /\ call[c] # NoCall /\ ~call[c].done
  /\ counts' = [counts EXCEPT ![m] = CountAfter(op, @)]
  /\ coolUntil' = [coolUntil EXCEPT ![m] = UntilAfter(op, @, now)]
  /\ call' = [call EXCEPT ![c] = [op |-> op, mach |-> m, done |-> TRUE,
                                  ret |-> Reply(op, counts[m], coolUntil[m], now)]]
  /\ UNCHANGED <<now, calls>>

End(c) ==
  /\ call[c].done
  /\ call' = [call EXCEPT ![c] = NoCall]
  /\ UNCHANGED <<now, counts, coolUntil, calls>>

Tick ==
  /\ now < MaxTime
  /\ now' = now + 1
  /\ UNCHANGED <<counts, coolUntil, call, calls>>

Next ==
  \/ \E c \in Client :
       \/ \E op \in Op, m \in Machine : Begin(c, op, m)
       \/ Perform(c)
       \/ End(c)
  \/ Tick

Spec == Init /\ [][Next]_vars
=============================================================================
