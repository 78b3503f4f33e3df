--------------------------- MODULE MemoryAlertStore ---------------------------
(***************************************************************************)
(* MemoryAlertStateStore (alert_store.go:80-123): two Go maps under one     *)
(* mutex.  Each method locks, loads what it needs, stores what it changes   *)
(* and unlocks on return; goroutines interleave between these steps, and    *)
(* time passes between the time.Now() of TryAcquireCooldown and its write.  *)
(* The store implements AlertStore.                                         *)
(***************************************************************************)
EXTENDS Integers

CONSTANTS Client, Machine, None, Cooldown, MaxCalls, MaxTime   \* as in AlertStore

ASSUME MemoryAssumption ==
  /\ None \notin Client \cup Machine
  /\ Cooldown \in Nat
  /\ MaxCalls \in Nat /\ MaxTime \in Nat

VARIABLES
  now,        \* the clock
  mu,         \* the goroutine that holds s.mu, or None
  counts,     \* s.counts; an absent key is 0, as Go reads it
  cooldowns,  \* s.cooldowns; an absent key is 0
  frame,      \* frame[c]: the method call of goroutine c and its locals
  calls       \* calls made: a bound
vars == <<now, mu, counts, cooldowns, frame, calls>>

\* n, until and t are what the method loaded: the count, expireAt and now.
Op == {"IncrementCPUBreach", "GetCPUBreachCount", "ResetCPUBreach", "TryAcquireCooldown"}
NoFrame == [pc |-> "idle", op |-> "none", mach |-> None,
            n |-> 0, until |-> 0, t |-> 0, ret |-> 0]
Frame == [pc : {"lock", "held", "loaded", "stored"}, op : Op, mach : Machine,
          n : Nat, until : Nat, t : Nat, ret : Nat]

TypeOK ==
  /\ now \in 0..MaxTime
  /\ mu \in Client \cup {None}
  /\ counts \in [Machine -> Nat]
  /\ cooldowns \in [Machine -> Nat]
  /\ frame \in [Client -> Frame \cup {NoFrame}]
  /\ calls \in 0..MaxCalls

\* NewMemoryAlertStateStore.
Init ==
  /\ now = 0
  /\ mu = None
  /\ counts = [m \in Machine |-> 0]
  /\ cooldowns = [m \in Machine |-> 0]
  /\ frame = [c \in Client |-> NoFrame]
  /\ calls = 0

Begin(c, op, m) ==
  /\ frame[c] = NoFrame
  /\ calls < MaxCalls
  /\ calls' = calls + 1
  /\ frame' = [frame EXCEPT ![c] = [NoFrame EXCEPT !.pc = "lock", !.op = op, !.mach = m]]
  /\ UNCHANGED <<now, mu, counts, cooldowns>>

\* s.mu.Lock()
LockUnguarded(c) ==                                            \* mutant
  /\ frame[c].pc = "lock"
  /\ mu' = c
  /\ frame' = [frame EXCEPT ![c].pc = "held"]
  /\ UNCHANGED <<now, counts, cooldowns, calls>>
Lock(c) ==
  /\ frame[c].pc = "lock"
  /\ mu = None
  /\ mu' = c
  /\ frame' = [frame EXCEPT ![c].pc = "held"]
  /\ UNCHANGED <<now, counts, cooldowns, calls>>

Load(c) ==
  LET m == frame[c].mach IN
  /\ frame[c].pc = "held"
  /\ frame' = [frame EXCEPT ![c].pc = "loaded", ![c].n = counts[m],
                            ![c].until = cooldowns[m], ![c].t = now]
  /\ UNCHANGED <<now, mu, counts, cooldowns, calls>>

\* exists && now.Before(expireAt) refuses.
Acquired(f) == f.op = "TryAcquireCooldown" /\ ~(f.t < f.until)

CountDown(f) == IF f.op = "IncrementCPUBreach" THEN f.n - 1 ELSE 0   \* mutant
NewCount(f) ==
  CASE f.op = "IncrementCPUBreach" -> f.n + 1
    [] f.op = "ResetCPUBreach" -> 0
    [] OTHER -> f.n

NewUntil(f) == IF Acquired(f) THEN f.t + Cooldown ELSE f.until

Result(f) ==
  CASE f.op \in {"IncrementCPUBreach", "GetCPUBreachCount"} -> NewCount(f)
    [] f.op = "TryAcquireCooldown" -> IF Acquired(f) THEN 1 ELSE 0
    [] OTHER -> 0

Store(c) ==
  LET f == frame[c] IN
  /\ f.pc = "loaded"
  /\ counts' = IF f.op \in {"IncrementCPUBreach", "ResetCPUBreach"}
               THEN [counts EXCEPT ![f.mach] = NewCount(f)] ELSE counts
  /\ cooldowns' = IF Acquired(f) THEN [cooldowns EXCEPT ![f.mach] = NewUntil(f)]
                                 ELSE cooldowns
  /\ frame' = [frame EXCEPT ![c].pc = "stored", ![c].ret = Result(f)]
  /\ UNCHANGED <<now, mu, calls>>

\* The deferred s.mu.Unlock() and the return.
Unlock(c) ==
  /\ frame[c].pc = "stored"
  /\ mu' = None
  /\ frame' = [frame EXCEPT ![c] = NoFrame]
  /\ UNCHANGED <<now, counts, cooldowns, calls>>

Tick ==
  /\ now < MaxTime
  /\ now' = now + 1
  /\ UNCHANGED <<mu, counts, cooldowns, frame, calls>>

\* Every call has returned and the bounds are used up.
Quiesce ==
  /\ now = MaxTime /\ calls = MaxCalls
  /\ \A c \in Client : frame[c] = NoFrame
  /\ UNCHANGED vars

Step(c) == Lock(c) \/ Load(c) \/ Store(c) \/ Unlock(c)

Next ==
  \/ \E c \in Client, op \in Op, m \in Machine : Begin(c, op, m)
  \/ \E c \in Client : Step(c)
  \/ Tick
  \/ Quiesce

Spec == Init /\ [][Next]_vars

-----------------------------------------------------------------------------
(* A call takes effect at its Load, where TryAcquireCooldown reads the clock.  *)
(* Until its Store the maps lag behind; only the holder of mu could see that.  *)

Pending(m) == mu # None /\ frame[mu].pc = "loaded" /\ frame[mu].mach = m

AbstractCall(f) ==
  IF f = NoFrame THEN [op |-> "none", mach |-> None, done |-> FALSE, ret |-> 0]
  ELSE [op |-> f.op, mach |-> f.mach, done |-> f.pc \in {"loaded", "stored"},
        ret |-> IF f.pc = "loaded" THEN Result(f) ELSE f.ret]

Abstract == INSTANCE AlertStore WITH
  counts <- [m \in Machine |-> IF Pending(m) THEN NewCount(frame[mu]) ELSE counts[m]],
  coolUntil <- [m \in Machine |-> IF Pending(m) THEN NewUntil(frame[mu]) ELSE cooldowns[m]],
  call <- [c \in Client |-> AbstractCall(frame[c])]

\* Under the mutex every method is atomic: no increment is lost, and of several
\* goroutines that ask for a cooldown one gets it, although the clock moves
\* between their time.Now() and their write.
ImplementsAlertStore == Abstract!Spec

\* What a method loaded is still what the maps hold until it stores.
LoadedIsCurrent ==
  \A c \in Client :
    /\ frame[c].pc \in {"held", "loaded", "stored"} <=> mu = c
    /\ frame[c].pc = "loaded" => /\ frame[c].n = counts[frame[c].mach]
                                 /\ frame[c].until = cooldowns[frame[c].mach]
                                 /\ frame[c].t <= now
=============================================================================
