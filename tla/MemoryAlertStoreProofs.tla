------------------------ MODULE MemoryAlertStoreProofs ------------------------
(* The in-memory store implements AlertStore, for any number of goroutines and *)
(* machines: its mutex makes every method atomic.                              *)
EXTENDS MemoryAlertStore, TLAPS

Inv == TypeOK /\ LoadedIsCurrent

LEMMA NoFrameFields ==
  /\ NoFrame.pc = "idle" /\ NoFrame \notin Frame
  /\ \A f \in Frame : f.pc # "idle" /\ f.mach \in Machine /\ f.op \in Op
BY DEF NoFrame, Frame

LEMMA InitInv == Init => Inv
<1> SUFFICES ASSUME Init PROVE Inv
  OBVIOUS
<1>1. TypeOK  BY MemoryAssumption DEF Init, TypeOK
<1>2. \A c \in Client : frame[c].pc = "idle" /\ mu # c
  BY NoFrameFields, MemoryAssumption DEF Init
<1>3. QED  BY <1>1, <1>2 DEF Inv, LoadedIsCurrent

LEMMA InvBegin ==
  ASSUME Inv, NEW c \in Client, NEW op \in Op, NEW m \in Machine, Begin(c, op, m)
  PROVE  Inv'
<1> DEFINE f == [NoFrame EXCEPT !.pc = "lock", !.op = op, !.mach = m]
<1>1. f \in Frame /\ f.pc = "lock"
  BY DEF NoFrame, Frame
<1>2. /\ frame' = [frame EXCEPT ![c] = f] /\ frame[c] = NoFrame
      /\ UNCHANGED <<now, mu, counts, cooldowns>>
  BY DEF Begin
<1>3. TypeOK'
  BY <1>1, <1>2, MemoryAssumption DEF Inv, TypeOK, Begin
<1>4. mu # c
  BY <1>2, NoFrameFields DEF Inv, LoadedIsCurrent
<1>5. LoadedIsCurrent'
  BY <1>1, <1>2, <1>4 DEF Inv, TypeOK, LoadedIsCurrent
<1>6. QED  BY <1>3, <1>5 DEF Inv

(* The frame of a running method, and what a step makes of it. *)
LEMMA RunningFrame ==
  ASSUME Inv, NEW c \in Client, frame[c].pc # "idle"
  PROVE  /\ frame[c] \in Frame /\ frame[c].mach \in Machine /\ frame[c].op \in Op
         /\ frame[c].n \in Nat /\ frame[c].until \in Nat /\ frame[c].t \in Nat
         /\ Acquired(frame[c]) \in BOOLEAN
         /\ NewCount(frame[c]) \in Nat /\ NewUntil(frame[c]) \in Nat /\ Result(frame[c]) \in Nat
<1>1. frame[c] \in Frame  BY NoFrameFields DEF Inv, TypeOK
<1>2. /\ frame[c].mach \in Machine /\ frame[c].op \in Op
      /\ frame[c].n \in Nat /\ frame[c].until \in Nat /\ frame[c].t \in Nat
  BY <1>1 DEF Frame
<1>3. QED
  BY <1>1, <1>2, MemoryAssumption DEF Acquired, NewCount, NewUntil, Result, Op

LEMMA InvStep ==
  ASSUME Inv, NEW c \in Client, Step(c)
  PROVE  Inv'
<1>0. frame \in [Client -> Frame \cup {NoFrame}] /\ mu \in Client \cup {None}
  BY DEF Inv, TypeOK
<1>1. frame[c].pc # "idle"
  BY DEF Step, Lock, Load, Store, Unlock
<1>2. frame[c] \in Frame  BY <1>1, RunningFrame
<1>3. CASE Lock(c)
  <2>1. [frame[c] EXCEPT !.pc = "held"] \in Frame  BY <1>2 DEF Frame
  <2>2. TypeOK'
    BY <1>0, <1>3, <2>1 DEF Lock, Inv, TypeOK
  <2>3. frame'[c].pc = "held" /\ \A d \in Client : d # c => frame'[d] = frame[d]
    BY <1>0, <1>2, <1>3 DEF Lock, Frame
  <2>4. \A d \in Client : frame[d].pc \notin {"held", "loaded", "stored"}
    BY <1>3, MemoryAssumption DEF Lock, Inv, LoadedIsCurrent
  <2>5. LoadedIsCurrent'
    BY <1>3, <2>3, <2>4 DEF Lock, LoadedIsCurrent
  <2>6. QED  BY <2>2, <2>5 DEF Inv
<1>4. CASE Load(c)
  <2> DEFINE f == [frame[c] EXCEPT !.pc = "loaded", !.n = counts[frame[c].mach],
                                   !.until = cooldowns[frame[c].mach], !.t = now]
  <2>1. f \in Frame /\ f.pc = "loaded" /\ f.mach = frame[c].mach
        /\ f.n = counts[frame[c].mach] /\ f.until = cooldowns[frame[c].mach] /\ f.t = now
    <3>1. frame[c].mach \in Machine  BY <1>1, RunningFrame
    <3>2. counts[frame[c].mach] \in Nat /\ cooldowns[frame[c].mach] \in Nat /\ now \in Nat
      BY <3>1, MemoryAssumption DEF Inv, TypeOK
    <3>3. QED  BY <1>2, <3>2 DEF Frame
  <2>2. frame' = [frame EXCEPT ![c] = f] /\ UNCHANGED <<now, mu, counts, cooldowns, calls>>
    BY <1>4 DEF Load
  <2>3. TypeOK'
    BY <1>0, <2>1, <2>2 DEF Inv, TypeOK
  <2>4. mu = c /\ now \in Int
    BY <1>4 DEF Load, Inv, LoadedIsCurrent, TypeOK
  <2> HIDE DEF f
  <2>5. frame'[c] = f /\ \A d \in Client : d # c => frame'[d] = frame[d]
    BY <1>0, <2>2
  <2>6. LoadedIsCurrent'
    BY <2>1, <2>2, <2>4, <2>5 DEF Inv, LoadedIsCurrent
  <2>7. QED  BY <2>3, <2>6 DEF Inv
<1>5. CASE Store(c)
  <2> DEFINE f == [frame[c] EXCEPT !.pc = "stored", !.ret = Result(frame[c])]
  <2>1. f \in Frame /\ f.pc = "stored"
    BY <1>1, <1>2, RunningFrame DEF Frame
  <2>2. frame' = [frame EXCEPT ![c] = f] /\ UNCHANGED <<now, mu, calls>>
    BY <1>5 DEF Store
  <2>3. counts' \in [Machine -> Nat] /\ cooldowns' \in [Machine -> Nat]
    BY <1>1, <1>5, RunningFrame DEF Store, Inv, TypeOK
  <2>4. TypeOK'
    BY <1>0, <2>1, <2>2, <2>3 DEF Inv, TypeOK
  <2>5. mu = c /\ \A d \in Client : d # c => frame[d].pc # "loaded"
    BY <1>5 DEF Store, Inv, LoadedIsCurrent
  <2> HIDE DEF f
  <2>6. frame'[c] = f /\ \A d \in Client : d # c => frame'[d] = frame[d]
    BY <1>0, <2>2
  <2>7. LoadedIsCurrent'
    BY <2>1, <2>2, <2>5, <2>6 DEF Inv, LoadedIsCurrent
  <2>8. QED  BY <2>4, <2>7 DEF Inv
<1>6. CASE Unlock(c)
  <2>1. TypeOK'
    BY <1>0, <1>6 DEF Unlock, Inv, TypeOK
  <2>2. mu = c /\ mu' = None /\ UNCHANGED <<now, counts, cooldowns>>
    BY <1>6 DEF Unlock, Inv, LoadedIsCurrent
  <2>3. frame'[c].pc = "idle" /\ \A d \in Client : d # c => frame'[d] = frame[d]
    BY <1>0, <1>6, NoFrameFields DEF Unlock
  <2>4. LoadedIsCurrent'
    BY <2>2, <2>3, MemoryAssumption DEF Inv, LoadedIsCurrent
  <2>5. QED  BY <2>1, <2>4 DEF Inv
<1>7. QED  BY <1>3, <1>4, <1>5, <1>6 DEF Step

LEMMA InvNext == Inv /\ [Next]_vars => Inv'
<1> SUFFICES ASSUME Inv, [Next]_vars PROVE Inv'
  OBVIOUS
<1>1. CASE Tick
  <2>1. now \in Nat /\ now' = now + 1 /\ UNCHANGED <<mu, counts, cooldowns, frame, calls>>
    BY <1>1, MemoryAssumption DEF Tick, Inv, TypeOK
  <2>2. TypeOK'
    BY <1>1, <2>1, MemoryAssumption DEF Tick, Inv, TypeOK
  <2>3. \A c \in Client : frame[c].pc = "loaded" => frame[c].t \in Nat /\ frame[c].t <= now
    BY RunningFrame DEF Inv, LoadedIsCurrent
  <2>4. LoadedIsCurrent'
    BY <2>1, <2>3 DEF Inv, LoadedIsCurrent
  <2>5. QED  BY <2>2, <2>4 DEF Inv
<1>2. CASE UNCHANGED vars
  BY <1>2 DEF vars, Inv, TypeOK, LoadedIsCurrent
<1>3. QED  BY <1>1, <1>2, InvBegin, InvStep DEF Next, Quiesce

(* The mutex works: at most one goroutine is inside a method, and what it
   loaded cannot change before it stores. *)
THEOREM MutexProtectsMaps == Spec => [](TypeOK /\ LoadedIsCurrent)
<1>1. Spec => []Inv  BY InitInv, InvNext, PTL DEF Spec
<1>2. QED  BY <1>1, PTL DEF Inv

(* What the goroutines hold is well formed: a method that stores has loaded, with
   the mutex (alert_store.go 93-126). *)
THEOREM TypeCorrect == Spec => []TypeOK
BY MutexProtectsMaps, PTL

-----------------------------------------------------------------------------
(* Refinement.  AbsCount and AbsUntil are the maps of the refinement mapping.  *)

AbsCount == [m \in Machine |-> IF Pending(m) THEN NewCount(frame[mu]) ELSE counts[m]]
AbsUntil == [m \in Machine |-> IF Pending(m) THEN NewUntil(frame[mu]) ELSE cooldowns[m]]
AbsCall == [c \in Client |-> AbstractCall(frame[c])]

(* While no method is between its Load and its Store, the maps are the abstract
   ones. *)
LEMMA NothingPending ==
  ASSUME Inv, \A c \in Client : mu = c => frame[c].pc # "loaded"
  PROVE  AbsCount = counts /\ AbsUntil = cooldowns
<1>1. \A m \in Machine : ~Pending(m)
  BY DEF Pending, Inv, TypeOK
<1>2. QED  BY <1>1 DEF AbsCount, AbsUntil, Inv, TypeOK

LEMMA NothingPendingNext ==
  ASSUME Inv', \A c \in Client : mu' = c => frame'[c].pc # "loaded"
  PROVE  AbsCount' = counts' /\ AbsUntil' = cooldowns'
<1>1. \A m \in Machine : ~Pending(m)'
  BY DEF Pending, Inv, TypeOK
<1>2. QED  BY <1>1 DEF AbsCount, AbsUntil, Inv, TypeOK

(* The method c is between its Load and its Store: the maps are behind at its
   machine only. *)
LEMMA OnePending ==
  ASSUME Inv, NEW c \in Client, frame[c].pc = "loaded"
  PROVE  /\ AbsCount = [counts EXCEPT ![frame[c].mach] = NewCount(frame[c])]
         /\ AbsUntil = [cooldowns EXCEPT ![frame[c].mach] = NewUntil(frame[c])]
<1>1. mu = c  BY DEF Inv, LoadedIsCurrent
<1>2. \A m \in Machine : Pending(m) <=> frame[c].mach = m
  BY <1>1, MemoryAssumption DEF Pending
<1>3. QED  BY <1>1, <1>2, RunningFrame DEF AbsCount, AbsUntil, Inv, TypeOK

LEMMA OnePendingNext ==
  ASSUME Inv', NEW c \in Client, frame'[c].pc = "loaded"
  PROVE  /\ AbsCount' = [counts' EXCEPT ![frame'[c].mach] = NewCount(frame'[c])]
         /\ AbsUntil' = [cooldowns' EXCEPT ![frame'[c].mach] = NewUntil(frame'[c])]
<1>1. mu' = c  BY DEF Inv, LoadedIsCurrent
<1>2. \A m \in Machine : Pending(m)' <=> frame'[c].mach = m
  BY <1>1, MemoryAssumption DEF Pending
<1>3. QED  BY <1>1, <1>2 DEF AbsCount, AbsUntil, Inv, TypeOK

(* The abstract call changes only where the frame does. *)
LEMMA AbsCallUpdate ==
  ASSUME Inv, NEW c \in Client, NEW f, frame' = [frame EXCEPT ![c] = f]
  PROVE  AbsCall' = [AbsCall EXCEPT ![c] = AbstractCall(f)]
<1>1. frame'[c] = f /\ \A d \in Client : d # c => frame'[d] = frame[d]
  BY DEF Inv, TypeOK
<1>2. \A d \in Client :
        AbsCall'[d] = [AbsCall EXCEPT ![c] = AbstractCall(f)][d]
  BY <1>1 DEF AbsCall, AbstractCall, Result, NewCount, Acquired
<1>3. QED  BY <1>2 DEF AbsCall

LEMMA AbstractVars == Abstract!vars = <<now, AbsCount, AbsUntil, AbsCall, calls>>
BY DEF Abstract!vars, AbsCount, AbsUntil, AbsCall

LEMMA InitRefines == Init => Abstract!Init
<1> SUFFICES ASSUME Init PROVE Abstract!Init
  OBVIOUS
<1>1. Inv  BY InitInv
<1>2. AbsCount = counts /\ AbsUntil = cooldowns
  BY <1>1, NoFrameFields, NothingPending DEF Init
<1>3. AbsCall = [c \in Client |-> Abstract!NoCall]
  BY DEF Init, AbsCall, AbstractCall, Abstract!NoCall
<1>4. /\ now = 0 /\ calls = 0
      /\ AbsCount = [m \in Machine |-> 0] /\ AbsUntil = [m \in Machine |-> 0]
  BY <1>2 DEF Init
<1>5. QED  BY <1>3, <1>4 DEF Abstract!Init, AbsCount, AbsUntil, AbsCall

LEMMA BeginRefines ==
  ASSUME Inv, Inv', NEW c \in Client, NEW op \in Op, NEW m \in Machine, Begin(c, op, m)
  PROVE  Abstract!Begin(c, op, m)
<1> DEFINE f == [NoFrame EXCEPT !.pc = "lock", !.op = op, !.mach = m]
           a == [op |-> op, mach |-> m, done |-> FALSE, ret |-> 0]
<1>1. /\ frame[c] = NoFrame /\ frame' = [frame EXCEPT ![c] = f]
      /\ UNCHANGED <<now, mu, counts, cooldowns>> /\ calls < MaxCalls /\ calls' = calls + 1
  BY DEF Begin
<1>2. AbstractCall(f) = a /\ AbsCall[c] = Abstract!NoCall
  <2>1. f.pc = "lock" /\ f.op = op /\ f.mach = m /\ f.ret = 0 /\ f # NoFrame
    BY DEF NoFrame
  <2> HIDE DEF f
  <2>2. (f.pc \in {"loaded", "stored"}) = FALSE
    BY <2>1
  <2>3. AbstractCall(f) = a
    BY <2>1, <2>2, Zenon DEF AbstractCall
  <2>4. QED  BY <1>1, <2>3 DEF AbstractCall, AbsCall, Abstract!NoCall
<1>3. AbsCall' = [AbsCall EXCEPT ![c] = a]
  BY <1>1, <1>2, AbsCallUpdate
<1>4. UNCHANGED <<AbsCount, AbsUntil>>
  <2>1. /\ mu # c
        /\ \A d \in Client \ {c} : frame'[d] = frame[d]
    BY <1>1, NoFrameFields DEF Inv, LoadedIsCurrent, TypeOK
  <2>2. \A x \in Machine : /\ Pending(x)' <=> Pending(x)
                           /\ Pending(x) => frame'[mu'] = frame[mu]
    BY <1>1, <2>1 DEF Pending, Inv, TypeOK
  <2>3. \A x \in Machine : Pending(x) => /\ NewCount(frame[mu])' = NewCount(frame[mu])
                                         /\ NewUntil(frame[mu])' = NewUntil(frame[mu])
    BY <2>2 DEF NewCount, NewUntil, Acquired
  <2>4. QED  BY <1>1, <2>2, <2>3 DEF AbsCount, AbsUntil
<1>5. QED
  BY <1>1, <1>2, <1>3, <1>4 DEF Abstract!Begin, AbsCall, AbsCount, AbsUntil

LEMMA LockRefines ==
  ASSUME Inv, Inv', NEW c \in Client, Lock(c)
  PROVE  UNCHANGED Abstract!vars
<1> DEFINE f == [frame[c] EXCEPT !.pc = "held"]
<1>1. /\ mu = None /\ mu' = c /\ frame[c].pc = "lock" /\ frame' = [frame EXCEPT ![c] = f]
      /\ UNCHANGED <<now, counts, cooldowns, calls>>
  BY DEF Lock
<1>2. frame[c] \in Frame /\ f \in Frame /\ f.pc = "held"
  BY <1>1, RunningFrame DEF Frame
<1>3. AbsCount = counts /\ AbsUntil = cooldowns
  BY <1>1, MemoryAssumption, NothingPending
<1>4. frame'[c].pc = "held"
  BY <1>1, <1>2 DEF Inv, TypeOK
<1>5. AbsCount' = counts' /\ AbsUntil' = cooldowns'
  BY <1>1, <1>4, NothingPendingNext
<1>6. AbstractCall(f) = AbstractCall(frame[c])
  BY <1>1, <1>2, NoFrameFields DEF AbstractCall, Frame
<1>7. AbsCall' = AbsCall
  BY <1>1, <1>6, AbsCallUpdate DEF AbsCall
<1>8. QED  BY <1>1, <1>3, <1>5, <1>7, AbstractVars DEF AbsCount, AbsUntil, AbsCall, Abstract!vars

LEMMA UnlockRefines ==
  ASSUME Inv, Inv', NEW c \in Client, Unlock(c)
  PROVE  Abstract!End(c)
<1>1. /\ frame[c].pc = "stored" /\ mu' = None /\ frame' = [frame EXCEPT ![c] = NoFrame]
      /\ UNCHANGED <<now, counts, cooldowns, calls>>
  BY DEF Unlock
<1>2. mu = c /\ frame[c] \in Frame
  BY <1>1, RunningFrame DEF Inv, LoadedIsCurrent
<1>3. AbsCount = counts /\ AbsUntil = cooldowns
  BY <1>1, <1>2, NothingPending
<1>4. AbsCount' = counts' /\ AbsUntil' = cooldowns'
  BY <1>1, MemoryAssumption, NothingPendingNext
<1>5. AbsCall[c].done
  BY <1>1, <1>2, NoFrameFields DEF AbsCall, AbstractCall
<1>6. AbsCall' = [AbsCall EXCEPT ![c] = Abstract!NoCall]
  BY <1>1, AbsCallUpdate DEF AbstractCall, Abstract!NoCall
<1>7. QED
  BY <1>1, <1>3, <1>4, <1>5, <1>6 DEF Abstract!End, AbsCall, AbsCount, AbsUntil

(* Load is where the call takes effect. *)
LEMMA LoadRefines ==
  ASSUME Inv, Inv', NEW c \in Client, Load(c)
  PROVE  Abstract!Perform(c)
<1> DEFINE m == frame[c].mach
           op == frame[c].op
           g == frame'[c]
<1>1. /\ frame[c].pc = "held" /\ UNCHANGED <<now, mu, counts, cooldowns, calls>>
      /\ frame' = [frame EXCEPT ![c].pc = "loaded", ![c].n = counts[m],
                                ![c].until = cooldowns[m], ![c].t = now]
  BY DEF Load
<1>2. frame[c] \in Frame /\ m \in Machine /\ op \in Op /\ mu = c
  BY <1>1, RunningFrame DEF Inv, LoadedIsCurrent
<1>3. /\ g.pc = "loaded" /\ g.op = op /\ g.mach = m
      /\ g.n = counts[m] /\ g.until = cooldowns[m] /\ g.t = now
      /\ g.pc # "idle"
  BY <1>1, <1>2 DEF Inv, TypeOK, Frame
<1>4. frame' = [frame EXCEPT ![c] = g]
  BY <1>1 DEF Inv, TypeOK
<1>5. AbsCount = counts /\ AbsUntil = cooldowns
  BY <1>1, <1>2, NothingPending
<1>6. /\ AbsCount' = [counts EXCEPT ![m] = NewCount(g)]
      /\ AbsUntil' = [cooldowns EXCEPT ![m] = NewUntil(g)]
  BY <1>1, <1>3, OnePendingNext, ZenonT(60) DEF NewCount, NewUntil, Acquired
<1>7. now \in Nat /\ counts[m] \in Nat /\ cooldowns[m] \in Nat
  BY <1>2, MemoryAssumption DEF Inv, TypeOK
<1> HIDE DEF g, m, op
<1>8. /\ NewCount(g) = Abstract!CountAfter(op, counts[m])
      /\ NewUntil(g) = Abstract!UntilAfter(op, cooldowns[m], now)
      /\ Result(g) = Abstract!Reply(op, counts[m], cooldowns[m], now)
  BY <1>2, <1>3, <1>7
  DEF NewCount, NewUntil, Result, Acquired, Op, Abstract!CountAfter, Abstract!UntilAfter,
      Abstract!Wins, Abstract!Reply
<1>9. /\ AbsCall[c] # Abstract!NoCall /\ ~AbsCall[c].done
      /\ AbsCall[c].op = op /\ AbsCall[c].mach = m
      /\ AbsCall[c] = [op |-> op, mach |-> m, done |-> FALSE, ret |-> frame[c].ret]
  <2>1. (frame[c].pc \in {"loaded", "stored"}) = FALSE /\ frame[c].pc # "loaded"
    BY <1>1
  <2>2. frame[c] # NoFrame
    BY <1>2, NoFrameFields
  <2>3. AbsCall[c] = [op |-> op, mach |-> m, done |-> FALSE, ret |-> frame[c].ret]
    BY <2>1, <2>2, Zenon DEF AbsCall, AbstractCall, op, m
  <2>4. op # "none"
    BY <1>2 DEF Op
  <2>5. QED  BY <2>3, <2>4 DEF Abstract!NoCall
<1>10. AbstractCall(g) = [op |-> op, mach |-> m, done |-> TRUE, ret |-> Result(g)]
  <2>1. (g.pc \in {"loaded", "stored"}) = TRUE /\ g.pc = "loaded"
    BY <1>3
  <2>2. g # NoFrame
    BY <1>3, NoFrameFields
  <2>3. QED  BY <1>3, <2>1, <2>2, Zenon DEF AbstractCall
<1>11. AbsCall' = [AbsCall EXCEPT ![c] = [op |-> op, mach |-> m, done |-> TRUE,
                                           ret |-> Abstract!Reply(op, counts[m], cooldowns[m], now)]]
  BY <1>4, <1>8, <1>10, AbsCallUpdate
<1>12. /\ AbsCount' = [AbsCount EXCEPT ![m] = Abstract!CountAfter(op, @)]
       /\ AbsUntil' = [AbsUntil EXCEPT ![m] = Abstract!UntilAfter(op, @, now)]
  BY <1>5, <1>6, <1>8
<1>13. UNCHANGED <<now, calls>>  BY <1>1
<1>14. AbsCount[m] = counts[m] /\ AbsUntil[m] = cooldowns[m]  BY <1>5
<1>15. QED
  BY <1>9, <1>11, <1>12, <1>13, <1>14, ZenonT(60)
  DEF Abstract!Perform, AbsCall, AbsCount, AbsUntil

(* Store writes to the maps what they already are in the abstraction. *)
LEMMA StoreRefines ==
  ASSUME Inv, Inv', NEW c \in Client, Store(c)
  PROVE  UNCHANGED Abstract!vars
<1> DEFINE f == frame[c]
           g == frame'[c]
<1>1. /\ f.pc = "loaded" /\ UNCHANGED <<now, mu, calls>>
      /\ frame' = [frame EXCEPT ![c].pc = "stored", ![c].ret = Result(f)]
      /\ counts' = IF f.op \in {"IncrementCPUBreach", "ResetCPUBreach"}
                   THEN [counts EXCEPT ![f.mach] = NewCount(f)] ELSE counts
      /\ cooldowns' = IF Acquired(f) THEN [cooldowns EXCEPT ![f.mach] = NewUntil(f)]
                                     ELSE cooldowns
  BY DEF Store
<1>2. /\ f \in Frame /\ f.mach \in Machine /\ f.op \in Op /\ mu = c
      /\ f.n = counts[f.mach] /\ f.until = cooldowns[f.mach]
  BY <1>1, RunningFrame DEF Inv, LoadedIsCurrent
<1>3. /\ g.pc = "stored" /\ g.op = f.op /\ g.mach = f.mach /\ g.ret = Result(f)
  BY <1>1, <1>2 DEF Inv, TypeOK, Frame
<1>4. frame' = [frame EXCEPT ![c] = g]
  BY <1>1 DEF Inv, TypeOK
<1>5. /\ AbsCount = [counts EXCEPT ![f.mach] = NewCount(f)]
      /\ AbsUntil = [cooldowns EXCEPT ![f.mach] = NewUntil(f)]
  BY <1>1, OnePending
<1>6. AbsCount' = counts' /\ AbsUntil' = cooldowns'
  BY <1>1, <1>2, <1>3, NothingPendingNext
<1>7. f.op \notin {"IncrementCPUBreach", "ResetCPUBreach"} => NewCount(f) = counts[f.mach]
  BY <1>2 DEF NewCount
<1>8. ~Acquired(f) => NewUntil(f) = cooldowns[f.mach]
  BY <1>2 DEF NewUntil
<1>9. counts' = AbsCount
  <2>1. CASE f.op \in {"IncrementCPUBreach", "ResetCPUBreach"}  BY <1>1, <1>5, <2>1
  <2>2. CASE f.op \notin {"IncrementCPUBreach", "ResetCPUBreach"}
    BY <1>1, <1>2, <1>5, <1>7, <2>2 DEF Inv, TypeOK
  <2>3. QED  BY <2>1, <2>2
<1>10. cooldowns' = AbsUntil
  <2>1. CASE Acquired(f)  BY <1>1, <1>5, <2>1
  <2>2. CASE ~Acquired(f)
    BY <1>1, <1>2, <1>5, <1>8, <2>2 DEF Inv, TypeOK
  <2>3. QED  BY <2>1, <2>2
<1>11. AbstractCall(g) = AbstractCall(f)
  <2>1. f # NoFrame /\ g # NoFrame
    BY <1>2, <1>3, NoFrameFields
  <2>2. (f.pc \in {"loaded", "stored"}) = TRUE /\ (g.pc \in {"loaded", "stored"}) = TRUE
    BY <1>1, <1>3
  <2>3. f.pc = "loaded" /\ g.pc # "loaded"
    BY <1>1, <1>3
  <2> HIDE DEF f, g
  <2>4. QED  BY <1>3, <2>1, <2>2, <2>3, Zenon DEF AbstractCall
<1>12. AbsCall' = AbsCall
  <2>1. AbsCall' = [AbsCall EXCEPT ![c] = AbstractCall(g)]
    BY <1>4, AbsCallUpdate
  <2>2. AbsCall[c] = AbstractCall(f)
    BY DEF AbsCall
  <2>3. QED  BY <1>11, <2>1, <2>2 DEF AbsCall
<1>13. QED
  BY <1>1, <1>6, <1>9, <1>10, <1>12 DEF AbsCount, AbsUntil, AbsCall, Abstract!vars

LEMMA TickRefines ==
  ASSUME Inv, Inv', Tick
  PROVE  Abstract!Tick
<1>1. now < MaxTime /\ now' = now + 1 /\ UNCHANGED <<mu, counts, cooldowns, frame, calls>>
  BY DEF Tick
<1>2. UNCHANGED <<AbsCount, AbsUntil, AbsCall>>
  BY <1>1
  DEF AbsCount, AbsUntil, AbsCall, Pending, NewCount, NewUntil, Acquired, AbstractCall, Result
<1>3. QED  BY <1>1, <1>2 DEF Abstract!Tick, AbsCount, AbsUntil, AbsCall

LEMMA StepRefines == Inv /\ Inv' /\ [Next]_vars => [Abstract!Next]_Abstract!vars
<1> SUFFICES ASSUME Inv, Inv', [Next]_vars PROVE [Abstract!Next]_Abstract!vars
  OBVIOUS
<1>1. ASSUME NEW c \in Client, NEW op \in Op, NEW m \in Machine, Begin(c, op, m)
      PROVE  Abstract!Next
  BY <1>1, BeginRefines DEF Abstract!Next, Op, Abstract!Op
<1>2. ASSUME NEW c \in Client, Step(c)
      PROVE  [Abstract!Next]_Abstract!vars
  BY <1>2, LockRefines, LoadRefines, StoreRefines, UnlockRefines DEF Step, Abstract!Next
<1>3. CASE Tick
  BY <1>3, TickRefines DEF Abstract!Next
<1>4. CASE UNCHANGED vars
  <2>1. UNCHANGED <<AbsCount, AbsUntil, AbsCall>>
    BY <1>4
    DEF vars, AbsCount, AbsUntil, AbsCall, Pending, NewCount, NewUntil, Acquired, AbstractCall, Result
  <2>2. QED  BY <1>4, <2>1 DEF vars, AbsCount, AbsUntil, AbsCall, Abstract!vars
<1>5. QED  BY <1>1, <1>2, <1>3, <1>4 DEF Next, Quiesce

(* The in-memory store is an AlertStore: to its callers every method happens at
   one instant. *)
THEOREM MemoryStoreIsAlertStore == Spec => ImplementsAlertStore
<1>1. Spec => []Inv
  BY InitInv, InvNext, PTL DEF Spec
<1>2. []Inv /\ [][Next]_vars => [][Abstract!Next]_Abstract!vars
  BY StepRefines, PTL
<1>3. QED
  BY <1>1, <1>2, InitRefines, PTL DEF Spec, ImplementsAlertStore, Abstract!Spec
=============================================================================
