------------------------ MODULE CapacityPoolProofs ------------------------
(***************************************************************************)
(* The capacity pool is safe for every set of callers, every ownership and *)
(* every limit.  The five invariants are proved together: that a release   *)
(* hands over at most one slot needs the queue to be empty or the pool     *)
(* full, which needs that no slot leaks.                                   *)
(***************************************************************************)
EXTENDS CapacityPool, FiniteSetTheorems, SequenceTheorems, TLAPS

\* close answers everybody, and nobody queues afterwards.
ClosedIsEmpty == closed => waiters = <<>>

Inv == /\ TypeOK
       /\ WithinLimit
       /\ NoLeakedSlot
       /\ NoForgottenWaiter
       /\ OneClaimPerOwner
       /\ WorkConserving
       /\ ClosedIsEmpty

\* Cardinalities of the sets of slots that the steps build.
LEMMA SlotCounts ==
    ASSUME TypeOK, NEW c \in Callers
    PROVE  /\ IsFiniteSet(active) /\ Cardinality(active) \in Nat
           /\ Cardinality(active \cup {c}) =
                IF c \in active THEN Cardinality(active) ELSE Cardinality(active) + 1
           /\ Cardinality(active \ {c}) =
                IF c \in active THEN Cardinality(active) - 1 ELSE Cardinality(active)
           /\ c \in active => Cardinality(active) >= 1
  <1>1. IsFiniteSet(active)
    BY CallerAssumption, FS_Subset DEF TypeOK
  <1>2. Cardinality(active) \in Nat
    BY <1>1, FS_CardinalityType
  <1>3. Cardinality(active \cup {c}) =
          IF c \in active THEN Cardinality(active) ELSE Cardinality(active) + 1
    BY <1>1, FS_AddElement
  <1>4. Cardinality(active \ {c}) =
          IF c \in active THEN Cardinality(active) - 1 ELSE Cardinality(active)
    BY <1>1, FS_RemoveElement
  <1>5. c \in active => Cardinality(active) >= 1
    BY <1>1, <1>2, FS_EmptySet
  <1> QED BY <1>1, <1>2, <1>3, <1>4, <1>5

\* The queue as a function on 1..Len(waiters).
LEMMA QueueFacts ==
    ASSUME TypeOK
    PROVE  /\ Len(waiters) \in Nat
           /\ DOMAIN waiters = 1..Len(waiters)
           /\ \A i \in 1..Len(waiters) : waiters[i] \in Callers
           /\ waiters = <<>> <=> Len(waiters) = 0
           /\ Queued \subseteq Callers
  BY LenProperties, EmptySeq DEF TypeOK, Queued

\* Init.
LEMMA InitInv == Init => Inv
  <1> SUFFICES ASSUME Init PROVE Inv
    OBVIOUS
  <1>1. TypeOK
    BY EmptySeq DEF Init, TypeOK, FutureStates, PcStates
  <1>2. Cardinality(active) = 0 /\ Queued = {}
    BY FS_EmptySet DEF Init, Queued
  <1> QED
    BY <1>1, <1>2, LimitAssumption
       DEF Init, Inv, WithinLimit, NoLeakedSlot, NoForgottenWaiter, OneClaimPerOwner,
           WorkConserving, ClosedIsEmpty

\* A slot taken at once, by try_acquire or try_reserve.
LEMMA TakeSlot ==
    ASSUME Inv, NEW c \in Callers, NEW to \in {"holding", "reserved"},
           Enter(c), FreeSlot,
           active' = active \cup {c}, pc' = [pc EXCEPT ![c] = to],
           UNCHANGED <<waiters, future, closed>>
    PROVE  Inv'
  <1>1. TypeOK'
    BY DEF Inv, TypeOK, PcStates
  <1>2. c \notin active
    BY DEF Enter, Unique
  <1>3. WithinLimit'
    BY <1>2, SlotCounts, LimitAssumption DEF Inv, FreeSlot, WithinLimit
  <1>4. NoLeakedSlot'
    BY DEF Inv, TypeOK, NoLeakedSlot, Enter
  <1>5. Queued' = Queued /\ NoForgottenWaiter'
    BY DEF Inv, TypeOK, NoForgottenWaiter, Queued, Enter
  <1>6. OneClaimPerOwner'
    BY <1>5 DEF Inv, OneClaimPerOwner, Enter, Unique
  <1>7. WorkConserving' /\ ClosedIsEmpty'
    BY DEF Inv, WorkConserving, ClosedIsEmpty, FreeSlot
  <1> QED BY <1>1, <1>3, <1>4, <1>5, <1>6, <1>7 DEF Inv

\* A caller that finds no slot joins the queue.
LEMMA JoinQueue ==
    ASSUME Inv, NEW c \in Callers, AcquireWait(c)
    PROVE  Inv'
  <1>1. /\ TypeOK'
        /\ Len(waiters') = Len(waiters) + 1
        /\ \A i \in 1..Len(waiters) : waiters'[i] = waiters[i]
        /\ waiters'[Len(waiters) + 1] = c
    BY AppendProperties DEF Inv, TypeOK, AcquireWait, FutureStates, PcStates
  <1>2. DOMAIN waiters = 1..Len(waiters) /\ Len(waiters) \in Nat
    BY QueueFacts DEF Inv
  <1>3. DOMAIN waiters' = 1..Len(waiters') /\ waiters' # <<>>
    BY <1>1, LenProperties, EmptySeq DEF TypeOK
  <1>4. Queued' = Queued \cup {c}
    <2>1. \A i \in 1..Len(waiters') : waiters'[i] \in Queued \cup {c}
      BY <1>1, <1>2 DEF Queued
    <2>2. \A i \in 1..Len(waiters) : waiters[i] \in Queued'
      BY <1>1, <1>2, <1>3 DEF Queued
    <2>3. c \in Queued'
      BY <1>1, <1>2, <1>3 DEF Queued
    <2> QED BY <1>2, <1>3, <2>1, <2>2, <2>3 DEF Queued
  <1>5. c \notin active /\ c \notin Queued
    BY DEF AcquireWait, Enter, Unique
  <1>6. WithinLimit' /\ ClosedIsEmpty'
    BY DEF Inv, WithinLimit, ClosedIsEmpty, AcquireWait, Enter
  <1>7. NoLeakedSlot'
    BY DEF Inv, TypeOK, NoLeakedSlot, AcquireWait, Enter
  <1>8. NoForgottenWaiter'
    <2>1. Queued' = {d \in Callers : pc'[d] = "waiting" /\ future'[d] = "pending"}
      BY <1>4 DEF Inv, TypeOK, NoForgottenWaiter, AcquireWait, Enter
    <2>2. ASSUME NEW i \in 1..Len(waiters'), NEW j \in 1..Len(waiters'), i # j
          PROVE  waiters'[i] # waiters'[j]
      <3>1. \A k \in 1..Len(waiters) : waiters[k] # c
        BY <1>2, <1>5 DEF Queued
      <3> QED BY <1>1, <1>2, <2>2, <3>1 DEF Inv, NoForgottenWaiter
    <2> QED BY <1>3, <2>1, <2>2 DEF NoForgottenWaiter
  <1>9. OneClaimPerOwner'
    BY <1>4 DEF Inv, OneClaimPerOwner, AcquireWait, Enter, Unique
  <1>10. WorkConserving'
    <2>1. Cardinality(active) \in Nat /\ Cardinality(active) <= Limit /\ Limit \in Nat
      BY SlotCounts, LimitAssumption DEF Inv, WithinLimit
    <2>2. ~(Cardinality(active) < Limit) \/ waiters # <<>>
      BY DEF AcquireWait, FreeSlot
    <2>3. Cardinality(active) = Limit
      BY <2>1, <2>2 DEF Inv, WorkConserving
    <2> QED BY <2>3 DEF AcquireWait, WorkConserving
  <1> QED BY <1>1, <1>6, <1>7, <1>8, <1>9, <1>10 DEF Inv

\* What a release does to the queue: with slots to share out, the head of the queue
\* takes the freed one and the others move up; otherwise nobody moves.
LEMMA ReleaseEffect ==
    ASSUME Inv, NEW c \in Callers, ReleaseSlot(c)
    PROVE  LET h == waiters[1]
           IN  \/ /\ waiters' = waiters
                  /\ active' = active \ {c}
                  /\ future' = [future EXCEPT ![c] = "none"]
                  /\ waiters # <<>> => c \notin active
               \/ /\ c \in active /\ Len(waiters) >= 1
                  /\ active' = (active \ {c}) \cup {h}
                  /\ future' = [d \in Callers |-> IF d = h THEN "granted"
                                                 ELSE IF d = c THEN "none" ELSE future[d]]
                  /\ Len(waiters') = Len(waiters) - 1
                  /\ waiters' \in Seq(Callers)
                  /\ \A i \in 1..(Len(waiters) - 1) : waiters'[i] = waiters[i + 1]
  <1> DEFINE kept == active \ {c}
  <1>a. Limit \in Nat /\ Limit >= 1
    BY LimitAssumption
  <1>1. Cardinality(active) \in Nat /\ Cardinality(active) <= Limit
    BY SlotCounts DEF Inv, WithinLimit
  <1>2. /\ Len(waiters) \in Nat /\ (waiters = <<>> <=> Len(waiters) = 0)
        /\ \A i \in 1..Len(waiters) : waiters[i] \in Callers
    BY QueueFacts DEF Inv
  <1>3. CASE c \notin active \/ closed
    <2>1. waiters' = waiters /\ active' = active \ {c}
      BY <1>3 DEF ReleaseSlot
    <2>2. future' = [future EXCEPT ![c] = "none"]
      BY <1>3 DEF ReleaseSlot, Inv, TypeOK
    <2>3. waiters # <<>> => c \notin active
      BY <1>3 DEF Inv, ClosedIsEmpty
    <2> QED BY <2>1, <2>2, <2>3
  <1>4. CASE c \in active /\ ~closed /\ waiters = <<>>
    <2>1. Cardinality(kept) = Cardinality(active) - 1
      BY <1>4, SlotCounts DEF Inv
    <2>2. GrantCount(kept) = 0
      BY <1>a, <1>1, <1>2, <1>4, <2>1 DEF GrantCount
    <2>3. GrantedNow(kept) = {}
      BY <2>2 DEF GrantedNow
    <2>4. SubSeq(waiters, 1, 0) = <<>>
      BY SubSeqEmpty, <1>4 DEF Inv, TypeOK
    <2>5. waiters' = SubSeq(waiters, GrantCount(kept) + 1, Len(waiters))
      BY <1>4 DEF ReleaseSlot
    <2>6. waiters' = waiters
      BY <1>2, <1>4, <2>2, <2>4, <2>5
    <2>7. active' = active \ {c} /\ future' = [future EXCEPT ![c] = "none"]
      BY <1>4, <2>3 DEF ReleaseSlot, Inv, TypeOK
    <2> QED BY <1>4, <2>6, <2>7
  <1>5. CASE c \in active /\ ~closed /\ waiters # <<>>
    <2>1. Cardinality(kept) = Limit - 1
      BY <1>5, SlotCounts DEF Inv, WorkConserving
    <2>2. GrantCount(kept) = 1
      <3>1. Limit - Cardinality(kept) = 1
        BY <1>a, <2>1
      <3>2. Len(waiters) >= 1
        BY <1>2, <1>5
      <3>3. GrantCount(kept) = IF Len(waiters) <= Limit - Cardinality(kept)
                               THEN Len(waiters) ELSE Limit - Cardinality(kept)
        BY DEF GrantCount
      <3>4. GrantCount(kept) = IF Len(waiters) <= 1 THEN Len(waiters) ELSE 1
        BY <3>1, <3>3
      <3> QED BY <1>2, <3>2, <3>4
    <2>3. GrantedNow(kept) = {waiters[1]}
      BY <2>2 DEF GrantedNow
    <2>4. /\ active' = kept \cup {waiters[1]}
          /\ waiters' = SubSeq(waiters, GrantCount(kept) + 1, Len(waiters))
          /\ future' = [d \in Callers |-> IF d = waiters[1] THEN "granted"
                                         ELSE IF d = c THEN "none" ELSE future[d]]
      <3>1. (c \in active /\ ~closed) = TRUE
        BY <1>5
      <3> QED BY <2>3, <3>1 DEF ReleaseSlot
    <2>6. waiters' = SubSeq(waiters, 2, Len(waiters))
      <3>1. GrantCount(kept) + 1 = 2
        BY <2>2
      <3> QED BY <2>4, <3>1
    <2>5. /\ waiters' \in Seq(Callers)
          /\ Len(waiters') = Len(waiters) - 1
          /\ \A i \in 1..(Len(waiters) - 1) : waiters'[i] = waiters[i + 1]
      <3>1. \A i \in 2..Len(waiters) : waiters[i] \in Callers
        BY <1>2
      <3>2. /\ SubSeq(waiters, 2, Len(waiters)) \in Seq(Callers)
            /\ Len(SubSeq(waiters, 2, Len(waiters))) =
                 IF 2 <= Len(waiters) THEN Len(waiters) - 2 + 1 ELSE 0
            /\ \A i \in 1..(Len(waiters) - 2 + 1) :
                 SubSeq(waiters, 2, Len(waiters))[i] = waiters[2 + i - 1]
        BY <1>2, <3>1, SubSeqProperties
      <3>3. Len(waiters) >= 1
        BY <1>2, <1>5
      <3>4. Len(waiters) - 2 + 1 = Len(waiters) - 1
        BY <1>2
      <3>5. (IF 2 <= Len(waiters) THEN Len(waiters) - 2 + 1 ELSE 0) = Len(waiters) - 1
        <4>1. \A n \in Nat : n >= 1 => (IF 2 <= n THEN n - 2 + 1 ELSE 0) = n - 1
          OBVIOUS
        <4>2. Len(waiters) \in Nat
          BY <1>2
        <4> QED BY <4>1, <4>2, <3>3
      <3>6. \A i \in 1..(Len(waiters) - 1) : 2 + i - 1 = i + 1
        BY <1>2
      <3>7. \A i \in 1..(Len(waiters) - 1) :
              SubSeq(waiters, 2, Len(waiters))[i] = waiters[i + 1]
        BY <3>2, <3>4, <3>6
      <3> QED BY <2>6, <3>2, <3>5, <3>7
    <2>7. Len(waiters) >= 1
      BY <1>2, <1>5
    <2> QED BY <1>5, <2>4, <2>5, <2>7
  <1> QED BY <1>3, <1>4, <1>5

\* The caller that releases does not queue.
OutOfQueue(c) == pc[c] \in {"holding", "reserved"} \/ (pc[c] = "waiting" /\ c \notin Queued)

\* A slot or a cancelled grant is given back.
LEMMA GiveBack ==
    ASSUME Inv, NEW c \in Callers, OutOfQueue(c), ReleaseSlot(c),
           pc' = [pc EXCEPT ![c] = "idle"], UNCHANGED closed
    PROVE  Inv'
  <1>1. c \notin Queued
    BY DEF OutOfQueue, Inv, NoForgottenWaiter
  <1>q. /\ Len(waiters) \in Nat /\ DOMAIN waiters = 1..Len(waiters)
        /\ \A i \in 1..Len(waiters) : waiters[i] \in Callers
        /\ waiters = <<>> <=> Len(waiters) = 0
    BY QueueFacts DEF Inv
  <1>2. CASE /\ waiters' = waiters
             /\ active' = active \ {c}
             /\ future' = [future EXCEPT ![c] = "none"]
             /\ waiters # <<>> => c \notin active
    <2>1. TypeOK'
      BY <1>2 DEF Inv, TypeOK, FutureStates, PcStates
    <2>2. WithinLimit'
      <3>1. /\ Cardinality(active) \in Nat /\ Cardinality(active) <= Limit
            /\ Cardinality(active \ {c}) =
                 IF c \in active THEN Cardinality(active) - 1 ELSE Cardinality(active)
        BY SlotCounts DEF Inv, WithinLimit
      <3>2. Cardinality(active \ {c}) <= Limit
        BY <3>1, LimitAssumption
      <3> QED BY <1>2, <3>2 DEF WithinLimit
    <2>3. NoLeakedSlot'
      BY <1>2 DEF Inv, TypeOK, NoLeakedSlot
    <2>4. Queued' = Queued
      BY <1>2 DEF Queued
    <2>5. NoForgottenWaiter'
      BY <1>1, <1>2, <2>4 DEF Inv, TypeOK, NoForgottenWaiter
    <2>6. OneClaimPerOwner'
      BY <1>2, <2>4 DEF Inv, OneClaimPerOwner
    <2>7. WorkConserving' /\ ClosedIsEmpty'
      <3>1. waiters # <<>> => active' = active
        BY <1>2
      <3> QED BY <1>2, <3>1 DEF Inv, WorkConserving, ClosedIsEmpty
    <2> QED BY <2>1, <2>2, <2>3, <2>5, <2>6, <2>7 DEF Inv
  <1>3. ASSUME NEW h, h = waiters[1],
               c \in active, Len(waiters) >= 1,
               active' = (active \ {c}) \cup {h},
               future' = [d \in Callers |-> IF d = h THEN "granted"
                                           ELSE IF d = c THEN "none" ELSE future[d]],
               Len(waiters') = Len(waiters) - 1,
               waiters' \in Seq(Callers),
               \A i \in 1..(Len(waiters) - 1) : waiters'[i] = waiters[i + 1]
        PROVE  Inv'
    <2>1. h \in Callers /\ h \in Queued
      BY <1>3, <1>q DEF Queued
    <2>2. pc[h] = "waiting" /\ future[h] = "pending" /\ h # c
      BY <1>1, <2>1 DEF Inv, NoForgottenWaiter
    <2>3. h \notin active
      BY <2>2 DEF Inv, NoLeakedSlot
    <2>4. Queued' = Queued \ {h}
      <3>1. DOMAIN waiters' = 1..(Len(waiters) - 1)
        BY <1>3, LenProperties
      <3>2. ASSUME NEW i \in 1..Len(waiters) PROVE waiters[i] # h <=> i # 1
        BY <1>3, <1>q, <3>2 DEF Inv, NoForgottenWaiter
      <3>3. \A d \in Queued' : d \in Queued /\ d # h
        <4>1. ASSUME NEW i \in 1..(Len(waiters) - 1)
              PROVE  waiters'[i] \in Queued /\ waiters'[i] # h
          <5>1. i + 1 \in 1..Len(waiters) /\ i + 1 # 1
            BY <1>q, <4>1
          <5> QED BY <1>3, <1>q, <3>2, <5>1 DEF Queued
        <4> QED BY <3>1, <4>1 DEF Queued
      <3>4. ASSUME NEW d \in Queued, d # h PROVE d \in Queued'
        <4>1. PICK i \in 1..Len(waiters) : waiters[i] = d
          BY <1>q, <3>4 DEF Queued
        <4>2. i - 1 \in 1..(Len(waiters) - 1) /\ (i - 1) + 1 = i
          BY <1>3, <1>q, <3>4, <4>1
        <4>3. waiters'[i - 1] = d
          BY <1>3, <4>1, <4>2
        <4> QED BY <3>1, <4>2, <4>3 DEF Queued
      <3> QED BY <3>3, <3>4
    <2>5. TypeOK'
      BY <1>3, <2>1 DEF Inv, TypeOK, FutureStates, PcStates
    <2>6. Cardinality(active') = Cardinality(active)
      <3>1. IsFiniteSet(active \ {c}) /\ h \notin active \ {c}
        BY <2>3, SlotCounts, FS_RemoveElement DEF Inv
      <3>2. Cardinality(active') = Cardinality(active \ {c}) + 1
        BY <1>3, <3>1, FS_AddElement
      <3>3. Cardinality(active) \in Nat /\ Cardinality(active \ {c}) = Cardinality(active) - 1
        BY <1>3, SlotCounts DEF Inv
      <3> QED BY <3>2, <3>3
    <2>7. WithinLimit'
      BY <2>6 DEF Inv, WithinLimit
    <2>8. NoLeakedSlot'
      BY <1>3, <2>1, <2>2, <2>3 DEF Inv, TypeOK, NoLeakedSlot
    <2>9. NoForgottenWaiter'
      <3>1. Queued' = {d \in Callers : pc'[d] = "waiting" /\ future'[d] = "pending"}
        BY <1>1, <1>3, <2>1, <2>2, <2>4 DEF Inv, TypeOK, NoForgottenWaiter
      <3>2. DOMAIN waiters' = 1..(Len(waiters) - 1)
        BY <1>3, LenProperties
      <3>3. ASSUME NEW i \in 1..(Len(waiters) - 1), NEW j \in 1..(Len(waiters) - 1), i # j
            PROVE  waiters'[i] # waiters'[j]
        <4>1. i + 1 \in 1..Len(waiters) /\ j + 1 \in 1..Len(waiters) /\ i + 1 # j + 1
          BY <1>q, <3>3
        <4> QED BY <1>3, <1>q, <4>1 DEF Inv, NoForgottenWaiter
      <3> QED BY <3>1, <3>2, <3>3 DEF NoForgottenWaiter
    <2>10. OneClaimPerOwner'
      BY <1>3, <2>1, <2>4 DEF Inv, OneClaimPerOwner
    <2>11. WorkConserving' /\ ClosedIsEmpty'
      BY <1>3, <1>q, <2>6 DEF Inv, WorkConserving, ClosedIsEmpty
    <2> QED BY <2>5, <2>7, <2>8, <2>9, <2>10, <2>11 DEF Inv
  <1> QED BY <1>2, <1>3, ReleaseEffect

\* A queued caller is cancelled and leaves the queue.
LEMMA LeaveQueue ==
    ASSUME Inv, NEW c \in Callers, CancelQueued(c)
    PROVE  Inv'
  <1> DEFINE n == Len(waiters)
  <1>q. /\ n \in Nat /\ DOMAIN waiters = 1..n
        /\ \A i \in 1..n : waiters[i] \in Callers
        /\ waiters = <<>> <=> n = 0
    BY QueueFacts DEF Inv
  <1>1. PICK k \in 1..n : waiters[k] = c /\ waiters' = Without(k)
    BY <1>q DEF CancelQueued
  <1>2. \A i \in 1..(n - 1) : waiters'[i] = waiters[IF i < k THEN i ELSE i + 1]
    BY <1>1 DEF Without
  <1>3. n - 1 \in Nat /\ waiters' \in [1..(n - 1) -> Callers]
    <2>1. \A i \in 1..(n - 1) : (IF i < k THEN i ELSE i + 1) \in 1..n
      BY <1>q
    <2> QED BY <1>q, <1>1, <2>1 DEF Without
  <1>4. waiters' \in Seq(Callers) /\ DOMAIN waiters' = 1..(n - 1)
    BY <1>3, SeqDef
  <1>5. c \in Queued /\ c \notin active
    BY <1>q, <1>1 DEF Queued, Inv, NoForgottenWaiter, NoLeakedSlot
  <1>6. Queued' = Queued \ {c}
    <2>1. ASSUME NEW i \in 1..n PROVE waiters[i] # c <=> i # k
      BY <1>q, <1>1, <2>1 DEF Inv, NoForgottenWaiter
    <2>2. ASSUME NEW i \in 1..(n - 1) PROVE waiters'[i] \in Queued /\ waiters'[i] # c
      <3>1. (IF i < k THEN i ELSE i + 1) \in 1..n /\ (IF i < k THEN i ELSE i + 1) # k
        BY <1>q, <2>2
      <3> QED BY <1>2, <1>q, <2>1, <2>2, <3>1 DEF Queued
    <2>3. ASSUME NEW d \in Queued, d # c PROVE d \in Queued'
      <3>1. PICK i \in 1..n : waiters[i] = d
        BY <1>q, <2>3 DEF Queued
      <3>2. CASE i < k
        <4>1. i \in 1..(n - 1) /\ waiters'[i] = d
          BY <1>q, <1>2, <3>1, <3>2
        <4> QED BY <1>4, <4>1 DEF Queued
      <3>3. CASE i > k
        <4>1. i - 1 \in 1..(n - 1) /\ ~(i - 1 < k) /\ (i - 1) + 1 = i
          BY <1>q, <3>1, <3>3
        <4>2. waiters'[i - 1] = d
          BY <1>2, <3>1, <4>1
        <4> QED BY <1>4, <4>1, <4>2 DEF Queued
      <3> QED BY <1>q, <1>1, <2>3, <3>1, <3>2, <3>3
    <2> QED BY <1>4, <2>2, <2>3 DEF Queued
  <1>7. TypeOK'
    BY <1>4 DEF CancelQueued, Inv, TypeOK, FutureStates, PcStates
  <1>8. WithinLimit' /\ NoLeakedSlot'
    BY <1>5 DEF CancelQueued, Inv, TypeOK, WithinLimit, NoLeakedSlot
  <1>9. NoForgottenWaiter'
    <2>1. Queued' = {d \in Callers : pc'[d] = "waiting" /\ future'[d] = "pending"}
      BY <1>6 DEF CancelQueued, Inv, TypeOK, NoForgottenWaiter
    <2>2. ASSUME NEW i \in 1..(n - 1), NEW j \in 1..(n - 1), i # j
          PROVE  waiters'[i] # waiters'[j]
      <3> DEFINE at(l) == IF l < k THEN l ELSE l + 1
      <3>1. at(i) \in 1..n /\ at(j) \in 1..n /\ at(i) # at(j)
        BY <1>q, <2>2
      <3> QED BY <1>2, <1>q, <2>2, <3>1 DEF Inv, NoForgottenWaiter
    <2> QED BY <1>4, <2>1, <2>2 DEF NoForgottenWaiter
  <1>10. OneClaimPerOwner'
    BY <1>6 DEF CancelQueued, Inv, OneClaimPerOwner
  <1>11. WorkConserving' /\ ClosedIsEmpty'
    BY <1>q, <1>1 DEF CancelQueued, Inv, WorkConserving, ClosedIsEmpty
  <1> QED BY <1>7, <1>8, <1>9, <1>10, <1>11 DEF Inv

\* A caller whose future is resolved takes its answer.
LEMMA TakeAnswer ==
    ASSUME Inv, NEW c \in Callers, Resume(c)
    PROVE  Inv'
  <1>1. Queued' = Queued
    BY DEF Resume, Queued
  <1>2. TypeOK'
    BY DEF Resume, Inv, TypeOK, FutureStates, PcStates
  <1>3. NoLeakedSlot'
    BY DEF Resume, Inv, TypeOK, NoLeakedSlot
  <1>4. NoForgottenWaiter'
    BY <1>1 DEF Resume, Inv, TypeOK, NoForgottenWaiter
  <1>5. WithinLimit' /\ OneClaimPerOwner' /\ WorkConserving' /\ ClosedIsEmpty'
    BY <1>1 DEF Resume, Inv, WithinLimit, OneClaimPerOwner, WorkConserving, ClosedIsEmpty
  <1> QED BY <1>2, <1>3, <1>4, <1>5 DEF Inv

\* A reservation becomes a lease.
LEMMA ConsumeReservation ==
    ASSUME Inv, NEW c \in Callers, Consume(c)
    PROVE  Inv'
  <1>1. Queued' = Queued
    BY DEF Consume, Queued
  <1>2. TypeOK' /\ NoLeakedSlot'
    BY DEF Consume, Inv, TypeOK, NoLeakedSlot, PcStates
  <1>3. NoForgottenWaiter'
    BY <1>1 DEF Consume, Inv, TypeOK, NoForgottenWaiter
  <1>4. WithinLimit' /\ OneClaimPerOwner' /\ WorkConserving' /\ ClosedIsEmpty'
    BY <1>1 DEF Consume, Inv, WithinLimit, OneClaimPerOwner, WorkConserving, ClosedIsEmpty
  <1> QED BY <1>2, <1>3, <1>4 DEF Inv

\* The pool closes.
LEMMA ClosePool ==
    ASSUME Inv, Close
    PROVE  Inv'
  <1>1. waiters' = <<>> /\ DOMAIN waiters' = {} /\ waiters' \in Seq(Callers)
    BY EmptySeq DEF Close
  <1>2. Queued' = {}
    BY <1>1 DEF Queued
  <1>3. TypeOK'
    BY <1>1 DEF Close, Inv, TypeOK, FutureStates
  <1>4. NoLeakedSlot'
    BY DEF Close, Inv, TypeOK, NoLeakedSlot, NoForgottenWaiter
  <1>5. NoForgottenWaiter'
    BY <1>1, <1>2 DEF Close, Inv, TypeOK, NoForgottenWaiter
  <1>6. WithinLimit' /\ OneClaimPerOwner' /\ WorkConserving' /\ ClosedIsEmpty'
    BY <1>1, <1>2
       DEF Close, Inv, WithinLimit, OneClaimPerOwner, WorkConserving, ClosedIsEmpty
  <1> QED BY <1>3, <1>4, <1>5, <1>6 DEF Inv

\* Every step of the pool preserves the invariant.
LEMMA StepInv == Inv /\ [Next]_vars => Inv'
  <1> SUFFICES ASSUME Inv, [Next]_vars PROVE Inv'
    OBVIOUS
  <1>1. ASSUME NEW c \in Callers, TryAcquire(c) \/ TryReserve(c) PROVE Inv'
    BY <1>1, TakeSlot DEF TryAcquire, TryReserve
  <1>2. ASSUME NEW c \in Callers, Release(c) PROVE Inv'
    BY <1>2, GiveBack DEF Release, OutOfQueue
  <1>3. ASSUME NEW c \in Callers, CancelResolved(c) PROVE Inv'
    BY <1>3, GiveBack DEF CancelResolved, OutOfQueue
  <1>4. CASE UNCHANGED vars
    <2>1. Queued' = Queued
      BY <1>4 DEF vars, Queued
    <2> QED
      BY <1>4, <2>1
         DEF vars, Inv, TypeOK, WithinLimit, NoLeakedSlot, NoForgottenWaiter,
             OneClaimPerOwner, WorkConserving, ClosedIsEmpty
  <1> QED
    BY <1>1, <1>2, <1>3, <1>4, ConsumeReservation, JoinQueue, TakeAnswer, LeaveQueue, ClosePool
       DEF Next

\* Never more than Limit agents hold a slot, no slot is leaked by a cancellation that
\* races its grant, no waiter is forgotten, no owner claims twice and no slot idles
\* while somebody queues.
THEOREM PoolInvariant == Spec => []Inv
  <1> QED BY InitInv, StepInv, PTL DEF Spec

\* The type invariant of the pool.
THEOREM PoolTypes == Spec => []TypeOK
  <1>1. Inv => TypeOK
    BY DEF Inv
  <1> QED BY <1>1, PoolInvariant, PTL

\* No slot leaks, no waiter is forgotten, the limit holds, an owner never holds two claims,
\* and no slot is idle while somebody queues.
THEOREM PoolAccounted == Spec => []SlotsAccounted
  <1>1. Inv => SlotsAccounted
    BY DEF Inv, SlotsAccounted
  <1> QED BY <1>1, PoolInvariant, PTL

\* First come, first served: a grant goes to the head of the queue, and a newcomer is
\* served at once only when nobody queues.
LEMMA StepFifo == Inv /\ [Next]_vars => GrantsInOrder
  <1> SUFFICES ASSUME Inv, [Next]_vars, NEW d \in Callers, d \notin active, d \in active'
               PROVE  IF d \in Queued
                      THEN \A i, j \in DOMAIN waiters :
                              (i < j /\ waiters[j] = d) => waiters[i] \in active'
                      ELSE waiters = <<>>
    BY DEF GrantsInOrder
  <1>1. ASSUME NEW c \in Callers, TryAcquire(c) \/ TryReserve(c)
        PROVE  waiters = <<>> /\ d \notin Queued
    BY <1>1 DEF TryAcquire, TryReserve, FreeSlot, Enter, Unique
  <1>2. ASSUME NEW c \in Callers, ReleaseSlot(c)
        PROVE  /\ d \in Queued
               /\ \A i, j \in DOMAIN waiters :
                     (i < j /\ waiters[j] = d) => waiters[i] \in active'
    <2>q. Len(waiters) \in Nat /\ DOMAIN waiters = 1..Len(waiters)
      BY QueueFacts DEF Inv
    <2>1. Len(waiters) >= 1 /\ active' = (active \ {c}) \cup {waiters[1]}
      BY <1>2, ReleaseEffect
    <2>2. d = waiters[1] /\ d \in Queued
      BY <2>q, <2>1 DEF Queued
    <2>3. \A j \in DOMAIN waiters : waiters[j] = d => j = 1
      BY <2>q, <2>1, <2>2 DEF Inv, NoForgottenWaiter
    <2> QED BY <2>q, <2>2, <2>3
  <1>3. UNCHANGED active => FALSE
    OBVIOUS
  <1> QED
    BY <1>1, <1>2, <1>3
       DEF Next, Consume, AcquireWait, Release, Resume, CancelQueued, CancelResolved, Close, vars

\* Slots are granted in the order in which they were asked for, cancellations aside.
THEOREM GrantsAreFifo == Spec => FifoGrants
  <1> QED BY StepFifo, PoolInvariant, PTL DEF Spec, FifoGrants
=============================================================================
