--------------------------- MODULE BundleLocksProofs ---------------------------
(***************************************************************************)
(* Proofs about BundleLocks: for any number of goroutines, what a          *)
(* goroutine holds of a lock follows from where it is in its method, so    *)
(* that no two accesses under locks conflict.                              *)
(***************************************************************************)
EXTENDS BundleLocks, SequenceTheorems, TLAPS

(* The read locks that step q of a method takes, if the method is before   *)
(* step p.                                                                 *)
Taken(s, q, p, l) ==
    IF q >= p THEN 0
    ELSE IF s[q] = Step("RLock", l) THEN 1
    ELSE IF s[q] = Step("RUnlock", l) THEN -1
    ELSE 0

(* The read locks on l that a method holds before step p; no method has    *)
(* more than nine steps.                                                   *)
Depth(s, p, l) ==
    Taken(s, 1, p, l) + Taken(s, 2, p, l) + Taken(s, 3, p, l) + Taken(s, 4, p, l)
        + Taken(s, 5, p, l) + Taken(s, 6, p, l) + Taken(s, 7, p, l) + Taken(s, 8, p, l)
        + Taken(s, 9, p, l)

(* Whether it holds l exclusively before step p. *)
Holds(s, p, l) ==
    \E q \in 1 .. p - 1 :
        s[q] = Step("Lock", l) /\ \A r \in q + 1 .. p - 1 : s[r] # Step("Unlock", l)

(* Step p may be taken with what is held of l before it; reading is free. *)
Lockable(s, p, l) ==
    /\ s[p] = Step("RLock", l)   => Depth(s, p, l) \in {0, 1}
    /\ s[p] = Step("RUnlock", l) => Depth(s, p, l) \in {1, 2}
    /\ s[p] = Step("Lock", l)    => ~Holds(s, p, l)
    /\ s[p] = Step("Write", l)   => Holds(s, p, l)
    /\ s[p] = Step("Unlock", l)  => Holds(s, p, l)

(* The same with reads under the lock. *)
Allowed(s, p, l) ==
    /\ Lockable(s, p, l)
    /\ s[p] = Step("Read", l)    => Depth(s, p, l) > 0 \/ Holds(s, p, l)

(* A method gives back what it took and writes under the lock. *)
Balanced(s) ==
    /\ Len(s) \in 0..9
    /\ \A p \in 1 .. Len(s), l \in Locks : Lockable(s, p, l)
    /\ \A l \in Locks : Depth(s, Len(s) + 1, l) = 0 /\ ~Holds(s, Len(s) + 1, l)

(* It also reads under the lock. *)
WellLocked(s) ==
    Balanced(s) /\ \A p \in 1 .. Len(s), l \in Locks : Allowed(s, p, l)

-----------------------------------------------------------------------------
(* What goroutine t holds of l, by where it is. *)
ReadDepth(t, l) == IF call[t] = "none" THEN 0 ELSE Depth(Steps(t), pos[t], l)
HasLock(t, l) == call[t] # "none" /\ Holds(Steps(t), pos[t], l)

(* Goroutines are in methods of the package. *)
InMethods ==
    \A t \in Threads :
        /\ call[t] = "none" => pos[t] = 1
        /\ call[t] # "none" => call[t] \in DOMAIN Body[pkg] /\ pos[t] \in 1 .. Len(Steps(t)) + 1

(* The locks are what their goroutines hold. *)
ReadersInv == \A t \in Threads, l \in Locks : readers[l][t] = ReadDepth(t, l)

OwnerInv == \A t \in Threads, l \in Locks : owned[l] /\ writer[l] = t <=> HasLock(t, l)

(* An owner is alone. *)
AloneInv ==
    \A l \in Locks : owned[l] => writer[l] # Nobody /\ \A r \in Threads : readers[l][r] = 0

(* Who waits for a lock is about to take it. *)
WaitInv ==
    \A t \in Threads, l \in Locks :
        /\ writer[l] = t /\ ~owned[l] => At(t, "Lock", l)
        /\ t \in blocked[l] => At(t, "RLock", l) /\ writer[l] # Nobody

LockInv == InMethods /\ ReadersInv /\ OwnerInv /\ AloneInv /\ WaitInv

-----------------------------------------------------------------------------
(* What a step of a method changes. *)
LEMMA StepEqual ==
    ASSUME NEW a, NEW b, NEW k, NEW l
    PROVE  Step(a, k) = Step(b, l) <=> a = b /\ k = l
BY DEF Step

(* A method that has taken no step holds nothing. *)
LEMMA DepthFirst ==
    ASSUME NEW s, NEW l
    PROVE  Depth(s, 1, l) = 0 /\ ~Holds(s, 1, l)
<1>1. Depth(s, 1, l) = 0
  BY DEF Depth, Taken
<1>2. 1 .. 1 - 1 = {}
  OBVIOUS
<1>3. QED
  BY <1>1, <1>2 DEF Holds

(* One more step changes the number of read locks by what that step takes  *)
(* or gives back.                                                          *)
LEMMA DepthStep ==
    ASSUME NEW s, NEW p \in 1..9, NEW l
    PROVE  Depth(s, p + 1, l) = Depth(s, p, l) + Taken(s, p, p + 1, l)
<1>1. \A q \in 1..9 : Taken(s, q, p + 1, l) = IF q = p THEN Taken(s, p, p + 1, l) ELSE Taken(s, q, p, l)
  BY DEF Taken
<1>2. Taken(s, p, p, l) = 0
  BY DEF Taken
<1>3. \A q \in 1..9 : Taken(s, q, p, l) \in Int
  BY DEF Taken
<1>4. Taken(s, p, p + 1, l) \in Int
  BY DEF Taken
<1>5. p = 1 \/ p = 2 \/ p = 3 \/ p = 4 \/ p = 5 \/ p = 6 \/ p = 7 \/ p = 8 \/ p = 9
  OBVIOUS
<1>6. QED
  BY <1>1, <1>2, <1>3, <1>4, <1>5 DEF Depth

(* The writer lock is held after a step exactly if the step took it, or    *)
(* it was held and the step did not give it back.                          *)
LEMMA HoldsStep ==
    ASSUME NEW s, NEW p \in Nat \ {0}, NEW l
    PROVE  Holds(s, p + 1, l) <=>
               s[p] = Step("Lock", l) \/ (Holds(s, p, l) /\ s[p] # Step("Unlock", l))
<1>1. Step("Lock", l) # Step("Unlock", l)
  BY StepEqual
<1>2. (p + 1) - 1 = p /\ p - 1 \in Nat /\ (p - 1) + 1 = p
  OBVIOUS
<1>3. 1 .. p = (1 .. p - 1) \cup {p}
  OBVIOUS
<1>4. \A q \in 1 .. p - 1 : q + 1 .. p = (q + 1 .. p - 1) \cup {p}
  OBVIOUS
<1>5. p + 1 .. p = {}
  OBVIOUS
<1>6. Holds(s, p + 1, l) <=>
        \E q \in 1 .. p : s[q] = Step("Lock", l) /\ \A r \in q + 1 .. p : s[r] # Step("Unlock", l)
  BY <1>2 DEF Holds
<1>7. QED
  BY <1>1, <1>3, <1>4, <1>5, <1>6 DEF Holds

(* The two together, for a step that is known: what is held of lock l      *)
(* after the step op on lock k.                                            *)
LEMMA AfterStep ==
    ASSUME NEW s, NEW p \in 1..9, NEW op, NEW k, NEW l, s[p] = Step(op, k)
    PROVE  /\ Depth(s, p + 1, l) = Depth(s, p, l) + (IF op = "RLock" /\ k = l THEN 1
                                                    ELSE IF op = "RUnlock" /\ k = l THEN -1
                                                    ELSE 0)
           /\ Holds(s, p + 1, l) <=>
                 (op = "Lock" /\ k = l) \/ (Holds(s, p, l) /\ ~(op = "Unlock" /\ k = l))
<1>1. Taken(s, p, p + 1, l) = IF op = "RLock" /\ k = l THEN 1
                              ELSE IF op = "RUnlock" /\ k = l THEN -1
                              ELSE 0
  BY StepEqual DEF Taken
<1>2. QED
  BY <1>1, DepthStep, HoldsStep, StepEqual

-----------------------------------------------------------------------------
(* The methods *)

(* A method that reads under the read lock. *)
LEMMA GuardedWellLocked ==
    ASSUME NEW k \in Locks
    PROVE  WellLocked(Guarded(k))
<1> DEFINE s == Guarded(k)
<1>1. Len(s) = 3 /\ s[1] = Step("RLock", k) /\ s[2] = Step("Read", k) /\ s[3] = Step("RUnlock", k)
  BY DEF Guarded
<1> HIDE DEF s
<1>2. ASSUME NEW l \in Locks
      PROVE  /\ Depth(s, 1, l) = 0 /\ ~Holds(s, 1, l)
             /\ Depth(s, 2, l) = (IF k = l THEN 1 ELSE 0) /\ ~Holds(s, 2, l)
             /\ Depth(s, 3, l) = (IF k = l THEN 1 ELSE 0) /\ ~Holds(s, 3, l)
             /\ Depth(s, 4, l) = 0 /\ ~Holds(s, 4, l)
  <2>1. Depth(s, 1, l) = 0 /\ ~Holds(s, 1, l)
    BY DepthFirst
  <2>2. Depth(s, 1 + 1, l) = (IF k = l THEN 1 ELSE 0) /\ ~Holds(s, 1 + 1, l)
    BY <1>1, <2>1, AfterStep
  <2>3. Depth(s, 2 + 1, l) = (IF k = l THEN 1 ELSE 0) /\ ~Holds(s, 2 + 1, l)
    BY <1>1, <2>2, AfterStep
  <2>4. Depth(s, 3 + 1, l) = 0 /\ ~Holds(s, 3 + 1, l)
    BY <1>1, <2>3, AfterStep
  <2>5. QED
    BY <2>1, <2>2, <2>3, <2>4
<1>3. \A l \in Locks : Allowed(s, 1, l) /\ Allowed(s, 2, l) /\ Allowed(s, 3, l)
  BY <1>1, <1>2, StepEqual DEF Allowed, Lockable
<1>4. \A p \in 1 .. Len(s) : p = 1 \/ p = 2 \/ p = 3
  BY <1>1
<1>5. WellLocked(s)
  BY <1>1, <1>2, <1>3, <1>4 DEF WellLocked, Balanced, Allowed
<1>6. QED
  BY <1>5 DEF s

(* A method that writes under the lock. *)
LEMMA ExclusiveWellLocked ==
    ASSUME NEW k \in Locks
    PROVE  WellLocked(Exclusive(k))
<1> DEFINE s == Exclusive(k)
<1>1. /\ Len(s) = 3 /\ s[1] = Step("Lock", k) /\ s[2] = Step("Write", k)
      /\ s[3] = Step("Unlock", k)
  BY DEF Exclusive
<1> HIDE DEF s
<1>2. ASSUME NEW l \in Locks
      PROVE  /\ Depth(s, 1, l) = 0 /\ ~Holds(s, 1, l)
             /\ Depth(s, 2, l) = 0 /\ (Holds(s, 2, l) <=> k = l)
             /\ Depth(s, 3, l) = 0 /\ (Holds(s, 3, l) <=> k = l)
             /\ Depth(s, 4, l) = 0 /\ ~Holds(s, 4, l)
  <2>1. Depth(s, 1, l) = 0 /\ ~Holds(s, 1, l)
    BY DepthFirst
  <2>2. Depth(s, 1 + 1, l) = 0 /\ (Holds(s, 1 + 1, l) <=> k = l)
    BY <1>1, <2>1, AfterStep
  <2>3. Depth(s, 2 + 1, l) = 0 /\ (Holds(s, 2 + 1, l) <=> k = l)
    BY <1>1, <2>2, AfterStep
  <2>4. Depth(s, 3 + 1, l) = 0 /\ ~Holds(s, 3 + 1, l)
    BY <1>1, <2>3, AfterStep
  <2>5. QED
    BY <2>1, <2>2, <2>3, <2>4
<1>3. \A l \in Locks : Allowed(s, 1, l) /\ Allowed(s, 2, l) /\ Allowed(s, 3, l)
  BY <1>1, <1>2, StepEqual DEF Allowed, Lockable
<1>4. \A p \in 1 .. Len(s) : p = 1 \/ p = 2 \/ p = 3
  BY <1>1
<1>5. WellLocked(s)
  BY <1>1, <1>2, <1>3, <1>4 DEF WellLocked, Balanced, Allowed
<1>6. QED
  BY <1>5 DEF s

(* The getters that take the bundle's read lock twice. *)
LEMMA NestedWellLocked ==
    WellLocked(BundleGetForTrustDomain)
<1> DEFINE s == BundleGetForTrustDomain
<1>1. /\ Len(s) = 5 /\ s[1] = Step("RLock", "bundle") /\ s[2] = Step("RLock", "bundle")
      /\ s[3] = Step("Read", "bundle") /\ s[4] = Step("RUnlock", "bundle")
      /\ s[5] = Step("RUnlock", "bundle")
  BY DEF BundleGetForTrustDomain, Guarded
<1> HIDE DEF s
<1>2. ASSUME NEW l \in Locks
      PROVE  /\ Depth(s, 1, l) = 0 /\ ~Holds(s, 1, l)
             /\ Depth(s, 2, l) = (IF "bundle" = l THEN 1 ELSE 0) /\ ~Holds(s, 2, l)
             /\ Depth(s, 3, l) = (IF "bundle" = l THEN 2 ELSE 0) /\ ~Holds(s, 3, l)
             /\ Depth(s, 4, l) = (IF "bundle" = l THEN 2 ELSE 0) /\ ~Holds(s, 4, l)
             /\ Depth(s, 5, l) = (IF "bundle" = l THEN 1 ELSE 0) /\ ~Holds(s, 5, l)
             /\ Depth(s, 6, l) = 0 /\ ~Holds(s, 6, l)
  <2>1. Depth(s, 1, l) = 0 /\ ~Holds(s, 1, l)
    BY DepthFirst
  <2>2. Depth(s, 1 + 1, l) = (IF "bundle" = l THEN 1 ELSE 0) /\ ~Holds(s, 1 + 1, l)
    BY <1>1, <2>1, AfterStep
  <2>3. Depth(s, 2 + 1, l) = (IF "bundle" = l THEN 2 ELSE 0) /\ ~Holds(s, 2 + 1, l)
    BY <1>1, <2>2, AfterStep
  <2>4. Depth(s, 3 + 1, l) = (IF "bundle" = l THEN 2 ELSE 0) /\ ~Holds(s, 3 + 1, l)
    BY <1>1, <2>3, AfterStep
  <2>5. Depth(s, 4 + 1, l) = (IF "bundle" = l THEN 1 ELSE 0) /\ ~Holds(s, 4 + 1, l)
    BY <1>1, <2>4, AfterStep
  <2>6. Depth(s, 5 + 1, l) = 0 /\ ~Holds(s, 5 + 1, l)
    BY <1>1, <2>5, AfterStep
  <2>7. QED
    BY <2>1, <2>2, <2>3, <2>4, <2>5, <2>6
<1>3. \A l \in Locks : 
        /\ Allowed(s, 1, l) /\ Allowed(s, 2, l) /\ Allowed(s, 3, l) /\ Allowed(s, 4, l)
        /\ Allowed(s, 5, l)
  BY <1>1, <1>2, StepEqual DEF Allowed, Lockable
<1>4. \A p \in 1 .. Len(s) : p = 1 \/ p = 2 \/ p = 3 \/ p = 4 \/ p = 5
  BY <1>1
<1>5. WellLocked(s)
  BY <1>1, <1>2, <1>3, <1>4 DEF WellLocked, Balanced, Allowed
<1>6. QED
  BY <1>5 DEF s

(* A bundle is read under the lock of its set. *)
LEMMA SetGetWellLocked ==
    WellLocked(SetGetForTrustDomain)
<1> DEFINE s == SetGetForTrustDomain
<1>1. /\ Len(s) = 6 /\ s[1] = Step("RLock", "set") /\ s[2] = Step("Read", "set")
      /\ s[3] = Step("RLock", "bundle") /\ s[4] = Step("Read", "bundle")
      /\ s[5] = Step("RUnlock", "bundle") /\ s[6] = Step("RUnlock", "set")
  BY DEF SetGetForTrustDomain, Guarded
<1> HIDE DEF s
<1>2. ASSUME NEW l \in Locks
      PROVE  /\ Depth(s, 1, l) = 0 /\ ~Holds(s, 1, l)
             /\ Depth(s, 2, l) = (IF "set" = l THEN 1 ELSE 0) /\ ~Holds(s, 2, l)
             /\ Depth(s, 3, l) = (IF "set" = l THEN 1 ELSE 0) /\ ~Holds(s, 3, l)
             /\ Depth(s, 4, l) = (IF "set" = l THEN 1 ELSE IF "bundle" = l THEN 1 ELSE 0) /\ ~Holds(s, 4, l)
             /\ Depth(s, 5, l) = (IF "set" = l THEN 1 ELSE IF "bundle" = l THEN 1 ELSE 0) /\ ~Holds(s, 5, l)
             /\ Depth(s, 6, l) = (IF "set" = l THEN 1 ELSE 0) /\ ~Holds(s, 6, l)
             /\ Depth(s, 7, l) = 0 /\ ~Holds(s, 7, l)
  <2>1. Depth(s, 1, l) = 0 /\ ~Holds(s, 1, l)
    BY DepthFirst
  <2>2. Depth(s, 1 + 1, l) = (IF "set" = l THEN 1 ELSE 0) /\ ~Holds(s, 1 + 1, l)
    BY <1>1, <2>1, AfterStep
  <2>3. Depth(s, 2 + 1, l) = (IF "set" = l THEN 1 ELSE 0) /\ ~Holds(s, 2 + 1, l)
    BY <1>1, <2>2, AfterStep
  <2>4. Depth(s, 3 + 1, l) = (IF "set" = l THEN 1 ELSE IF "bundle" = l THEN 1 ELSE 0) /\ ~Holds(s, 3 + 1, l)
    BY <1>1, <2>3, AfterStep
  <2>5. Depth(s, 4 + 1, l) = (IF "set" = l THEN 1 ELSE IF "bundle" = l THEN 1 ELSE 0) /\ ~Holds(s, 4 + 1, l)
    BY <1>1, <2>4, AfterStep
  <2>6. Depth(s, 5 + 1, l) = (IF "set" = l THEN 1 ELSE 0) /\ ~Holds(s, 5 + 1, l)
    BY <1>1, <2>5, AfterStep
  <2>7. Depth(s, 6 + 1, l) = 0 /\ ~Holds(s, 6 + 1, l)
    BY <1>1, <2>6, AfterStep
  <2>8. QED
    BY <2>1, <2>2, <2>3, <2>4, <2>5, <2>6, <2>7
<1>3. \A l \in Locks : 
        /\ Allowed(s, 1, l) /\ Allowed(s, 2, l) /\ Allowed(s, 3, l) /\ Allowed(s, 4, l)
        /\ Allowed(s, 5, l) /\ Allowed(s, 6, l)
  BY <1>1, <1>2, StepEqual DEF Allowed, Lockable
<1>4. \A p \in 1 .. Len(s) : p = 1 \/ p = 2 \/ p = 3 \/ p = 4 \/ p = 5 \/ p = 6
  BY <1>1
<1>5. WellLocked(s)
  BY <1>1, <1>2, <1>3, <1>4 DEF WellLocked, Balanced, Allowed
<1>6. QED
  BY <1>5 DEF s

(* A set and its bundles are read while the source is locked. *)
LEMMA SetX509ContextWellLocked ==
    WellLocked(SetX509Context)
<1> DEFINE s == SetX509Context
<1>1. /\ Len(s) = 9 /\ s[1] = Step("Lock", "source") /\ s[2] = Step("RLock", "set")
      /\ s[3] = Step("Read", "set") /\ s[4] = Step("RUnlock", "set")
      /\ s[5] = Step("RLock", "bundle") /\ s[6] = Step("Read", "bundle")
      /\ s[7] = Step("RUnlock", "bundle") /\ s[8] = Step("Write", "source")
      /\ s[9] = Step("Unlock", "source")
  BY DEF SetX509Context, Guarded
<1> HIDE DEF s
<1>2. ASSUME NEW l \in Locks
      PROVE  /\ Depth(s, 1, l) = 0 /\ ~Holds(s, 1, l)
             /\ Depth(s, 2, l) = 0 /\ (Holds(s, 2, l) <=> "source" = l)
             /\ Depth(s, 3, l) = (IF "set" = l THEN 1 ELSE 0) /\ (Holds(s, 3, l) <=> "source" = l)
             /\ Depth(s, 4, l) = (IF "set" = l THEN 1 ELSE 0) /\ (Holds(s, 4, l) <=> "source" = l)
             /\ Depth(s, 5, l) = 0 /\ (Holds(s, 5, l) <=> "source" = l)
             /\ Depth(s, 6, l) = (IF "bundle" = l THEN 1 ELSE 0) /\ (Holds(s, 6, l) <=> "source" = l)
             /\ Depth(s, 7, l) = (IF "bundle" = l THEN 1 ELSE 0) /\ (Holds(s, 7, l) <=> "source" = l)
             /\ Depth(s, 8, l) = 0 /\ (Holds(s, 8, l) <=> "source" = l)
             /\ Depth(s, 9, l) = 0 /\ (Holds(s, 9, l) <=> "source" = l)
             /\ Depth(s, 10, l) = 0 /\ ~Holds(s, 10, l)
  <2>1. Depth(s, 1, l) = 0 /\ ~Holds(s, 1, l)
    BY DepthFirst
  <2>2. Depth(s, 1 + 1, l) = 0 /\ (Holds(s, 1 + 1, l) <=> "source" = l)
    BY <1>1, <2>1, AfterStep
  <2>3. Depth(s, 2 + 1, l) = (IF "set" = l THEN 1 ELSE 0) /\ (Holds(s, 2 + 1, l) <=> "source" = l)
    BY <1>1, <2>2, AfterStep
  <2>4. Depth(s, 3 + 1, l) = (IF "set" = l THEN 1 ELSE 0) /\ (Holds(s, 3 + 1, l) <=> "source" = l)
    BY <1>1, <2>3, AfterStep
  <2>5. Depth(s, 4 + 1, l) = 0 /\ (Holds(s, 4 + 1, l) <=> "source" = l)
    BY <1>1, <2>4, AfterStep
  <2>6. Depth(s, 5 + 1, l) = (IF "bundle" = l THEN 1 ELSE 0) /\ (Holds(s, 5 + 1, l) <=> "source" = l)
    BY <1>1, <2>5, AfterStep
  <2>7. Depth(s, 6 + 1, l) = (IF "bundle" = l THEN 1 ELSE 0) /\ (Holds(s, 6 + 1, l) <=> "source" = l)
    BY <1>1, <2>6, AfterStep
  <2>8. Depth(s, 7 + 1, l) = 0 /\ (Holds(s, 7 + 1, l) <=> "source" = l)
    BY <1>1, <2>7, AfterStep
  <2>9. Depth(s, 8 + 1, l) = 0 /\ (Holds(s, 8 + 1, l) <=> "source" = l)
    BY <1>1, <2>8, AfterStep
  <2>10. Depth(s, 9 + 1, l) = 0 /\ ~Holds(s, 9 + 1, l)
    BY <1>1, <2>9, AfterStep
  <2>11. QED
    BY <2>1, <2>2, <2>3, <2>4, <2>5, <2>6, <2>7, <2>8, <2>9, <2>10
<1>3. \A l \in Locks : 
        /\ Allowed(s, 1, l) /\ Allowed(s, 2, l) /\ Allowed(s, 3, l) /\ Allowed(s, 4, l)
        /\ Allowed(s, 5, l) /\ Allowed(s, 6, l) /\ Allowed(s, 7, l) /\ Allowed(s, 8, l)
        /\ Allowed(s, 9, l)
  BY <1>1, <1>2, StepEqual DEF Allowed, Lockable
<1>4. \A p \in 1 .. Len(s) : p = 1 \/ p = 2 \/ p = 3 \/ p = 4 \/ p = 5 \/ p = 6 \/ p = 7 \/ p = 8 \/ p = 9
  BY <1>1
<1>5. WellLocked(s)
  BY <1>1, <1>2, <1>3, <1>4 DEF WellLocked, Balanced, Allowed
<1>6. QED
  BY <1>5 DEF s

(* A set is asked under the lock of the source. *)
LEMMA SourceGetWellLocked ==
    WellLocked(SourceGetForTrustDomain)
<1> DEFINE s == SourceGetForTrustDomain
<1>1. /\ Len(s) = 6 /\ s[1] = Step("RLock", "source") /\ s[2] = Step("Read", "source")
      /\ s[3] = Step("RLock", "set") /\ s[4] = Step("Read", "set")
      /\ s[5] = Step("RUnlock", "set") /\ s[6] = Step("RUnlock", "source")
  BY DEF SourceGetForTrustDomain, WITSetReader, Guarded
<1> HIDE DEF s
<1>2. ASSUME NEW l \in Locks
      PROVE  /\ Depth(s, 1, l) = 0 /\ ~Holds(s, 1, l)
             /\ Depth(s, 2, l) = (IF "source" = l THEN 1 ELSE 0) /\ ~Holds(s, 2, l)
             /\ Depth(s, 3, l) = (IF "source" = l THEN 1 ELSE 0) /\ ~Holds(s, 3, l)
             /\ Depth(s, 4, l) = (IF "source" = l THEN 1 ELSE IF "set" = l THEN 1 ELSE 0) /\ ~Holds(s, 4, l)
             /\ Depth(s, 5, l) = (IF "source" = l THEN 1 ELSE IF "set" = l THEN 1 ELSE 0) /\ ~Holds(s, 5, l)
             /\ Depth(s, 6, l) = (IF "source" = l THEN 1 ELSE 0) /\ ~Holds(s, 6, l)
             /\ Depth(s, 7, l) = 0 /\ ~Holds(s, 7, l)
  <2>1. Depth(s, 1, l) = 0 /\ ~Holds(s, 1, l)
    BY DepthFirst
  <2>2. Depth(s, 1 + 1, l) = (IF "source" = l THEN 1 ELSE 0) /\ ~Holds(s, 1 + 1, l)
    BY <1>1, <2>1, AfterStep
  <2>3. Depth(s, 2 + 1, l) = (IF "source" = l THEN 1 ELSE 0) /\ ~Holds(s, 2 + 1, l)
    BY <1>1, <2>2, AfterStep
  <2>4. Depth(s, 3 + 1, l) = (IF "source" = l THEN 1 ELSE IF "set" = l THEN 1 ELSE 0) /\ ~Holds(s, 3 + 1, l)
    BY <1>1, <2>3, AfterStep
  <2>5. Depth(s, 4 + 1, l) = (IF "source" = l THEN 1 ELSE IF "set" = l THEN 1 ELSE 0) /\ ~Holds(s, 4 + 1, l)
    BY <1>1, <2>4, AfterStep
  <2>6. Depth(s, 5 + 1, l) = (IF "source" = l THEN 1 ELSE 0) /\ ~Holds(s, 5 + 1, l)
    BY <1>1, <2>5, AfterStep
  <2>7. Depth(s, 6 + 1, l) = 0 /\ ~Holds(s, 6 + 1, l)
    BY <1>1, <2>6, AfterStep
  <2>8. QED
    BY <2>1, <2>2, <2>3, <2>4, <2>5, <2>6, <2>7
<1>3. \A l \in Locks : 
        /\ Allowed(s, 1, l) /\ Allowed(s, 2, l) /\ Allowed(s, 3, l) /\ Allowed(s, 4, l)
        /\ Allowed(s, 5, l) /\ Allowed(s, 6, l)
  BY <1>1, <1>2, StepEqual DEF Allowed, Lockable
<1>4. \A p \in 1 .. Len(s) : p = 1 \/ p = 2 \/ p = 3 \/ p = 4 \/ p = 5 \/ p = 6
  BY <1>1
<1>5. WellLocked(s)
  BY <1>1, <1>2, <1>3, <1>4 DEF WellLocked, Balanced, Allowed
<1>6. QED
  BY <1>5 DEF s

(* A method that touches nothing a lock guards. *)
LEMMA EmptyWellLocked == WellLocked(<<>>)
<1>1. Len(<<>>) = 0 /\ 0 + 1 = 1 /\ 1 .. 0 = {} /\ 0 \in 0..9
  OBVIOUS
<1>2. \A l \in Locks : Depth(<<>>, 1, l) = 0 /\ ~Holds(<<>>, 1, l)
  BY DepthFirst
<1>3. QED
  BY <1>1, <1>2 DEF WellLocked, Balanced

(* A method that reads without the lock. *)
LEMMA UnlockedReadBalanced ==
    ASSUME NEW k \in Locks
    PROVE  Balanced(<<Step("Read", k)>>)
<1> DEFINE s == <<Step("Read", k)>>
<1>1. Len(s) = 1 /\ s[1] = Step("Read", k)
  OBVIOUS
<1> HIDE DEF s
<1>2. \A l \in Locks : Depth(s, 1, l) = 0 /\ ~Holds(s, 1, l)
  BY DepthFirst
<1>3. \A l \in Locks : Depth(s, 1 + 1, l) = 0 /\ ~Holds(s, 1 + 1, l)
  BY <1>1, <1>2, AfterStep
<1>4. \A l \in Locks : Lockable(s, 1, l)
  BY <1>1, <1>2, StepEqual DEF Lockable
<1>5. \A p \in 1 .. Len(s) : p = 1
  BY <1>1
<1>6. Balanced(s)
  BY <1>1, <1>3, <1>4, <1>5 DEF Balanced
<1>7. QED
  BY <1>6 DEF s

(* The getters of X509Source and JWTSource. *)
LEMMA SourceGetUnlockedBalanced ==
    Balanced(SourceGetUnlocked)
<1> DEFINE s == SourceGetUnlocked
<1>1. /\ Len(s) = 4 /\ s[1] = Step("Read", "source") /\ s[2] = Step("RLock", "set")
      /\ s[3] = Step("Read", "set") /\ s[4] = Step("RUnlock", "set")
  BY DEF SourceGetUnlocked, Guarded
<1> HIDE DEF s
<1>2. ASSUME NEW l \in Locks
      PROVE  /\ Depth(s, 1, l) = 0 /\ ~Holds(s, 1, l)
             /\ Depth(s, 2, l) = 0 /\ ~Holds(s, 2, l)
             /\ Depth(s, 3, l) = (IF "set" = l THEN 1 ELSE 0) /\ ~Holds(s, 3, l)
             /\ Depth(s, 4, l) = (IF "set" = l THEN 1 ELSE 0) /\ ~Holds(s, 4, l)
             /\ Depth(s, 5, l) = 0 /\ ~Holds(s, 5, l)
  <2>1. Depth(s, 1, l) = 0 /\ ~Holds(s, 1, l)
    BY DepthFirst
  <2>2. Depth(s, 1 + 1, l) = 0 /\ ~Holds(s, 1 + 1, l)
    BY <1>1, <2>1, AfterStep
  <2>3. Depth(s, 2 + 1, l) = (IF "set" = l THEN 1 ELSE 0) /\ ~Holds(s, 2 + 1, l)
    BY <1>1, <2>2, AfterStep
  <2>4. Depth(s, 3 + 1, l) = (IF "set" = l THEN 1 ELSE 0) /\ ~Holds(s, 3 + 1, l)
    BY <1>1, <2>3, AfterStep
  <2>5. Depth(s, 4 + 1, l) = 0 /\ ~Holds(s, 4 + 1, l)
    BY <1>1, <2>4, AfterStep
  <2>6. QED
    BY <2>1, <2>2, <2>3, <2>4, <2>5
<1>3. \A l \in Locks :
        Lockable(s, 1, l) /\ Lockable(s, 2, l) /\ Lockable(s, 3, l) /\ Lockable(s, 4, l)
  BY <1>1, <1>2, StepEqual DEF Lockable
<1>4. \A p \in 1 .. Len(s) : p = 1 \/ p = 2 \/ p = 3 \/ p = 4
  BY <1>1
<1>5. Balanced(s)
  BY <1>1, <1>2, <1>3, <1>4 DEF Balanced
<1>6. QED
  BY <1>5 DEF s

(* Every method of every package gives back what it took and writes under  *)
(* the lock, and every method that is not among the unlocked ones reads    *)
(* under it.                                                               *)
LEMMA BodiesLocked ==
    ASSUME NEW p \in DOMAIN Body, NEW m \in DOMAIN Body[p]
    PROVE  Balanced(Body[p][m]) /\ (m \notin Unlocked => WellLocked(Body[p][m]))
<1>1. \A k \in Locks : WellLocked(Guarded(k)) /\ WellLocked(Exclusive(k))
  BY GuardedWellLocked, ExclusiveWellLocked
<1>2. "bundle" \in Locks /\ "set" \in Locks /\ "source" \in Locks
  BY DEF Locks
<1>3. DOMAIN Body = {"spiffebundle", "x509bundle", "jwtbundle", "witbundle", "workloadapi"}
  BY DEF Body
<1>4. ASSUME NEW s, WellLocked(s) PROVE Balanced(s)
  BY <1>4 DEF WellLocked
<1>5. SUFFICES (m \in Unlocked /\ Balanced(Body[p][m])) \/ WellLocked(Body[p][m])
  BY <1>4
<1> USE <1>1, <1>2
<1>6. CASE p = "spiffebundle"
  <2>1. CASE m = "BundleEqual"
    BY <1>6, <2>1, UnlockedReadBalanced DEF Body, Unlocked, BundleEqual
  <2>2. ASSUME m # "BundleEqual" PROVE WellLocked(Body[p][m])
    BY <1>6, <2>2, NestedWellLocked, SetGetWellLocked
       DEF Body, BundleReader, BundleWriter, SetReader, SetWriter
  <2>3. QED
    BY <2>1, <2>2
<1>7. CASE p = "x509bundle"
  <2>1. CASE m = "BundleEqual"
    BY <1>7, <2>1, UnlockedReadBalanced DEF Body, Unlocked, X509BundleEqual
  <2>2. ASSUME m # "BundleEqual" PROVE WellLocked(Body[p][m])
    BY <1>7, <2>2, EmptyWellLocked
       DEF Body, X509BundleReader, X509BundleWriter, X509BundleGetForTrustDomain, X509SetReader,
           X509SetWriter
  <2>3. QED
    BY <2>1, <2>2
<1>8. CASE p = "jwtbundle"
  <2>1. CASE m = "BundleEqual"
    BY <1>8, <2>1, UnlockedReadBalanced DEF Body, Unlocked, JWTBundleEqual
  <2>2. ASSUME m # "BundleEqual" PROVE WellLocked(Body[p][m])
    BY <1>8, <2>2
       DEF Body, JWTBundleReader, JWTBundleWriter, JWTSetReader, JWTSetWriter
  <2>3. QED
    BY <2>1, <2>2
<1>9. CASE p = "witbundle"
  <2>1. CASE m = "BundleEqual"
    BY <1>9, <2>1, UnlockedReadBalanced DEF Body, Unlocked, WITBundleEqual
  <2>2. ASSUME m # "BundleEqual" PROVE WellLocked(Body[p][m])
    BY <1>9, <2>2
       DEF Body, WITBundleReader, WITBundleWriter, WITSetReader, WITSetWriter
  <2>3. QED
    BY <2>1, <2>2
<1>10. CASE p = "workloadapi"
  <2>1. CASE m = "SourceGetUnlocked"
    BY <1>10, <2>1, SourceGetUnlockedBalanced DEF Body, Unlocked
  <2>2. ASSUME m # "SourceGetUnlocked" PROVE WellLocked(Body[p][m])
    BY <1>10, <2>2, SetX509ContextWellLocked, SourceGetWellLocked
       DEF Body, WITBundleWriter, SourceReader, SourceWriter
  <2>3. QED
    BY <2>1, <2>2
<1>11. QED
  BY <1>3, <1>6, <1>7, <1>8, <1>9, <1>10

-----------------------------------------------------------------------------
(* A goroutine has one next step, which its method allows. *)
LEMMA AtUnique ==
    ASSUME NEW t, NEW a, NEW b, NEW k, NEW l, At(t, a, k), At(t, b, l)
    PROVE  a = b /\ k = l
<1>1. Step(a, k) = Step(b, l)
  BY DEF At
<1>2. QED
  BY <1>1, StepEqual

(* What a goroutine holds when it is about to take a step: the locks that  *)
(* make the step legal, as every method is balanced, and the lock of what  *)
(* it reads unless its method is one of the unlocked ones.                 *)
LEMMA AtAllowed ==
    ASSUME TypeOK, LockInv, NEW t \in Threads, NEW op, NEW k \in Locks, At(t, op, k)
    PROVE  /\ call[t] # "none" /\ Steps(t)[pos[t]] = Step(op, k)
           /\ pos[t] \in 1..9 /\ pos[t] \in 1..Len(Steps(t)) /\ Len(Steps(t)) \in 0..9
           /\ op = "RLock"   => readers[k][t] \in {0, 1}
           /\ op = "RUnlock" => readers[k][t] \in {1, 2}
           /\ op = "Read" /\ call[t] \notin Unlocked =>
                 readers[k][t] > 0 \/ (owned[k] /\ writer[k] = t)
           /\ op = "Lock"    => ~(owned[k] /\ writer[k] = t)
           /\ op = "Write"   => owned[k] /\ writer[k] = t
           /\ op = "Unlock"  => owned[k] /\ writer[k] = t
<1>1. call[t] # "none" /\ pos[t] <= Len(Steps(t)) /\ Steps(t)[pos[t]] = Step(op, k)
  BY DEF At
<1>2. /\ Balanced(Steps(t)) /\ pos[t] \in 1 .. Len(Steps(t)) + 1
      /\ call[t] \notin Unlocked => WellLocked(Steps(t))
  BY <1>1, BodiesLocked, BundleLocksAssumption DEF LockInv, InMethods, Steps, TypeOK
<1>3. pos[t] \in 1..Len(Steps(t)) /\ Len(Steps(t)) \in 0..9 /\ pos[t] \in 1..9
  BY <1>1, <1>2 DEF Balanced
<1>4. /\ Lockable(Steps(t), pos[t], k)
      /\ call[t] \notin Unlocked => Allowed(Steps(t), pos[t], k)
  BY <1>2, <1>3 DEF Balanced, WellLocked
<1>5. readers[k][t] = Depth(Steps(t), pos[t], k)
  BY <1>1 DEF LockInv, ReadersInv, ReadDepth
<1>6. owned[k] /\ writer[k] = t <=> Holds(Steps(t), pos[t], k)
  BY <1>1 DEF LockInv, OwnerInv, HasLock
<1>7. QED
  BY <1>1, <1>3, <1>4, <1>5, <1>6 DEF Allowed, Lockable

Ops == {"RLock", "RUnlock", "Read", "Write", "Lock", "Unlock"}

(* The goroutines of T take a step of their methods, the others none. *)
LEMMA AdvanceEffect ==
    ASSUME TypeOK, LockInv, NEW T \in SUBSET Threads, Advance(T), UNCHANGED call,
           \A t \in T : \E op \in Ops, k \in Locks : At(t, op, k)
    PROVE  /\ pos' \in [Threads -> 1..MaxSteps]
           /\ InMethods'
           /\ \A t \in Threads \ T, l \in Locks :
                 /\ ReadDepth(t, l)' = ReadDepth(t, l)
                 /\ HasLock(t, l)' <=> HasLock(t, l)
                 /\ At(t, "Lock", l)' <=> At(t, "Lock", l)
                 /\ At(t, "RLock", l)' <=> At(t, "RLock", l)
           /\ \A t \in T, op \in Ops, k \in Locks, l \in Locks :
                 At(t, op, k) =>
                   /\ ReadDepth(t, l)' = ReadDepth(t, l) + (IF op = "RLock" /\ k = l THEN 1
                                                          ELSE IF op = "RUnlock" /\ k = l THEN -1
                                                          ELSE 0)
                   /\ HasLock(t, l)' <=>
                         (op = "Lock" /\ k = l) \/ (HasLock(t, l) /\ ~(op = "Unlock" /\ k = l))
<1>1. /\ pos' = [t \in Threads |-> IF t \in T THEN pos[t] + 1 ELSE pos[t]]
      /\ call' = call /\ pkg' = pkg
  BY DEF Advance
<1>2. \A t \in Threads : Steps(t)' = Steps(t)
  BY <1>1 DEF Steps
<1>3. ASSUME NEW t \in T
      PROVE  /\ call[t] # "none" /\ pos[t] \in 1..9 /\ pos[t] \in 1..Len(Steps(t))
             /\ Len(Steps(t)) \in 0..9 /\ pos'[t] = pos[t] + 1
  <2>1. t \in Threads /\ pos'[t] = pos[t] + 1
    BY <1>1
  <2>2. PICK op \in Ops, k \in Locks : At(t, op, k)
    OBVIOUS
  <2>3. QED
    BY <2>1, <2>2, AtAllowed
<1>4. \A t \in Threads \ T : pos'[t] = pos[t]
  BY <1>1
<1>5. pos' \in [Threads -> 1..MaxSteps]
  <2>1. ASSUME NEW t \in T PROVE pos[t] + 1 \in 1..MaxSteps
    BY <1>3 DEF MaxSteps
  <2>2. \A t \in Threads : pos[t] \in 1..MaxSteps
    BY DEF TypeOK
  <2>3. QED
    BY <1>1, <2>1, <2>2
<1>6. InMethods'
  <2>1. ASSUME NEW t \in T PROVE pos'[t] \in 1 .. Len(Steps(t)) + 1
    BY <1>3
  <2>2. QED
    BY <1>1, <1>2, <1>3, <1>4, <2>1 DEF InMethods, LockInv
<1>7. ASSUME NEW t \in Threads \ T, NEW l \in Locks
      PROVE  /\ ReadDepth(t, l)' = ReadDepth(t, l)
             /\ HasLock(t, l)' <=> HasLock(t, l)
             /\ At(t, "Lock", l)' <=> At(t, "Lock", l)
             /\ At(t, "RLock", l)' <=> At(t, "RLock", l)
  BY <1>1, <1>2, <1>4 DEF ReadDepth, HasLock, At
<1>8. ASSUME NEW t \in T, NEW op \in Ops,
             NEW k \in Locks, NEW l \in Locks, At(t, op, k)
      PROVE  /\ ReadDepth(t, l)' = ReadDepth(t, l) + (IF op = "RLock" /\ k = l THEN 1
                                                    ELSE IF op = "RUnlock" /\ k = l THEN -1
                                                    ELSE 0)
             /\ HasLock(t, l)' <=>
                   (op = "Lock" /\ k = l) \/ (HasLock(t, l) /\ ~(op = "Unlock" /\ k = l))
  <2>1. Steps(t)[pos[t]] = Step(op, k)
    BY <1>8 DEF At
  <2>2. /\ ReadDepth(t, l) = Depth(Steps(t), pos[t], l)
        /\ ReadDepth(t, l)' = Depth(Steps(t), pos[t] + 1, l)
        /\ HasLock(t, l) <=> Holds(Steps(t), pos[t], l)
        /\ HasLock(t, l)' <=> Holds(Steps(t), pos[t] + 1, l)
    BY <1>1, <1>2, <1>3 DEF ReadDepth, HasLock
  <2>3. pos[t] \in 1..9
    BY <1>3
  <2>4. /\ Depth(Steps(t), pos[t] + 1, l) = Depth(Steps(t), pos[t], l)
                                             + (IF op = "RLock" /\ k = l THEN 1
                                                ELSE IF op = "RUnlock" /\ k = l THEN -1
                                                ELSE 0)
        /\ Holds(Steps(t), pos[t] + 1, l) <=>
              (op = "Lock" /\ k = l) \/ (Holds(Steps(t), pos[t], l) /\ ~(op = "Unlock" /\ k = l))
    BY <2>1, <2>3, AfterStep
  <2>5. QED
    BY <2>2, <2>4
<1>9. QED
  BY <1>5, <1>6, <1>7, <1>8

(* A step of t, which neither waits nor makes others wait, leaves the      *)
(* waiting ones alone.                                                     *)
LEMMA WaitKept ==
    ASSUME TypeOK, LockInv, NEW t \in Threads,
           \A l \in Locks : t \notin blocked[l] /\ (writer[l] = t => owned[l]),
           UNCHANGED <<blocked, writer, owned>>,
           \A r \in Threads \ {t}, l \in Locks :
               /\ At(r, "Lock", l)' <=> At(r, "Lock", l)
               /\ At(r, "RLock", l)' <=> At(r, "RLock", l)
    PROVE  WaitInv'
<1>1. ASSUME NEW r \in Threads, NEW l \in Locks
      PROVE  /\ writer[l] = r /\ ~owned[l] => At(r, "Lock", l)'
             /\ r \in blocked[l] => At(r, "RLock", l)' /\ writer[l] # Nobody
  BY DEF LockInv, WaitInv
<1>2. QED
  BY <1>1 DEF WaitInv

(* A goroutine whose next step is not Lock does not wait for a lock, and   *)
(* is blocked only at RLock.                                               *)
LEMMA NotWaiting ==
    ASSUME TypeOK, LockInv, NEW t \in Threads, NEW op, NEW k \in Locks, At(t, op, k)
    PROVE  /\ op # "Lock" => \A l \in Locks : writer[l] = t => owned[l]
           /\ \A l \in Locks : t \in blocked[l] => op = "RLock" /\ k = l /\ writer[l] # Nobody
<1>1. ASSUME NEW l \in Locks, writer[l] = t, ~owned[l] PROVE op = "Lock"
  <2>1. At(t, "Lock", l)
    BY <1>1 DEF LockInv, WaitInv
  <2>2. QED
    BY <2>1, AtUnique
<1>2. ASSUME NEW l \in Locks, t \in blocked[l] PROVE op = "RLock" /\ k = l /\ writer[l] # Nobody
  <2>1. At(t, "RLock", l) /\ writer[l] # Nobody
    BY <1>2 DEF LockInv, WaitInv
  <2>2. QED
    BY <2>1, AtUnique
<1>3. QED
  BY <1>1, <1>2

(* RLock: nobody owns the lock. *)
LEMMA RLockStep ==
    ASSUME TypeOK, LockInv, NEW t \in Threads, NEW l \in Locks, RLock(t, l)
    PROVE  TypeOK' /\ LockInv'
<1>1. /\ At(t, "RLock", l) /\ writer[l] = Nobody /\ Advance({t})
      /\ readers' = [readers EXCEPT ![l][t] = @ + 1]
      /\ UNCHANGED <<call, blocked, writer, owned>>
  BY DEF RLock
<1>2. "RLock" \in Ops
  BY DEF Ops
<1>3. /\ pos' \in [Threads -> 1..MaxSteps] /\ InMethods'
      /\ \A r \in Threads \ {t}, k \in Locks :
            /\ ReadDepth(r, k)' = ReadDepth(r, k) /\ (HasLock(r, k)' <=> HasLock(r, k))
            /\ At(r, "Lock", k)' <=> At(r, "Lock", k)
            /\ At(r, "RLock", k)' <=> At(r, "RLock", k)
      /\ \A k \in Locks :
            /\ ReadDepth(t, k)' = ReadDepth(t, k) + (IF l = k THEN 1 ELSE 0)
            /\ HasLock(t, k)' <=> HasLock(t, k)
  BY <1>1, <1>2, AdvanceEffect
<1>4. readers[l][t] \in {0, 1} /\ ~owned[l]
  BY <1>1, AtAllowed DEF LockInv, AloneInv
<1>5. ASSUME NEW k \in Locks, NEW r \in Threads
      PROVE  /\ readers'[k][r] = (IF k = l /\ r = t THEN readers[l][t] + 1 ELSE readers[k][r])
             /\ readers[k][r] \in 0..2 /\ readers[k][r] = ReadDepth(r, k)
  BY <1>1 DEF TypeOK, LockInv, ReadersInv
<1>6. TypeOK'
  <2>1. readers' \in [Locks -> [Threads -> 0..2]]
    BY <1>1, <1>4 DEF TypeOK
  <2>2. QED
    BY <1>1, <1>3, <2>1 DEF TypeOK, Advance
<1>7. ReadersInv'
  <2>1. ASSUME NEW k \in Locks, NEW r \in Threads PROVE readers'[k][r] = ReadDepth(r, k)'
    <3>1. CASE r = t
      BY <1>3, <1>5, <3>1
    <3>2. CASE r # t
      BY <1>3, <1>5, <3>2
    <3>3. QED
      BY <3>1, <3>2
  <2>2. QED
    BY <2>1 DEF ReadersInv
<1>8. OwnerInv'
  BY <1>1, <1>3 DEF LockInv, OwnerInv
<1>9. AloneInv'
  BY <1>1, <1>4, <1>5 DEF LockInv, AloneInv
<1>10. WaitInv'
  <2>1. \A k \in Locks : t \notin blocked[k] /\ (writer[k] = t => owned[k])
    BY <1>1, NotWaiting
  <2>2. QED
    BY <1>1, <1>3, <2>1, WaitKept
<1>11. QED
  BY <1>3, <1>6, <1>7, <1>8, <1>9, <1>10 DEF LockInv

(* RUnlock, Read, Write: what others hold is unchanged. *)
LEMMA RUnlockStep ==
    ASSUME TypeOK, LockInv, NEW t \in Threads, NEW l \in Locks, RUnlock(t, l)
    PROVE  TypeOK' /\ LockInv'
<1>1. /\ At(t, "RUnlock", l) /\ Advance({t})
      /\ readers' = [readers EXCEPT ![l][t] = @ - 1]
      /\ UNCHANGED <<call, blocked, writer, owned>>
  BY DEF RUnlock
<1>2. "RUnlock" \in Ops
  BY DEF Ops
<1>3. /\ pos' \in [Threads -> 1..MaxSteps] /\ InMethods'
      /\ \A r \in Threads \ {t}, k \in Locks :
            /\ ReadDepth(r, k)' = ReadDepth(r, k) /\ (HasLock(r, k)' <=> HasLock(r, k))
            /\ At(r, "Lock", k)' <=> At(r, "Lock", k)
            /\ At(r, "RLock", k)' <=> At(r, "RLock", k)
      /\ \A k \in Locks :
            /\ ReadDepth(t, k)' = ReadDepth(t, k) + (IF l = k THEN -1 ELSE 0)
            /\ HasLock(t, k)' <=> HasLock(t, k)
  BY <1>1, <1>2, AdvanceEffect
<1>4. readers[l][t] \in {1, 2} /\ ~owned[l]
  <2>1. readers[l][t] \in {1, 2}
    BY <1>1, AtAllowed
  <2>2. QED
    BY <2>1 DEF LockInv, AloneInv
<1>5. ASSUME NEW k \in Locks, NEW r \in Threads
      PROVE  /\ readers'[k][r] = (IF k = l /\ r = t THEN readers[l][t] - 1 ELSE readers[k][r])
             /\ readers[k][r] \in 0..2 /\ readers[k][r] = ReadDepth(r, k)
  BY <1>1 DEF TypeOK, LockInv, ReadersInv
<1>6. TypeOK'
  <2>1. readers' \in [Locks -> [Threads -> 0..2]]
    BY <1>1, <1>4 DEF TypeOK
  <2>2. QED
    BY <1>1, <1>3, <2>1 DEF TypeOK, Advance
<1>7. ReadersInv'
  <2>1. ASSUME NEW k \in Locks, NEW r \in Threads PROVE readers'[k][r] = ReadDepth(r, k)'
    <3>1. CASE r = t
      BY <1>3, <1>5, <3>1
    <3>2. CASE r # t
      BY <1>3, <1>5, <3>2
    <3>3. QED
      BY <3>1, <3>2
  <2>2. QED
    BY <2>1 DEF ReadersInv
<1>8. OwnerInv'
  BY <1>1, <1>3 DEF LockInv, OwnerInv
<1>9. AloneInv'
  BY <1>1, <1>4, <1>5 DEF LockInv, AloneInv
<1>10. WaitInv'
  <2>1. \A k \in Locks : t \notin blocked[k] /\ (writer[k] = t => owned[k])
    BY <1>1, NotWaiting
  <2>2. QED
    BY <1>1, <1>3, <2>1, WaitKept
<1>11. QED
  BY <1>3, <1>6, <1>7, <1>8, <1>9, <1>10 DEF LockInv

(* Reading or writing the data under a lock changes no lock. *)
LEMMA AccessStep ==
    ASSUME TypeOK, LockInv, NEW t \in Threads, NEW l \in Locks, Access(t, l)
    PROVE  TypeOK' /\ LockInv'
<1>1. PICK op \in {"Read", "Write"} : At(t, op, l)
  BY DEF Access
<1>2. Advance({t}) /\ UNCHANGED <<call, readers, blocked, writer, owned>>
  BY DEF Access, lockVars
<1>3. op \in Ops
  BY DEF Ops
<1>4. /\ pos' \in [Threads -> 1..MaxSteps] /\ InMethods'
      /\ \A r \in Threads \ {t}, k \in Locks :
            /\ ReadDepth(r, k)' = ReadDepth(r, k) /\ (HasLock(r, k)' <=> HasLock(r, k))
            /\ At(r, "Lock", k)' <=> At(r, "Lock", k)
            /\ At(r, "RLock", k)' <=> At(r, "RLock", k)
      /\ \A k \in Locks :
            /\ ReadDepth(t, k)' = ReadDepth(t, k) + 0
            /\ HasLock(t, k)' <=> HasLock(t, k)
  BY <1>1, <1>2, <1>3, AdvanceEffect
<1>5. TypeOK'
  BY <1>2, <1>4 DEF TypeOK, Advance
<1>6. ReadersInv'
  <2>1. \A k \in Locks, r \in Threads : readers[k][r] \in 0..2 /\ readers[k][r] = ReadDepth(r, k)
    BY DEF TypeOK, LockInv, ReadersInv
  <2>2. \A k \in Locks, r \in Threads : ReadDepth(r, k)' = ReadDepth(r, k)
    BY <1>4, <2>1
  <2>3. QED
    BY <1>2, <2>1, <2>2 DEF ReadersInv
<1>7. OwnerInv' /\ AloneInv'
  BY <1>2, <1>4 DEF LockInv, OwnerInv, AloneInv
<1>8. WaitInv'
  <2>1. \A k \in Locks : t \notin blocked[k] /\ (writer[k] = t => owned[k])
    BY <1>1, NotWaiting
  <2>2. QED
    BY <1>2, <1>4, <2>1, WaitKept
<1>9. QED
  BY <1>4, <1>5, <1>6, <1>7, <1>8 DEF LockInv

-----------------------------------------------------------------------------
(* Waiting moves nobody. *)
LEMMA StandStill ==
    ASSUME TypeOK, LockInv, UNCHANGED <<pkg, call, pos, readers, owned>>
    PROVE  /\ InMethods' /\ ReadersInv'
           /\ \A r \in Threads, k \in Locks :
                 /\ HasLock(r, k)' <=> HasLock(r, k)
                 /\ At(r, "Lock", k)' <=> At(r, "Lock", k)
                 /\ At(r, "RLock", k)' <=> At(r, "RLock", k)
<1>1. \A r \in Threads : Steps(r)' = Steps(r)
  BY DEF Steps
<1>2. InMethods'
  BY <1>1 DEF LockInv, InMethods
<1>3. ReadersInv'
  BY <1>1 DEF LockInv, ReadersInv, ReadDepth
<1>4. \A r \in Threads, k \in Locks :
         /\ HasLock(r, k)' <=> HasLock(r, k)
         /\ At(r, "Lock", k)' <=> At(r, "Lock", k)
         /\ At(r, "RLock", k)' <=> At(r, "RLock", k)
  BY <1>1 DEF HasLock, At
<1>5. QED
  BY <1>2, <1>3, <1>4

(* RLock behind a writer: t is about to take the read lock. *)
LEMMA RLockBlocksStep ==
    ASSUME TypeOK, LockInv, NEW t \in Threads, NEW l \in Locks, RLockBlocks(t, l)
    PROVE  TypeOK' /\ LockInv'
<1>1. /\ At(t, "RLock", l) /\ writer[l] # Nobody
      /\ blocked' = [blocked EXCEPT ![l] = @ \cup {t}]
      /\ UNCHANGED <<pkg, call, pos, readers, writer, owned>>
  BY DEF RLockBlocks
<1>2. /\ InMethods' /\ ReadersInv'
      /\ \A r \in Threads, k \in Locks :
            /\ HasLock(r, k)' <=> HasLock(r, k)
            /\ At(r, "Lock", k)' <=> At(r, "Lock", k)
            /\ At(r, "RLock", k)' <=> At(r, "RLock", k)
  BY <1>1, StandStill
<1>3. TypeOK'
  BY <1>1 DEF TypeOK
<1>4. OwnerInv' /\ AloneInv'
  BY <1>1, <1>2 DEF LockInv, OwnerInv, AloneInv
<1>5. \A k \in Locks : blocked'[k] = IF k = l THEN blocked[k] \cup {t} ELSE blocked[k]
  BY <1>1 DEF TypeOK
<1>6. ASSUME NEW r \in Threads, NEW k \in Locks
      PROVE  /\ writer[k] = r /\ ~owned[k] => At(r, "Lock", k)'
             /\ r \in blocked'[k] => At(r, "RLock", k)' /\ writer[k] # Nobody
  BY <1>1, <1>2, <1>5 DEF LockInv, WaitInv
<1>7. WaitInv'
  BY <1>1, <1>6 DEF WaitInv
<1>8. QED
  BY <1>2, <1>3, <1>4, <1>7 DEF LockInv

(* Lock, first half: the announced writer is about to take the lock. *)
LEMMA LockAnnounceStep ==
    ASSUME TypeOK, LockInv, NEW t \in Threads, NEW l \in Locks, LockAnnounce(t, l)
    PROVE  TypeOK' /\ LockInv'
<1>1. /\ At(t, "Lock", l) /\ writer[l] = Nobody
      /\ writer' = [writer EXCEPT ![l] = t]
      /\ UNCHANGED <<pkg, call, pos, readers, blocked, owned>>
  BY DEF LockAnnounce
<1>2. /\ InMethods' /\ ReadersInv'
      /\ \A r \in Threads, k \in Locks :
            /\ HasLock(r, k)' <=> HasLock(r, k)
            /\ At(r, "Lock", k)' <=> At(r, "Lock", k)
            /\ At(r, "RLock", k)' <=> At(r, "RLock", k)
  BY <1>1, StandStill
<1>3. ~owned[l] /\ t # Nobody
  BY <1>1, BundleLocksAssumption DEF LockInv, AloneInv
<1>4. TypeOK'
  BY <1>1 DEF TypeOK
<1>5. \A k \in Locks : writer'[k] = IF k = l THEN t ELSE writer[k]
  BY <1>1 DEF TypeOK
<1>6. ASSUME NEW r \in Threads, NEW k \in Locks
      PROVE  owned[k] /\ writer'[k] = r <=> HasLock(r, k)'
  BY <1>2, <1>3, <1>5 DEF LockInv, OwnerInv
<1>7. OwnerInv'
  BY <1>1, <1>6 DEF OwnerInv
<1>8. AloneInv'
  BY <1>1, <1>3, <1>5 DEF LockInv, AloneInv
<1>9. ASSUME NEW r \in Threads, NEW k \in Locks
      PROVE  /\ writer'[k] = r /\ ~owned[k] => At(r, "Lock", k)'
             /\ r \in blocked[k] => At(r, "RLock", k)' /\ writer'[k] # Nobody
  BY <1>1, <1>2, <1>3, <1>5 DEF LockInv, WaitInv
<1>10. WaitInv'
  BY <1>1, <1>9 DEF WaitInv
<1>11. QED
  BY <1>2, <1>4, <1>7, <1>8, <1>10 DEF LockInv

(* Lock, second half: there is no reader, and no other writer. *)
LEMMA LockAcquireStep ==
    ASSUME TypeOK, LockInv, NEW t \in Threads, NEW l \in Locks, LockAcquire(t, l)
    PROVE  TypeOK' /\ LockInv'
<1>1. /\ At(t, "Lock", l) /\ writer[l] = t /\ Advance({t})
      /\ \A r \in Threads : readers[l][r] = 0
      /\ owned' = [owned EXCEPT ![l] = TRUE]
      /\ UNCHANGED <<call, readers, blocked, writer>>
  BY DEF LockAcquire
<1>2. "Lock" \in Ops
  BY DEF Ops
<1>3. /\ pos' \in [Threads -> 1..MaxSteps] /\ InMethods'
      /\ \A r \in Threads \ {t}, k \in Locks :
            /\ ReadDepth(r, k)' = ReadDepth(r, k) /\ (HasLock(r, k)' <=> HasLock(r, k))
            /\ At(r, "Lock", k)' <=> At(r, "Lock", k)
            /\ At(r, "RLock", k)' <=> At(r, "RLock", k)
      /\ \A k \in Locks :
            /\ ReadDepth(t, k)' = ReadDepth(t, k) + 0
            /\ HasLock(t, k)' <=> l = k \/ HasLock(t, k)
  BY <1>1, <1>2, AdvanceEffect
<1>4. ~owned[l] /\ t # Nobody
  BY <1>1, AtAllowed, BundleLocksAssumption
<1>5. TypeOK'
  BY <1>1, <1>3 DEF TypeOK, Advance
<1>6. ReadersInv'
  <2>1. \A k \in Locks, r \in Threads : readers[k][r] \in 0..2 /\ readers[k][r] = ReadDepth(r, k)
    BY DEF TypeOK, LockInv, ReadersInv
  <2>2. \A k \in Locks, r \in Threads : ReadDepth(r, k)' = ReadDepth(r, k)
    BY <1>3, <2>1
  <2>3. QED
    BY <1>1, <2>1, <2>2 DEF ReadersInv
<1>7. \A k \in Locks : owned'[k] <=> k = l \/ owned[k]
  BY <1>1 DEF TypeOK
<1>8. ASSUME NEW r \in Threads, NEW k \in Locks
      PROVE  owned'[k] /\ writer[k] = r <=> HasLock(r, k)'
  <2>1. CASE r = t
    BY <1>1, <1>3, <1>7, <2>1 DEF LockInv, OwnerInv
  <2>2. CASE r # t
    BY <1>1, <1>3, <1>4, <1>7, <2>2 DEF LockInv, OwnerInv
  <2>3. QED
    BY <2>1, <2>2
<1>9. OwnerInv'
  BY <1>1, <1>8 DEF OwnerInv
<1>10. AloneInv'
  BY <1>1, <1>4, <1>7 DEF LockInv, AloneInv
<1>11. ASSUME NEW k \in Locks, writer[k] = t, ~owned[k] PROVE k = l
  <2>1. At(t, "Lock", k)
    BY <1>11 DEF LockInv, WaitInv
  <2>2. QED
    BY <1>1, <2>1, AtUnique
<1>12. \A k \in Locks : t \notin blocked[k]
  BY <1>1, NotWaiting
<1>13. ASSUME NEW r \in Threads, NEW k \in Locks
       PROVE  /\ writer[k] = r /\ ~owned'[k] => At(r, "Lock", k)'
              /\ r \in blocked[k] => At(r, "RLock", k)' /\ writer[k] # Nobody
  <2>1. CASE r = t
    BY <1>7, <1>11, <1>12, <2>1
  <2>2. CASE r # t
    BY <1>3, <1>7, <2>2 DEF LockInv, WaitInv
  <2>3. QED
    BY <2>1, <2>2
<1>14. WaitInv'
  BY <1>1, <1>13 DEF WaitInv
<1>15. QED
  BY <1>3, <1>5, <1>6, <1>9, <1>10, <1>14 DEF LockInv

(* Unlock: the blocked goroutines become readers, each of one lock. *)
LEMMA UnlockStep ==
    ASSUME TypeOK, LockInv, NEW t \in Threads, NEW l \in Locks, Unlock(t, l)
    PROVE  TypeOK' /\ LockInv'
<1> DEFINE B == blocked[l]
           T == {t} \cup B
<1>1. /\ At(t, "Unlock", l) /\ Advance(T) /\ UNCHANGED call
      /\ owned' = [owned EXCEPT ![l] = FALSE]
      /\ writer' = [writer EXCEPT ![l] = Nobody]
      /\ readers' = [readers EXCEPT ![l] =
                        [r \in Threads |-> IF r \in B THEN @[r] + 1 ELSE @[r]]]
      /\ blocked' = [blocked EXCEPT ![l] = {}]
  BY DEF Unlock
<1>2. B \in SUBSET Threads /\ T \in SUBSET Threads
  BY DEF TypeOK
<1>3. \A r \in B : At(r, "RLock", l)
  BY <1>2 DEF LockInv, WaitInv
<1>4. "Unlock" \in Ops /\ "RLock" \in Ops
  BY DEF Ops
<1>5. t \notin B
  BY <1>1, NotWaiting
<1> HIDE DEF B
<1>6. /\ pos' \in [Threads -> 1..MaxSteps] /\ InMethods'
      /\ \A r \in Threads \ T, k \in Locks :
            /\ ReadDepth(r, k)' = ReadDepth(r, k) /\ (HasLock(r, k)' <=> HasLock(r, k))
            /\ At(r, "Lock", k)' <=> At(r, "Lock", k)
            /\ At(r, "RLock", k)' <=> At(r, "RLock", k)
      /\ \A r \in T, op \in Ops, h \in Locks, k \in Locks :
            At(r, op, h) =>
              /\ ReadDepth(r, k)' = ReadDepth(r, k) + (IF op = "RLock" /\ h = k THEN 1
                                                     ELSE IF op = "RUnlock" /\ h = k THEN -1
                                                     ELSE 0)
              /\ HasLock(r, k)' <=>
                    (op = "Lock" /\ h = k) \/ (HasLock(r, k) /\ ~(op = "Unlock" /\ h = k))
  BY <1>1, <1>2, <1>3, <1>4, AdvanceEffect
<1>7. \A k \in Locks :
         /\ ReadDepth(t, k)' = ReadDepth(t, k) + 0
         /\ HasLock(t, k)' <=> HasLock(t, k) /\ k # l
  BY <1>1, <1>4, <1>6
<1>8. \A r \in B, k \in Locks :
         /\ ReadDepth(r, k)' = ReadDepth(r, k) + (IF l = k THEN 1 ELSE 0)
         /\ HasLock(r, k)' <=> HasLock(r, k)
  BY <1>3, <1>4, <1>6
<1>9. owned[l] /\ writer[l] = t /\ \A r \in Threads : readers[l][r] = 0
  BY <1>1, AtAllowed DEF LockInv, AloneInv
<1>10. ASSUME NEW k \in Locks, NEW r \in Threads
       PROVE  /\ readers'[k][r] = (IF k = l /\ r \in B THEN readers[k][r] + 1 ELSE readers[k][r])
              /\ readers[k][r] \in 0..2 /\ readers[k][r] = ReadDepth(r, k)
  BY <1>1 DEF TypeOK, LockInv, ReadersInv
<1>11. TypeOK'
  <2>1. [r \in Threads |-> IF r \in B THEN readers[l][r] + 1 ELSE readers[l][r]]
            \in [Threads -> 0..2]
    BY <1>9
  <2>2. readers' \in [Locks -> [Threads -> 0..2]]
    BY <1>1, <2>1 DEF TypeOK
  <2>3. writer' \in [Locks -> Threads \cup {Nobody}] /\ owned' \in [Locks -> BOOLEAN]
    BY <1>1 DEF TypeOK
  <2>4. blocked' \in [Locks -> SUBSET Threads]
    BY <1>1 DEF TypeOK
  <2>5. QED
    BY <1>1, <1>6, <2>2, <2>3, <2>4 DEF TypeOK, Advance
<1>12. ReadersInv'
  <2>1. ASSUME NEW k \in Locks, NEW r \in Threads PROVE readers'[k][r] = ReadDepth(r, k)'
    <3>1. CASE r = t
      BY <1>5, <1>7, <1>10, <3>1
    <3>2. CASE r \in B
      BY <1>8, <1>10, <3>2
    <3>3. CASE r \notin T
      BY <1>6, <1>10, <3>3
    <3>4. QED
      BY <3>1, <3>2, <3>3
  <2>2. QED
    BY <2>1 DEF ReadersInv
<1>13. \A k \in Locks :
          /\ owned'[k] <=> k # l /\ owned[k]
          /\ writer'[k] = IF k = l THEN Nobody ELSE writer[k]
          /\ blocked'[k] = IF k = l THEN {} ELSE blocked[k]
  BY <1>1 DEF TypeOK
<1>14. ASSUME NEW r \in Threads, NEW k \in Locks
       PROVE  owned'[k] /\ writer'[k] = r <=> HasLock(r, k)'
  <2>1. owned[k] /\ writer[k] = r <=> HasLock(r, k)
    BY DEF LockInv, OwnerInv
  <2>2. CASE r = t
    BY <1>7, <1>13, <2>1, <2>2
  <2>3. CASE r # t
    <3>1. HasLock(r, k)' <=> HasLock(r, k)
      BY <1>6, <1>8, <2>3
    <3>2. QED
      BY <1>9, <1>13, <2>1, <2>3, <3>1
  <2>4. QED
    BY <2>2, <2>3
<1>15. OwnerInv'
  BY <1>14 DEF OwnerInv
<1>16. AloneInv'
  <2>1. ASSUME NEW k \in Locks, owned'[k]
        PROVE  writer'[k] # Nobody /\ \A r \in Threads : readers'[k][r] = 0
    <3>1. k # l /\ owned[k]
      BY <1>13, <2>1
    <3>2. writer[k] # Nobody /\ \A r \in Threads : readers[k][r] = 0
      BY <3>1 DEF LockInv, AloneInv
    <3>3. QED
      BY <1>10, <1>13, <3>1, <3>2
  <2>2. QED
    BY <2>1 DEF AloneInv
<1>17. ASSUME NEW r \in Threads, NEW k \in Locks, k # l
       PROVE  /\ writer[k] = r /\ ~owned[k] => r \notin T
              /\ r \in blocked[k] => r \notin T
  <2>1. ASSUME writer[k] = r, ~owned[k] PROVE r \notin T
    <3>1. r # t
      BY <1>1, <2>1, NotWaiting
    <3>2. r \notin B
      BY <1>3, <2>1, NotWaiting
    <3>3. QED
      BY <3>1, <3>2
  <2>2. ASSUME r \in blocked[k] PROVE r \notin T
    <3>1. r # t
      BY <1>1, <2>2, NotWaiting
    <3>2. r \notin B
      BY <1>3, <1>17, <2>2, NotWaiting
    <3>3. QED
      BY <3>1, <3>2
  <2>3. QED
    BY <2>1, <2>2
<1>18. ASSUME NEW r \in Threads, NEW k \in Locks
       PROVE  /\ writer'[k] = r /\ ~owned'[k] => At(r, "Lock", k)'
              /\ r \in blocked'[k] => At(r, "RLock", k)' /\ writer'[k] # Nobody
  <2>1. CASE k = l
    BY <1>13, <2>1, BundleLocksAssumption
  <2>2. CASE k # l
    BY <1>6, <1>13, <1>17, <2>2 DEF LockInv, WaitInv
  <2>3. QED
    BY <2>1, <2>2
<1>19. WaitInv'
  BY <1>18 DEF WaitInv
<1>20. QED
  BY <1>6, <1>11, <1>12, <1>15, <1>16, <1>19 DEF LockInv

-----------------------------------------------------------------------------
(* Only t changes methods; before and after it holds nothing. *)
LEMMA CallChanges ==
    ASSUME TypeOK, LockInv, NEW t \in Threads, UNCHANGED <<pkg, lockVars>>,
           InMethods', TypeOK',
           \A r \in Threads \ {t} : call'[r] = call[r] /\ pos'[r] = pos[r],
           \A l \in Locks : /\ ReadDepth(t, l) = 0 /\ ~HasLock(t, l)
                            /\ ReadDepth(t, l)' = 0 /\ ~HasLock(t, l)'
                            /\ ~At(t, "Lock", l) /\ ~At(t, "RLock", l)
    PROVE  TypeOK' /\ LockInv'
<1>1. UNCHANGED <<pkg, readers, blocked, writer, owned>>
  BY DEF lockVars
<1>2. ASSUME NEW r \in Threads \ {t}, NEW l \in Locks
      PROVE  /\ ReadDepth(r, l)' = ReadDepth(r, l)
             /\ HasLock(r, l)' <=> HasLock(r, l)
             /\ At(r, "Lock", l)' <=> At(r, "Lock", l)
             /\ At(r, "RLock", l)' <=> At(r, "RLock", l)
  <2>1. Steps(r)' = Steps(r) /\ call'[r] = call[r] /\ pos'[r] = pos[r]
    BY <1>1 DEF Steps
  <2>2. QED
    BY <2>1 DEF ReadDepth, HasLock, At
<1>3. ReadersInv' /\ OwnerInv' /\ AloneInv'
  BY <1>1, <1>2 DEF LockInv, ReadersInv, OwnerInv, AloneInv
<1>4. \A l \in Locks : t \notin blocked[l] /\ (writer[l] = t => owned[l])
  BY DEF LockInv, WaitInv
<1>5. WaitInv'
  BY <1>1, <1>2, <1>4, WaitKept
<1>6. QED
  BY <1>3, <1>5 DEF LockInv

(* A call starts a method of the package at its first step. *)
LEMMA CallStep ==
    ASSUME TypeOK, LockInv, NEW t \in Threads, Call(t)
    PROVE  TypeOK' /\ LockInv'
<1>1. call[t] = "none" /\ UNCHANGED <<pkg, pos, lockVars>>
  BY DEF Call
<1>2. PICK m \in Methods \cap DOMAIN Body[pkg] : call' = [call EXCEPT ![t] = m]
  BY DEF Call
<1>3. TypeOK'
  BY <1>1, <1>2 DEF TypeOK, lockVars
<1>4. call'[t] = m /\ \A r \in Threads \ {t} : call'[r] = call[r] /\ pos'[r] = pos[r]
  BY <1>1, <1>2 DEF TypeOK
<1>5. pos[t] = 1 /\ pos'[t] = 1
  BY <1>1 DEF LockInv, InMethods
<1>6. Balanced(Body[pkg][m])
  BY BodiesLocked, BundleLocksAssumption DEF TypeOK
<1>7. 1 \in 1 .. Len(Body[pkg][m]) + 1
  BY <1>6 DEF Balanced
<1>8. InMethods'
  <2>1. ASSUME NEW r \in Threads
        PROVE  /\ call'[r] = "none" => pos'[r] = 1
               /\ call'[r] # "none" => /\ call'[r] \in DOMAIN Body[pkg]
                                       /\ pos'[r] \in 1 .. Len(Body[pkg][call'[r]]) + 1
    <3>1. CASE r = t
      BY <1>4, <1>5, <1>7, <3>1
    <3>2. CASE r # t
      BY <1>4, <3>2 DEF LockInv, InMethods, Steps
    <3>3. QED
      BY <3>1, <3>2
  <2>2. QED
    BY <1>1, <2>1 DEF InMethods, Steps
<1>9. \A l \in Locks : /\ ReadDepth(t, l) = 0 /\ ~HasLock(t, l)
                       /\ ReadDepth(t, l)' = 0 /\ ~HasLock(t, l)'
                       /\ ~At(t, "Lock", l) /\ ~At(t, "RLock", l)
  BY <1>1, <1>5, DepthFirst DEF ReadDepth, HasLock, At
<1>10. QED
  BY <1>1, <1>3, <1>4, <1>8, <1>9, CallChanges

(* A method that returns has given back its locks. *)
LEMMA ReturnStep ==
    ASSUME TypeOK, LockInv, NEW t \in Threads, Return(t)
    PROVE  TypeOK' /\ LockInv'
<1>1. /\ call[t] # "none" /\ pos[t] > Len(Steps(t)) /\ UNCHANGED <<pkg, lockVars>>
      /\ call' = [call EXCEPT ![t] = "none"] /\ pos' = [pos EXCEPT ![t] = 1]
  BY DEF Return
<1>2. /\ call'[t] = "none" /\ pos'[t] = 1
      /\ \A r \in Threads \ {t} : call'[r] = call[r] /\ pos'[r] = pos[r]
  BY <1>1 DEF TypeOK
<1>3. 1 \in 1..MaxSteps
  BY DEF MaxSteps
<1>4. TypeOK'
  BY <1>1, <1>3 DEF TypeOK, lockVars
<1>5. InMethods'
  <2>1. ASSUME NEW r \in Threads
        PROVE  /\ call'[r] = "none" => pos'[r] = 1
               /\ call'[r] # "none" => /\ call'[r] \in DOMAIN Body[pkg]
                                       /\ pos'[r] \in 1 .. Len(Body[pkg][call'[r]]) + 1
    <3>1. CASE r = t
      BY <1>2, <3>1
    <3>2. CASE r # t
      BY <1>2, <3>2 DEF LockInv, InMethods, Steps
    <3>3. QED
      BY <3>1, <3>2
  <2>2. QED
    BY <1>1, <2>1 DEF InMethods, Steps
<1>6. Balanced(Steps(t)) /\ pos[t] \in 1 .. Len(Steps(t)) + 1
  BY <1>1, BodiesLocked, BundleLocksAssumption DEF LockInv, InMethods, Steps, TypeOK
<1>7. Len(Steps(t)) \in 0..9 /\ pos[t] = Len(Steps(t)) + 1
  BY <1>1, <1>6 DEF Balanced
<1>8. \A l \in Locks : Depth(Steps(t), pos[t], l) = 0 /\ ~Holds(Steps(t), pos[t], l)
  BY <1>6, <1>7 DEF Balanced
<1>9. ~(pos[t] <= Len(Steps(t)))
  BY <1>7
<1>10. \A l \in Locks : /\ ReadDepth(t, l) = 0 /\ ~HasLock(t, l)
                        /\ ReadDepth(t, l)' = 0 /\ ~HasLock(t, l)'
                        /\ ~At(t, "Lock", l) /\ ~At(t, "RLock", l)
  BY <1>1, <1>2, <1>8, <1>9 DEF ReadDepth, HasLock, At
<1>11. QED
  BY <1>1, <1>2, <1>4, <1>5, <1>10, CallChanges

-----------------------------------------------------------------------------
(* At first nobody is in a method. *)
LEMMA LocksInit == Init => TypeOK /\ LockInv
<1> SUFFICES ASSUME Init PROVE TypeOK /\ LockInv
  OBVIOUS
<1>1. 1 \in 1..MaxSteps /\ 0 \in 0..2
  BY DEF MaxSteps
<1>2. TypeOK
  BY <1>1 DEF Init, TypeOK
<1>3. LockInv
  BY BundleLocksAssumption
     DEF Init, LockInv, InMethods, ReadersInv, ReadDepth, OwnerInv, HasLock, AloneInv, WaitInv
<1>4. QED
  BY <1>2, <1>3

(* What each goroutine holds follows from where it is, at every moment. *)
LEMMA LocksInvariant == Spec => [](TypeOK /\ LockInv)
<1>1. TypeOK /\ LockInv /\ [Next]_vars => TypeOK' /\ LockInv'
  <2> SUFFICES ASSUME TypeOK, LockInv, [Next]_vars PROVE TypeOK' /\ LockInv'
    OBVIOUS
  <2>1. CASE UNCHANGED vars
    <3>1. UNCHANGED <<pkg, call, pos, readers, blocked, writer, owned>>
      BY <2>1 DEF vars, lockVars
    <3>2. TypeOK'
      BY <3>1 DEF TypeOK
    <3>3. /\ InMethods' /\ ReadersInv'
          /\ \A r \in Threads, k \in Locks :
                /\ HasLock(r, k)' <=> HasLock(r, k)
                /\ At(r, "Lock", k)' <=> At(r, "Lock", k)
                /\ At(r, "RLock", k)' <=> At(r, "RLock", k)
      BY <3>1, StandStill
    <3>4. OwnerInv' /\ AloneInv' /\ WaitInv'
      BY <3>1, <3>3 DEF LockInv, OwnerInv, AloneInv, WaitInv
    <3>5. QED
      BY <3>2, <3>3, <3>4 DEF LockInv
  <2>2. CASE Next
    <3>1. PICK t \in Threads : Call(t) \/ Progress(t)
      BY <2>2 DEF Next
    <3>2. CASE Call(t)
      BY <3>2, CallStep
    <3>3. CASE Return(t)
      BY <3>3, ReturnStep
    <3>4. CASE Announce(t)
      BY <3>4, LockAnnounceStep DEF Announce
    <3>5. ASSUME NEW l \in Locks,
                 RLock(t, l) \/ RLockBlocks(t, l) \/ RUnlock(t, l)
                   \/ LockAcquire(t, l) \/ Unlock(t, l) \/ Access(t, l)
          PROVE  TypeOK' /\ LockInv'
      BY <3>5, RLockStep, RLockBlocksStep, RUnlockStep, LockAcquireStep, UnlockStep, AccessStep
    <3>6. QED
      BY <3>1, <3>2, <3>3, <3>4, <3>5 DEF Progress
  <2>3. QED
    BY <2>1, <2>2
<1>2. QED
  BY <1>1, LocksInit, PTL DEF Spec

(* TypeOK for any goroutines, packages and methods: in particular no       *)
(* counter of an RWMutex goes negative or beyond two, so no method unlocks *)
(* what it does not hold.                                                  *)
THEOREM LocksTypeCorrect == Spec => []TypeOK
BY LocksInvariant, PTL

(* Among any number of goroutines in methods of the five packages, the     *)
(* only accesses that race are the reads of Equal and of the two getters   *)
(* that take no lock: every writer owns the lock of what it writes, and    *)
(* every other reader holds it shared or owns it.                          *)
THEOREM LocksPreventRaces == Spec => []OnlyUnlockedReadsRace
<1>1. TypeOK /\ LockInv => OnlyUnlockedReadsRace
  <2> SUFFICES ASSUME TypeOK, LockInv, NEW t \in Threads, NEW r \in Threads, NEW l \in Locks,
                      Race(t, r, l)
               PROVE  call[r] \in Unlocked /\ At(r, "Read", l)
    BY DEF OnlyUnlockedReadsRace
  <2>1. t # r /\ At(t, "Write", l) /\ (At(r, "Write", l) \/ At(r, "Read", l))
    BY DEF Race
  <2>2. owned[l] /\ writer[l] = t
    BY <2>1, AtAllowed
  <2>3. readers[l][r] = 0
    BY <2>2 DEF LockInv, AloneInv
  <2>4. ~At(r, "Write", l)
    BY <2>1, <2>2, AtAllowed
  <2>5. ASSUME At(r, "Read", l), call[r] \notin Unlocked PROVE FALSE
    <3>1. readers[l][r] > 0 \/ writer[l] = r
      BY <2>5, AtAllowed
    <3>2. QED
      BY <2>1, <2>2, <2>3, <3>1
  <2>6. QED
    BY <2>1, <2>4, <2>5
<1>2. QED
  BY <1>1, LocksInvariant, PTL
=============================================================================
