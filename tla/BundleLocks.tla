------------------------------ MODULE BundleLocks ------------------------------
(***************************************************************************)
(* The locking of the bundle packages, spiffebundle, x509bundle, jwtbundle *)
(* and witbundle, and of the sources that hold sets of bundles             *)
(* (workloadapi/bundlesource.go, witsource.go, x509source.go and           *)
(* jwtsource.go).                                                          *)
(*                                                                         *)
(* A method is the sequence of its lock operations and of its accesses to  *)
(* the fields a lock guards.  Goroutines call methods of one package, in   *)
(* any order, for ever.  "bundle" is one Bundle, "set" a Set that contains *)
(* it, "source" a source that holds the set.  A few methods take no lock   *)
(* for what they read (Unlocked).  The sources' checkClosed has a mutex of *)
(* its own, released before the method goes on; it is part of Source.      *)
(*                                                                         *)
(* sync.RWMutex is external: as it documents, a blocked Lock call excludes *)
(* new readers, "to ensure that the lock eventually becomes available".    *)
(***************************************************************************)
EXTENDS Integers, Sequences

CONSTANTS
    Threads,  \* goroutines
    Packages, \* packages whose methods they call
    Methods,  \* names of the methods they call
    Nobody    \* no writer

Locks == {"bundle", "set", "source"}

VARIABLES
    pkg,      \* the package all goroutines use
    call,     \* call[t]: the method t is in, "none" between calls
    pos,      \* pos[t]: the step of that method t takes next
    readers,  \* readers[l][t]: read locks t holds on l
    blocked,  \* blocked[l]: goroutines whose RLock waits for a writer
    writer,   \* writer[l]: who holds or waits for l exclusively
    owned     \* owned[l]: that writer has it

lockVars == <<readers, blocked, writer, owned>>
vars == <<pkg, call, pos, lockVars>>

-----------------------------------------------------------------------------
(* The methods *)

Step(op, l) == [op |-> op, lock |-> l]

Guarded(l) == <<Step("RLock", l), Step("Read", l), Step("RUnlock", l)>>
Exclusive(l) == <<Step("Lock", l), Step("Write", l), Step("Unlock", l)>>

(* X509Authorities, Find..., Has..., Empty, RefreshHint, SequenceNumber,   *)
(* Marshal, Clone, X509Bundle, JWTBundle, WITBundle,                       *)
(* GetBundleForTrustDomain, and Get...ForTrustDomain for a trust domain    *)
(* that is not the bundle's.                                               *)
BundleReader == Guarded("bundle")

(* Mutant: a mutator that takes the read lock. *)
BundleWriterShared ==
    <<Step("RLock", "bundle"), Step("Write", "bundle"), Step("RUnlock", "bundle")>>

(* Add..., Remove..., Set...Authorities, Set/ClearRefreshHint and           *)
(* Set/ClearSequenceNumber.                                                *)
BundleWriter == Exclusive("bundle")

(* GetX509BundleForTrustDomain, GetJWTBundleForTrustDomain and             *)
(* GetWITBundleForTrustDomain for the bundle's trust domain: the read lock *)
(* is held while X509Bundle, JWTBundle or WITBundle takes it again.        *)
BundleGetForTrustDomain == <<Step("RLock", "bundle")>> \o Guarded("bundle")
                               \o <<Step("RUnlock", "bundle")>>

(* Bundle.Equal compares the fields of two bundles without their locks. *)
BundleEqual == <<Step("Read", "bundle")>>

(* Mutant: a nil bundle makes Add return without its Unlock. *)
SetWriterLeaks == <<Step("Lock", "set"), Step("Write", "set")>>

(* Has, Get, Bundles, Len, GetBundleForTrustDomain. *)
SetReader == Guarded("set")

(* Add, Remove. *)
SetWriter == Exclusive("set")

(* Mutant: unlocks by hand and again by defer. *)
SetGetForTrustDomainTwice ==
    <<Step("RLock", "set"), Step("Read", "set")>> \o Guarded("bundle")
        \o <<Step("RUnlock", "set"), Step("RUnlock", "set")>>

(* Set.GetX509BundleForTrustDomain, GetJWTBundleForTrustDomain and         *)
(* GetWITBundleForTrustDomain: the bundle is read under the set's lock.    *)
SetGetForTrustDomain ==
    <<Step("RLock", "set"), Step("Read", "set")>> \o Guarded("bundle")
        \o <<Step("RUnlock", "set")>>

(* x509bundle.Bundle: X509Authorities, HasX509Authority, Empty, Marshal,   *)
(* Clone; AddX509Authority, RemoveX509Authority, SetX509Authorities; and   *)
(* GetX509BundleForTrustDomain, which only reads the immutable trust       *)
(* domain; and Equal.                                                      *)
X509BundleReader == Guarded("bundle")
X509BundleWriter == Exclusive("bundle")
X509BundleGetForTrustDomain == <<>>
X509BundleEqual == <<Step("Read", "bundle")>>

(* jwtbundle.Bundle and witbundle.Bundle: JWTAuthorities, FindJWTAuthority, *)
(* HasJWTAuthority, Empty, Marshal, Clone and GetJWTBundleForTrustDomain;  *)
(* AddJWTAuthority, RemoveJWTAuthority, SetJWTAuthorities; and Equal.      *)
JWTBundleReader == Guarded("bundle")
JWTBundleWriter == Exclusive("bundle")
JWTBundleEqual == <<Step("Read", "bundle")>>
WITBundleReader == Guarded("bundle")
WITBundleWriter == Exclusive("bundle")
WITBundleEqual == <<Step("Read", "bundle")>>

(* The Set of these packages: its Get...ForTrustDomain returns the bundle  *)
(* without looking into it.                                                *)
X509SetReader == Guarded("set")
X509SetWriter == Exclusive("set")
JWTSetReader == Guarded("set")
JWTSetWriter == Exclusive("set")
WITSetReader == Guarded("set")
WITSetWriter == Exclusive("set")

(* BundleSource.setX509Context and setJWTBundles: the new set and its      *)
(* bundles are read while the source is locked.                            *)
SetX509Context ==
    <<Step("Lock", "source")>> \o Guarded("set") \o Guarded("bundle")
        \o <<Step("Write", "source"), Step("Unlock", "source")>>

(* BundleSource.Get...ForTrustDomain, WITSource.GetWITSVIDForID and        *)
(* X509Source.GetX509SVID.                                                 *)
SourceReader == Guarded("source")

(* WITSource.OnWITSVIDsUpdate and OnWITBundlesUpdate, setX509Context of    *)
(* X509Source, setJWTBundles of JWTSource.                                 *)
SourceWriter == Exclusive("source")

(* WITSource.GetWITBundleForTrustDomain asks the set under its own lock. *)
SourceGetForTrustDomain ==
    <<Step("RLock", "source"), Step("Read", "source")>> \o WITSetReader
        \o <<Step("RUnlock", "source")>>

(* X509Source.GetX509BundleForTrustDomain and                              *)
(* JWTSource.GetJWTBundleForTrustDomain read the set without the source's  *)
(* lock, and ask it under its own.                                         *)
SourceGetUnlocked == <<Step("Read", "source")>> \o Guarded("set")

Body ==
    [spiffebundle |->
        [BundleReader |-> BundleReader,
         BundleWriter |-> BundleWriter,
         BundleGetForTrustDomain |-> BundleGetForTrustDomain,
         BundleEqual |-> BundleEqual,
         SetReader |-> SetReader,
         SetWriter |-> SetWriter,
         SetGetForTrustDomain |-> SetGetForTrustDomain],
     x509bundle |->
        [BundleReader |-> X509BundleReader,
         BundleWriter |-> X509BundleWriter,
         BundleGetOwn |-> X509BundleGetForTrustDomain,
         BundleEqual |-> X509BundleEqual,
         SetReader |-> X509SetReader,
         SetWriter |-> X509SetWriter],
     jwtbundle |->
        [BundleReader |-> JWTBundleReader,
         BundleWriter |-> JWTBundleWriter,
         BundleEqual |-> JWTBundleEqual,
         SetReader |-> JWTSetReader,
         SetWriter |-> JWTSetWriter],
     witbundle |->
        [BundleReader |-> WITBundleReader,
         BundleWriter |-> WITBundleWriter,
         BundleEqual |-> WITBundleEqual,
         SetReader |-> WITSetReader,
         SetWriter |-> WITSetWriter],
     workloadapi |->
        [BundleWriter |-> WITBundleWriter,
         SetX509Context |-> SetX509Context,
         SourceReader |-> SourceReader,
         SourceWriter |-> SourceWriter,
         SourceGetForTrustDomain |-> SourceGetForTrustDomain,
         SourceGetUnlocked |-> SourceGetUnlocked]]

(* The methods that read guarded fields without the lock that guards them. *)
Unlocked == {"BundleEqual", "SourceGetUnlocked"}

MethodNames == UNION {DOMAIN Body[p] : p \in DOMAIN Body}

ASSUME BundleLocksAssumption ==
    /\ Packages \subseteq DOMAIN Body
    /\ Methods \subseteq MethodNames
    /\ Nobody \notin Threads

MaxSteps == 10

TypeOK ==
    /\ pkg \in Packages
    /\ call \in [Threads -> Methods \cup {"none"}]
    /\ pos \in [Threads -> 1..MaxSteps]
    /\ readers \in [Locks -> [Threads -> 0..2]]
    /\ blocked \in [Locks -> SUBSET Threads]
    /\ writer \in [Locks -> Threads \cup {Nobody}]
    /\ owned \in [Locks -> BOOLEAN]

Init ==
    /\ pkg \in Packages
    /\ call = [t \in Threads |-> "none"]
    /\ pos = [t \in Threads |-> 1]
    /\ readers = [l \in Locks |-> [t \in Threads |-> 0]]
    /\ blocked = [l \in Locks |-> {}]
    /\ writer = [l \in Locks |-> Nobody]
    /\ owned = [l \in Locks |-> FALSE]

-----------------------------------------------------------------------------
(* The steps of the method t is in. *)
Steps(t) == Body[pkg][call[t]]

(* t's next step is op on l. *)
At(t, op, l) ==
    /\ call[t] # "none"
    /\ pos[t] <= Len(Steps(t))
    /\ Steps(t)[pos[t]] = Step(op, l)

Advance(T) ==
    /\ pos' = [t \in Threads |-> IF t \in T THEN pos[t] + 1 ELSE pos[t]]
    /\ UNCHANGED pkg

Call(t) ==
    /\ call[t] = "none"
    /\ \E m \in Methods \cap DOMAIN Body[pkg] : call' = [call EXCEPT ![t] = m]
    /\ UNCHANGED <<pkg, pos, lockVars>>

Return(t) ==
    /\ call[t] # "none"
    /\ pos[t] > Len(Steps(t))
    /\ call' = [call EXCEPT ![t] = "none"]
    /\ pos' = [pos EXCEPT ![t] = 1]
    /\ UNCHANGED <<pkg, lockVars>>

(* RWMutex.RLock, no writer in sight. *)
RLock(t, l) ==
    /\ At(t, "RLock", l)
    /\ writer[l] = Nobody
    /\ readers' = [readers EXCEPT ![l][t] = @ + 1]
    /\ Advance({t})
    /\ UNCHANGED <<call, blocked, writer, owned>>

(* RWMutex.RLock behind a writer that holds the lock or waits for it. *)
RLockBlocks(t, l) ==
    /\ At(t, "RLock", l)
    /\ writer[l] # Nobody
    /\ t \notin blocked[l]
    /\ blocked' = [blocked EXCEPT ![l] = @ \cup {t}]
    /\ UNCHANGED <<pkg, call, pos, readers, writer, owned>>

RUnlock(t, l) ==
    /\ At(t, "RUnlock", l)
    /\ readers' = [readers EXCEPT ![l][t] = @ - 1]
    /\ Advance({t})
    /\ UNCHANGED <<call, blocked, writer, owned>>

(* RWMutex.Lock: announce the writer, then wait for the readers to leave. *)
LockAnnounce(t, l) ==
    /\ At(t, "Lock", l)
    /\ writer[l] = Nobody
    /\ writer' = [writer EXCEPT ![l] = t]
    /\ UNCHANGED <<pkg, call, pos, readers, blocked, owned>>

LockAcquire(t, l) ==
    /\ At(t, "Lock", l)
    /\ writer[l] = t
    /\ \A r \in Threads : readers[l][r] = 0
    /\ owned' = [owned EXCEPT ![l] = TRUE]
    /\ Advance({t})
    /\ UNCHANGED <<call, readers, blocked, writer>>

(* RWMutex.Unlock admits the readers that were blocked. *)
Unlock(t, l) ==
    /\ At(t, "Unlock", l)
    /\ owned' = [owned EXCEPT ![l] = FALSE]
    /\ writer' = [writer EXCEPT ![l] = Nobody]
    /\ readers' = [readers EXCEPT ![l] =
                      [r \in Threads |-> IF r \in blocked[l] THEN @[r] + 1 ELSE @[r]]]
    /\ blocked' = [blocked EXCEPT ![l] = {}]
    /\ Advance({t} \cup blocked[l])
    /\ UNCHANGED call

Access(t, l) ==
    /\ At(t, "Read", l) \/ At(t, "Write", l)
    /\ Advance({t})
    /\ UNCHANGED <<call, lockVars>>

(* Wait for the writer's lock: the one step that others can keep disabling. *)
Announce(t) == \E l \in Locks : LockAnnounce(t, l)

Progress(t) ==
    \/ Return(t)
    \/ Announce(t)
    \/ \E l \in Locks : RLock(t, l) \/ RLockBlocks(t, l) \/ RUnlock(t, l)
                           \/ LockAcquire(t, l) \/ Unlock(t, l) \/ Access(t, l)

Next == \E t \in Threads : Call(t) \/ Progress(t)

(* Goroutines are scheduled; sync.Mutex, which orders the writers, does    *)
(* not starve a waiter.                                                    *)
Fairness == \A t \in Threads : WF_vars(Progress(t)) /\ SF_vars(Announce(t))

Spec == Init /\ [][Next]_vars /\ Fairness

-----------------------------------------------------------------------------
(* Properties *)

(* t writes what r accesses, and nothing orders the two. *)
Race(t, r, l) ==
    t # r /\ At(t, "Write", l) /\ (At(r, "Write", l) \/ At(r, "Read", l))

(* The locks order all accesses to the fields of a Bundle, a Set or a      *)
(* source but for the reads of the methods that take none:                 *)
(* X509Source.GetX509BundleForTrustDomain,                                 *)
(* JWTSource.GetJWTBundleForTrustDomain and Equal.  Every race that the    *)
(* race detector can report is one of these reads beside a write; no two   *)
(* writes conflict, and two methods that hold a lock never race.           *)
OnlyUnlockedReadsRace ==
    \A t, r \in Threads, l \in Locks :
        Race(t, r, l) => call[r] \in Unlocked /\ At(r, "Read", l)

(* Every call of a method returns, whatever methods other goroutines call  *)
(* on the same objects at the same time: "GetX509BundleForTrustDomain      *)
(* returns the X.509 bundle for the given trust domain" (and the like).    *)
CallsReturn == \A t \in Threads : call[t] # "none" ~> call[t] = "none"
=============================================================================
