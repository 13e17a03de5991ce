----------------------------- MODULE BundleStore -----------------------------
(***************************************************************************)
(* Who owns the authorities: BundleSource (workloadapi/bundlesource.go)    *)
(* hands bundles to the application, which edits them, takes lists out of  *)
(* them, puts lists into them and makes bundles of bundles, while the      *)
(* Workload API keeps updating the source (bundle/spiffebundle,            *)
(* bundle/x509bundle, bundle/jwtbundle, internal/x509util,                 *)
(* internal/jwtutil).  Slices and maps are references, so every operation  *)
(* is written with the cell its result refers to: a fresh one where the    *)
(* code copies.                                                            *)
(*                                                                         *)
(* A location is a field or a variable with a slice (X.509) or a map       *)
(* (JWT); its contents are a set of authorities.  Every operation holds    *)
(* the lock of its object (BundleLocks) and is one step.                   *)
(***************************************************************************)
EXTENDS Naturals

CONSTANTS TDs, Slots, Authorities, Nil

VARIABLES
    sent,   \* by kind and trust domain: what the Workload API sent last
    tds,    \* by slot: the trust domain of the bundle in it, or Nil
    refs,   \* by location: the cell it refers to, or Nil
    heap    \* by cell: the authorities in it

vars == <<sent, tds, refs, heap>>

Kinds == {"x509", "jwt"}

(* The maps of the source; the fields of the bundle in a slot, which is a  *)
(* SPIFFE bundle if it has both; the application's lists.                  *)
SourceLoc(k, td) == <<"source", k, td>>
BundleLoc(b, k) == <<"bundle", k, b>>
SliceLoc(k) == <<"slice", k, Nil>>

Locations ==
    {SourceLoc(k, td) : k \in Kinds, td \in TDs}
        \cup {BundleLoc(b, k) : b \in Slots, k \in Kinds}
        \cup {SliceLoc(k) : k \in Kinds}

(* Cells are named after the location they were made for.  Bound: a cell   *)
(* is reused once nothing refers to it, so that two per location do.       *)
Cells == Locations \X {0, 1}

ASSUME BundleStoreAssumption ==
    /\ Nil \notin TDs \cup Slots \cup Cells
    /\ \A v \in SUBSET Authorities : v # Nil

Init ==
    /\ sent = [k \in Kinds |-> [td \in TDs |-> Nil]]
    /\ tds = [b \in Slots |-> Nil]
    /\ refs = [l \in Locations |-> Nil]
    /\ heap = [c \in Cells |-> {}]

-----------------------------------------------------------------------------
(* References *)

(* What a location holds. *)
Deref(l) == IF refs[l] = Nil THEN Nil ELSE heap[refs[l]]

(* A cell for location l that nothing but the locations of S refers to. *)
FreshCell(l, S) == CHOOSE c \in {l} \X {0, 1} : \A m \in Locations \ S : refs[m] # c

(* The locations of S are assigned copies of the values, made by           *)
(* CopyX509Authorities and CopyJWTAuthorities, or nil; garbage is cleared. *)
AssignCopies(S, values) ==
    LET made == [l \in {m \in S : values[m] # Nil} |-> FreshCell(l, S)] IN
    /\ refs' = [l \in Locations |->
                   IF l \in DOMAIN made THEN made[l] ELSE IF l \in S THEN Nil ELSE refs[l]]
    /\ heap' = [c \in Cells |->
                   IF \E l \in DOMAIN made : made[l] = c
                   THEN values[c[1]]
                   ELSE IF \E m \in Locations \ S : refs[m] = c THEN heap[c] ELSE {}]

(* A bundle in slot b: by kind, a copy of the value or no such field. *)
AssignBundle(b, td, values) ==
    /\ tds' = [tds EXCEPT ![b] = td]
    /\ AssignCopies({BundleLoc(b, k) : k \in Kinds},
                    [l \in {BundleLoc(b, k) : k \in Kinds} |-> values[l[2]]])
    /\ UNCHANGED sent

IsSPIFFEBundle(b) == \A k \in Kinds : refs[BundleLoc(b, k)] # Nil

-----------------------------------------------------------------------------
(* The source *)

(* Mutant: trust domains that are gone stay. *)
SetSourceKeeps(k, bundles) ==
    /\ sent' = [sent EXCEPT ![k] = bundles]
    /\ LET S == {SourceLoc(k, td) : td \in {t \in TDs : bundles[t] # Nil}} IN
       AssignCopies(S, [l \in S |-> bundles[l[3]]])
    /\ UNCHANGED tds

(* setX509Context and setJWTBundles: the trust domains of the update are   *)
(* added or replaced, then those not in it are deleted.                    *)
SetSource(k, bundles) ==
    /\ sent' = [sent EXCEPT ![k] = bundles]
    /\ LET S == {SourceLoc(k, td) : td \in TDs} IN
       AssignCopies(S, [l \in S |-> bundles[l[3]]])
    /\ UNCHANGED tds

(* BundleSource.GetBundleForTrustDomain: a new bundle, of which the kinds  *)
(* the source has are set.                                                 *)
GetBundleForTrustDomain(b, td) ==
    /\ \E k \in Kinds : refs[SourceLoc(k, td)] # Nil
    /\ AssignBundle(b, td, [k \in Kinds |-> IF refs[SourceLoc(k, td)] = Nil
                                            THEN {}
                                            ELSE Deref(SourceLoc(k, td))])

(* BundleSource.GetX509BundleForTrustDomain and                            *)
(* GetJWTBundleForTrustDomain: FromX509Authorities and FromJWTAuthorities  *)
(* of what the source has.                                                 *)
GetKindBundleForTrustDomain(b, td, kind) ==
    /\ refs[SourceLoc(kind, td)] # Nil
    /\ AssignBundle(b, td, [k \in Kinds |-> IF k = kind THEN Deref(SourceLoc(kind, td)) ELSE Nil])

-----------------------------------------------------------------------------
(* Bundles *)

(* Mutant: a clone keeps the JWT authorities of the bundle it is made of. *)
CloneShares(b, from) ==
    /\ tds[from] # Nil
    /\ tds' = [tds EXCEPT ![b] = tds[from]]
    /\ refs' = [l \in Locations |->
                   IF l \in {BundleLoc(b, k) : k \in Kinds} THEN refs[BundleLoc(from, l[2])] ELSE refs[l]]
    /\ UNCHANGED <<sent, heap>>

(* Clone *)
Clone(b, from) ==
    /\ tds[from] # Nil
    /\ AssignBundle(b, tds[from], [k \in Kinds |-> Deref(BundleLoc(from, k))])

(* X509Bundle and JWTBundle of a SPIFFE bundle, also as its                *)
(* GetX509BundleForTrustDomain and GetJWTBundleForTrustDomain.             *)
KindBundle(b, from, kind) ==
    /\ IsSPIFFEBundle(from)
    /\ AssignBundle(b, tds[from], [k \in Kinds |-> IF k = kind THEN Deref(BundleLoc(from, k)) ELSE Nil])

(* FromX509Bundle and FromJWTBundle: the other kind is empty. *)
FromKindBundle(b, from, kind) ==
    /\ refs[BundleLoc(from, kind)] # Nil /\ ~IsSPIFFEBundle(from)
    /\ AssignBundle(b, tds[from], [k \in Kinds |-> IF k = kind THEN Deref(BundleLoc(from, k)) ELSE {}])

(* FromX509Authorities and FromJWTAuthorities of x509bundle and jwtbundle, *)
(* and of spiffebundle.                                                    *)
FromAuthorities(b, td, kind, other) ==
    /\ refs[SliceLoc(kind)] # Nil
    /\ AssignBundle(b, td, [k \in Kinds |-> IF k = kind THEN Deref(SliceLoc(kind)) ELSE other])

(* X509Authorities and JWTAuthorities. *)
GetAuthorities(b, k) ==
    /\ refs[BundleLoc(b, k)] # Nil
    /\ AssignCopies({SliceLoc(k)}, [l \in {SliceLoc(k)} |-> Deref(BundleLoc(b, k))])
    /\ UNCHANGED <<sent, tds>>

(* SetX509Authorities and SetJWTAuthorities. *)
SetAuthorities(b, k) ==
    /\ refs[BundleLoc(b, k)] # Nil /\ refs[SliceLoc(k)] # Nil
    /\ AssignCopies({BundleLoc(b, k)}, [l \in {BundleLoc(b, k)} |-> Deref(SliceLoc(k))])
    /\ UNCHANGED <<sent, tds>>

(* The cell a location refers to is written. *)
Write(l, contents) ==
    /\ heap' = [heap EXCEPT ![refs[l]] = contents]
    /\ UNCHANGED <<sent, tds, refs>>

(* AddX509Authority, AddJWTAuthority; RemoveX509Authority,                 *)
(* RemoveJWTAuthority: in place.                                           *)
AddAuthority(b, k, a) ==
    /\ refs[BundleLoc(b, k)] # Nil
    /\ Write(BundleLoc(b, k), Deref(BundleLoc(b, k)) \cup {a})

RemoveAuthority(b, k, a) ==
    /\ refs[BundleLoc(b, k)] # Nil
    /\ Write(BundleLoc(b, k), Deref(BundleLoc(b, k)) \ {a})

-----------------------------------------------------------------------------
(* The application makes a list of its own, and edits a list it has. *)
MakeSlice(k, contents) ==
    /\ AssignCopies({SliceLoc(k)}, [l \in {SliceLoc(k)} |-> contents])
    /\ UNCHANGED <<sent, tds>>

EditSlice(k, a) ==
    /\ refs[SliceLoc(k)] # Nil
    /\ \E v \in {Deref(SliceLoc(k)) \cup {a}, Deref(SliceLoc(k)) \ {a}} : Write(SliceLoc(k), v)

Values == SUBSET Authorities

Next ==
    \/ \E k \in Kinds, bundles \in [TDs -> Values \cup {Nil}] : SetSource(k, bundles)
    \/ \E b \in Slots, td \in TDs : GetBundleForTrustDomain(b, td)
    \/ \E b \in Slots, td \in TDs, k \in Kinds : GetKindBundleForTrustDomain(b, td, k)
    \/ \E b, from \in Slots : Clone(b, from)
    \/ \E b, from \in Slots, k \in Kinds : KindBundle(b, from, k) \/ FromKindBundle(b, from, k)
    \/ \E b \in Slots, td \in TDs, k \in Kinds, other \in {{}, Nil} : FromAuthorities(b, td, k, other)
    \/ \E b \in Slots, k \in Kinds : GetAuthorities(b, k) \/ SetAuthorities(b, k)
    \/ \E b \in Slots, k \in Kinds, a \in Authorities : AddAuthority(b, k, a) \/ RemoveAuthority(b, k, a)
    \/ \E k \in Kinds, v \in Values : MakeSlice(k, v)
    \/ \E k \in Kinds, a \in Authorities : EditSlice(k, a)

Spec == Init /\ [][Next]_vars

-----------------------------------------------------------------------------
(* Properties *)

(* Whatever the application does with the bundles and lists it got, the    *)
(* source serves exactly what the Workload API sent last: no authority     *)
(* comes back, gets in or is lost by an edit of a copy, and those of a     *)
(* trust domain that is gone are gone.                                     *)
SourceServesLatest ==
    \A k \in Kinds, td \in TDs : Deref(SourceLoc(k, td)) = sent[k][td]

(* The references behave as values would: every operation changes only the *)
(* location it is applied to and hands over what the other location has    *)
(* at that moment.                                                         *)
Abstract == INSTANCE BundleValues WITH val <- [l \in Locations |-> Deref(l)]

ImplementsValues == Abstract!Spec
=============================================================================
