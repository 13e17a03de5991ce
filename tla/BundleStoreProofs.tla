--------------------------- MODULE BundleStoreProofs ---------------------------
(***************************************************************************)
(* Proofs about BundleStore: a location refers to nothing but a cell of    *)
(* its own, so that no two share one, whatever the application does; from  *)
(* that, the source serves what was sent last and the references behave as *)
(* values would.                                                           *)
(***************************************************************************)
EXTENDS BundleStore, TLAPS

(* The inductive invariant: the cell of a location was made for it. *)
OwnCells ==
    /\ refs \in [Locations -> Cells \cup {Nil}]
    /\ heap \in [Cells -> Values]
    /\ \A l \in Locations : refs[l] # Nil => refs[l] \in {l} \X {0, 1}

(* What the Workload API sends is of this type. *)
SentOK == sent \in [Kinds -> [TDs -> Values \cup {Nil}]]

-----------------------------------------------------------------------------
(* What operations do to the values in the locations *)

(* A nil slice or map is neither a list of authorities nor a reference to  *)
(* one.                                                                    *)
LEMMA NilIsNoValue == Nil \notin Values /\ Nil \notin Cells
BY BundleStoreAssumption DEF Values

(* The cell that an allocation for a location gets is one of the           *)
(* location's own two.                                                     *)
LEMMA FreshCellType ==
    ASSUME OwnCells, NEW S \in SUBSET Locations, NEW l \in S
    PROVE  FreshCell(l, S) \in {l} \X {0, 1}
<1>1. <<l, 0>> \in {l} \X {0, 1}
  OBVIOUS
<1>2. ASSUME NEW m \in Locations \ S PROVE refs[m] # <<l, 0>>
  <2>1. CASE refs[m] = Nil
    BY <2>1, NilIsNoValue DEF Cells
  <2>2. CASE refs[m] # Nil
    <3>1. PICK x \in {m} \X {0, 1} : refs[m] = x
      BY <2>2 DEF OwnCells
    <3>2. x[1] = m
      BY <3>1
    <3>3. QED
      BY <3>1, <3>2
  <2>3. QED
    BY <2>1, <2>2
<1>3. \E c \in {l} \X {0, 1} : \A m \in Locations \ S : refs[m] # c
  BY <1>1, <1>2
<1>4. QED
  BY <1>3 DEF FreshCell

(* AssignCopies gives the locations of S their values and no other         *)
(* location another one.                                                   *)
LEMMA AssignCopiesValues ==
    ASSUME OwnCells, NEW S \in SUBSET Locations, NEW values,
           \A l \in S : values[l] \in Values \cup {Nil},
           AssignCopies(S, values)
    PROVE  /\ OwnCells'
           /\ \A l \in Locations : Deref(l)' = IF l \in S THEN values[l] ELSE Deref(l)
<1> DEFINE made == [l \in {m \in S : values[m] # Nil} |-> FreshCell(l, S)]
<1>1. /\ refs' = [l \in Locations |->
                     IF l \in DOMAIN made THEN made[l] ELSE IF l \in S THEN Nil ELSE refs[l]]
      /\ heap' = [c \in Cells |->
                     IF \E l \in DOMAIN made : made[l] = c
                     THEN values[c[1]]
                     ELSE IF \E m \in Locations \ S : refs[m] = c THEN heap[c] ELSE {}]
  BY DEF AssignCopies
<1>2. \A l \in DOMAIN made : made[l] \in {l} \X {0, 1}
  BY FreshCellType
<1>3. DOMAIN made = {m \in S : values[m] # Nil}
  OBVIOUS
<1> HIDE DEF made
<1>4. \A l \in DOMAIN made : made[l] \in Cells /\ made[l][1] = l
  BY <1>2, <1>3 DEF Cells
<1>5. \A c \in Cells : c[1] \in Locations
  BY DEF Cells
<1>6. OwnCells'
  <2>1. refs' \in [Locations -> Cells \cup {Nil}]
    BY <1>1, <1>4 DEF OwnCells
  <2>2. heap' \in [Cells -> Values]
    <3>1. ASSUME NEW c \in Cells, NEW l \in DOMAIN made, made[l] = c PROVE values[c[1]] \in Values
      BY <3>1, <1>3, <1>4
    <3>2. {} \in Values
      BY DEF Values
    <3>3. QED
      BY <1>1, <3>1, <3>2 DEF OwnCells
  <2>3. \A l \in Locations : refs'[l] # Nil => refs'[l] \in {l} \X {0, 1}
    BY <1>1, <1>2, <1>3 DEF OwnCells
  <2>4. QED
    BY <2>1, <2>2, <2>3 DEF OwnCells
<1>7. ASSUME NEW l \in Locations PROVE Deref(l)' = IF l \in S THEN values[l] ELSE Deref(l)
  <2>1. CASE l \in DOMAIN made
    <3>1. refs'[l] = made[l] /\ made[l] \in Cells /\ made[l] # Nil
      BY <1>1, <1>4, <2>1, NilIsNoValue
    <3>2. heap'[made[l]] = values[l]
      BY <1>1, <1>4, <2>1
    <3>3. QED
      BY <1>3, <2>1, <3>1, <3>2 DEF Deref
  <2>2. CASE l \in S /\ l \notin DOMAIN made
    BY <1>1, <1>3, <2>2 DEF Deref
  <2>3. CASE l \notin S
    <3>1. refs'[l] = refs[l]
      BY <1>1, <1>3, <2>3
    <3>2. ASSUME refs[l] # Nil PROVE heap'[refs[l]] = heap[refs[l]]
      <4>1. refs[l] \in Cells /\ refs[l][1] = l
        BY <3>2 DEF OwnCells, Cells
      <4>2. ~\E m \in DOMAIN made : made[m] = refs[l]
        BY <1>3, <1>4, <2>3, <4>1
      <4>3. QED
        BY <1>1, <2>3, <4>1, <4>2
    <3>3. QED
      BY <2>3, <3>1, <3>2 DEF Deref
  <2>4. QED
    BY <2>1, <2>2, <2>3
<1>8. QED
  BY <1>6, <1>7

(* Write changes the value of one location. *)
LEMMA WriteValue ==
    ASSUME OwnCells, NEW l \in Locations, refs[l] # Nil, NEW v \in Values, Write(l, v)
    PROVE  /\ OwnCells'
           /\ \A m \in Locations : Deref(m)' = IF m = l THEN v ELSE Deref(m)
<1>1. heap' = [heap EXCEPT ![refs[l]] = v] /\ refs' = refs
  BY DEF Write
<1>2. \A m \in Locations : refs[m] # Nil => refs[m] \in Cells /\ refs[m][1] = m
  BY DEF OwnCells, Cells
<1>3. OwnCells'
  BY <1>1 DEF OwnCells
<1>4. ASSUME NEW m \in Locations PROVE Deref(m)' = IF m = l THEN v ELSE Deref(m)
  BY <1>1, <1>2 DEF Deref, OwnCells
<1>5. QED
  BY <1>3, <1>4

(* A bundle is made: its locations get the values, no other location does. *)
LEMMA AssignBundleValues ==
    ASSUME OwnCells, NEW b \in Slots, NEW td, NEW values,
           \A k \in Kinds : values[k] \in Values \cup {Nil},
           AssignBundle(b, td, values)
    PROVE  /\ OwnCells'
           /\ sent' = sent
           /\ \A l \in Locations :
                 Deref(l)' = IF l \in {BundleLoc(b, k) : k \in Kinds} THEN values[l[2]] ELSE Deref(l)
<1> DEFINE S == {BundleLoc(b, k) : k \in Kinds}
           new == [l \in S |-> values[l[2]]]
<1>1. S \in SUBSET Locations
  BY DEF Locations
<1>2. \A l \in S : new[l] = values[l[2]] /\ l[2] \in Kinds
  BY DEF BundleLoc
<1>3. \A l \in S : new[l] \in Values \cup {Nil}
  BY <1>2
<1>4. AssignCopies(S, new) /\ sent' = sent
  BY DEF AssignBundle
<1> HIDE DEF S, new
<1>5. OwnCells' /\ \A l \in Locations : Deref(l)' = IF l \in S THEN new[l] ELSE Deref(l)
  BY <1>1, <1>3, <1>4, AssignCopiesValues
<1>6. QED
  BY <1>2, <1>4, <1>5 DEF S

(* What a location holds is a value; the locations of the source are none  *)
(* of the application's.                                                   *)
LEMMA DerefType ==
    ASSUME OwnCells, NEW l \in Locations
    PROVE  Deref(l) \in Values \cup {Nil} /\ (refs[l] # Nil => Deref(l) \in Values)
BY DEF OwnCells, Deref

(* The places that belong to the source are never the fields of a bundle   *)
(* or a list of the application.                                           *)
LEMMA LocationsApart ==
    ASSUME NEW k \in Kinds
    PROVE  /\ SliceLoc(k) \in Locations
           /\ \A b \in Slots : BundleLoc(b, k) \in Locations
           /\ \A td \in TDs : SourceLoc(k, td) \in Locations
           /\ \A j \in Kinds, td \in TDs :
                 /\ SourceLoc(j, td) # SliceLoc(k)
                 /\ \A b \in Slots : SourceLoc(j, td) # BundleLoc(b, k)
BY DEF Locations, SourceLoc, BundleLoc, SliceLoc

-----------------------------------------------------------------------------
(* Refinement: the abstract specification of values *)

(* The two specifications name the same places and values. *)
LEMMA AbstractDefs ==
    /\ Abstract!Locations = Locations
    /\ Abstract!Kinds = Kinds
    /\ Abstract!Values = Values
    /\ \A k, td : Abstract!SourceLoc(k, td) = SourceLoc(k, td)
    /\ \A k, b : Abstract!BundleLoc(b, k) = BundleLoc(b, k)
    /\ \A k : Abstract!SliceLoc(k) = SliceLoc(k)
BY DEF Abstract!Locations, Locations, Abstract!Kinds, Kinds, Abstract!Values, Values,
   Abstract!SourceLoc, SourceLoc, Abstract!BundleLoc, BundleLoc, Abstract!SliceLoc, SliceLoc

(* An assignment that gives the places in S new values and keeps the       *)
(* others is an abstract assignment.                                       *)
LEMMA AbstractAssign ==
    ASSUME NEW S, NEW new,
           \A l \in Locations : Deref(l)' = IF l \in S THEN new[l] ELSE Deref(l)
    PROVE  Abstract!Assign(S, new)
BY AbstractDefs DEF Abstract!Assign

(* The values in the source stay as they are. *)
SourceKept ==
    /\ sent' = sent
    /\ \A k \in Kinds, td \in TDs : Deref(SourceLoc(k, td))' = Deref(SourceLoc(k, td))

(* A bundle made of what the locations from[k] hold is taken from them,    *)
(* and the source is left alone.                                           *)
LEMMA TakeStep ==
    ASSUME OwnCells, NEW b \in Slots, NEW td, NEW values, NEW from,
           \A k \in Kinds : from[k] \in Locations,
           \A k \in Kinds : values[k] \in {Deref(from[k]), {}, Nil},
           AssignBundle(b, td, values)
    PROVE  OwnCells' /\ SourceKept /\ Abstract!Take(b, from)
<1> DEFINE S == {BundleLoc(b, k) : k \in Kinds}
           new == [l \in S |-> values[l[2]]]
<1>1. {} \in Values
  BY DEF Values
<1>2. \A k \in Kinds : values[k] \in Values \cup {Nil}
  BY <1>1, DerefType
<1>3. /\ OwnCells'
      /\ sent' = sent
      /\ \A l \in Locations : Deref(l)' = IF l \in S THEN values[l[2]] ELSE Deref(l)
  BY <1>2, AssignBundleValues
<1>4. \A k \in Kinds : BundleLoc(b, k) \in S /\ BundleLoc(b, k)[2] = k
  BY DEF BundleLoc
<1>5. new \in [S -> Values \cup {Nil}]
  BY <1>2 DEF BundleLoc
<1>6. \A k \in Kinds : new[BundleLoc(b, k)] \in {Deref(from[k]), {}, Nil}
  BY <1>4
<1>7. Abstract!Assign(S, new)
  <2>1. \A l \in S : new[l] = values[l[2]]
    OBVIOUS
  <2> HIDE DEF S, new
  <2>2. QED
    BY <1>3, <2>1, AbstractAssign
<1>8. SourceKept
  BY <1>3, LocationsApart DEF SourceKept
<1>9. Abstract!Take(b, from)
  <2>1. S = {Abstract!BundleLoc(b, k) : k \in Abstract!Kinds}
    BY AbstractDefs
  <2> HIDE DEF S, new
  <2>2. QED
    BY <1>5, <1>6, <1>7, <2>1, AbstractDefs DEF Abstract!Take
<1>10. QED
  BY <1>3, <1>8, <1>9

(* A location of the application is assigned a copy of a value. *)
LEMMA CopyStep ==
    ASSUME OwnCells, NEW l \in Locations, NEW v \in Values,
           AssignCopies({l}, [m \in {l} |-> v]), UNCHANGED sent,
           \A k \in Kinds, td \in TDs : l # SourceLoc(k, td)
    PROVE  OwnCells' /\ SourceKept /\ Abstract!Assign({l}, [m \in {l} |-> v])
<1>1. /\ OwnCells'
      /\ \A m \in Locations : Deref(m)' = IF m \in {l} THEN [x \in {l} |-> v][m] ELSE Deref(m)
  BY AssignCopiesValues
<1>2. SourceKept
  BY <1>1, LocationsApart DEF SourceKept
<1>3. QED
  BY <1>1, <1>2, AbstractAssign

(* A location of the application is written in place. *)
LEMMA EditStep ==
    ASSUME OwnCells, NEW l \in Locations, refs[l] # Nil, l[1] # "source", NEW a \in Authorities,
           NEW v \in {Deref(l) \cup {a}, Deref(l) \ {a}}, Write(l, v)
    PROVE  OwnCells' /\ SourceKept /\ Abstract!Edit(l, a)
<1>1. Deref(l) \in Values /\ Deref(l) # Nil
  BY DerefType, NilIsNoValue
<1>2. v \in Values
  BY <1>1 DEF Values
<1>3. /\ OwnCells'
      /\ \A m \in Locations : Deref(m)' = IF m = l THEN v ELSE Deref(m)
  BY <1>2, WriteValue
<1>4. SourceKept
  BY <1>3, LocationsApart DEF SourceKept, SourceLoc, Write
<1>5. Abstract!Assign({l}, [x \in {l} |-> v])
  BY <1>3, AbstractAssign
<1>6. QED
  BY <1>1, <1>3, <1>4, <1>5 DEF Abstract!Edit

(* An update of the source replaces what it has of one kind. *)
LEMMA SetSourceStep ==
    ASSUME OwnCells, SentOK, SourceServesLatest,
           NEW kind \in Kinds, NEW bundles \in [TDs -> Values \cup {Nil}], SetSource(kind, bundles)
    PROVE  OwnCells' /\ SentOK' /\ SourceServesLatest' /\ Abstract!Update(kind)
<1> DEFINE S == {SourceLoc(kind, td) : td \in TDs}
           new == [l \in S |-> bundles[l[3]]]
<1>1. S \in SUBSET Locations
  BY DEF Locations
<1>2. \A td \in TDs : SourceLoc(kind, td) \in S /\ new[SourceLoc(kind, td)] = bundles[td]
  BY DEF SourceLoc
<1>3. \A k \in Kinds, td \in TDs : SourceLoc(k, td) \in S <=> k = kind
  BY DEF SourceLoc
<1>4. new \in [S -> Values \cup {Nil}]
  BY DEF SourceLoc
<1>5. AssignCopies(S, new) /\ sent' = [sent EXCEPT ![kind] = bundles]
  BY DEF SetSource
<1>6. S = {Abstract!SourceLoc(kind, td) : td \in TDs}
  BY AbstractDefs
<1> HIDE DEF S, new
<1>7. OwnCells' /\ \A l \in Locations : Deref(l)' = IF l \in S THEN new[l] ELSE Deref(l)
  BY <1>1, <1>4, <1>5, AssignCopiesValues
<1>8. SentOK'
  BY <1>5 DEF SentOK
<1>9. SourceServesLatest'
  <2>1. ASSUME NEW k \in Kinds, NEW td \in TDs
        PROVE  Deref(SourceLoc(k, td))' = sent'[k][td]
    <3>1. SourceLoc(k, td) \in Locations
      BY LocationsApart
    <3>2. CASE k = kind
      BY <1>2, <1>5, <1>7, <3>1, <3>2 DEF SentOK
    <3>3. CASE k # kind
      BY <1>3, <1>5, <1>7, <3>1, <3>3 DEF SentOK, SourceServesLatest
    <3>4. QED
      BY <3>2, <3>3
  <2>2. QED
    BY <2>1 DEF SourceServesLatest, Deref, SourceLoc
<1>10. Abstract!Update(kind)
  <2>1. Abstract!Assign(S, new)
    BY <1>7, AbstractAssign
  <2>2. QED
    BY <1>4, <1>6, <2>1, AbstractDefs DEF Abstract!Update
<1>11. QED
  BY <1>7, <1>8, <1>9, <1>10

(* Every step keeps the invariants and is a step of the abstract           *)
(* specification.                                                          *)
LEMMA StoreStep ==
    ASSUME OwnCells, SentOK, SourceServesLatest, Next
    PROVE  OwnCells' /\ SentOK' /\ SourceServesLatest' /\ Abstract!Next
<1> DEFINE Goal == OwnCells' /\ SentOK' /\ SourceServesLatest' /\ Abstract!Next
<1>1. ASSUME OwnCells', SourceKept, Abstract!Next PROVE Goal
  <2>1. SentOK'
    BY <1>1 DEF SourceKept, SentOK
  <2>2. SourceServesLatest'
    BY <1>1 DEF SourceKept, SourceServesLatest
  <2>3. QED
    BY <1>1, <2>1, <2>2
<1>2. ASSUME NEW k \in Kinds, NEW bundles \in [TDs -> Values \cup {Nil}], SetSource(k, bundles)
      PROVE  Goal
  <2>1. OwnCells' /\ SentOK' /\ SourceServesLatest' /\ Abstract!Update(k)
    BY <1>2, SetSourceStep
  <2>2. Abstract!Next
    BY <2>1, AbstractDefs DEF Abstract!Next
  <2>3. QED
    BY <2>1, <2>2
<1> HIDE DEF Goal
<1>3. ASSUME NEW b \in Slots, NEW td \in TDs, OwnCells' /\ SourceKept
             /\ Abstract!Take(b, [k \in Kinds |-> SourceLoc(k, td)])
      PROVE  Goal
  <2>1. [k \in Kinds |-> SourceLoc(k, td)] = [k \in Abstract!Kinds |-> Abstract!SourceLoc(k, td)]
    BY AbstractDefs
  <2>2. Abstract!Next
    BY <1>3, <2>1 DEF Abstract!Next
  <2>3. QED
    BY <1>1, <1>3, <2>2
<1>4. ASSUME NEW b \in Slots, NEW from \in Slots, OwnCells' /\ SourceKept
             /\ Abstract!Take(b, [k \in Kinds |-> BundleLoc(from, k)])
      PROVE  Goal
  <2>1. [k \in Kinds |-> BundleLoc(from, k)] = [k \in Abstract!Kinds |-> Abstract!BundleLoc(from, k)]
    BY AbstractDefs
  <2>2. Abstract!Next
    BY <1>4, <2>1 DEF Abstract!Next
  <2>3. QED
    BY <1>1, <1>4, <2>2
<1>5. ASSUME NEW b \in Slots, NEW td \in TDs, GetBundleForTrustDomain(b, td) PROVE Goal
  <2> DEFINE from == [k \in Kinds |-> SourceLoc(k, td)]
             values == [k \in Kinds |-> IF refs[SourceLoc(k, td)] = Nil
                                         THEN {}
                                         ELSE Deref(SourceLoc(k, td))]
  <2>1. \A k \in Kinds : from[k] \in Locations /\ values[k] \in {Deref(from[k]), {}, Nil}
    BY LocationsApart
  <2>2. AssignBundle(b, td, values)
    BY <1>5 DEF GetBundleForTrustDomain
  <2>3. QED
    BY <1>3, <2>1, <2>2, TakeStep
<1>6. ASSUME NEW b \in Slots, NEW td \in TDs, NEW kind \in Kinds,
             GetKindBundleForTrustDomain(b, td, kind)
      PROVE  Goal
  <2> DEFINE from == [k \in Kinds |-> SourceLoc(k, td)]
             values == [k \in Kinds |-> IF k = kind THEN Deref(SourceLoc(kind, td)) ELSE Nil]
  <2>1. \A k \in Kinds : from[k] \in Locations /\ values[k] \in {Deref(from[k]), {}, Nil}
    BY LocationsApart
  <2>2. AssignBundle(b, td, values)
    BY <1>6 DEF GetKindBundleForTrustDomain
  <2>3. QED
    BY <1>3, <2>1, <2>2, TakeStep
<1>7. ASSUME NEW b \in Slots, NEW from \in Slots, NEW values, NEW td,
             \A k \in Kinds : values[k] \in {Deref(BundleLoc(from, k)), {}, Nil},
             AssignBundle(b, td, values)
      PROVE  Goal
  <2> DEFINE locs == [k \in Kinds |-> BundleLoc(from, k)]
  <2>1. \A k \in Kinds : locs[k] \in Locations /\ values[k] \in {Deref(locs[k]), {}, Nil}
    BY <1>7, LocationsApart
  <2>2. QED
    BY <1>4, <1>7, <2>1, TakeStep
<1>8. ASSUME NEW b \in Slots, NEW from \in Slots, Clone(b, from) PROVE Goal
  <2> DEFINE values == [k \in Kinds |-> Deref(BundleLoc(from, k))]
  <2>1. \A k \in Kinds : values[k] \in {Deref(BundleLoc(from, k)), {}, Nil}
    OBVIOUS
  <2>2. AssignBundle(b, tds[from], values)
    BY <1>8 DEF Clone
  <2>3. QED
    BY <1>7, <2>1, <2>2
<1>9. ASSUME NEW b \in Slots, NEW from \in Slots, NEW kind \in Kinds, KindBundle(b, from, kind)
      PROVE  Goal
  <2> DEFINE values == [k \in Kinds |-> IF k = kind THEN Deref(BundleLoc(from, k)) ELSE Nil]
  <2>1. \A k \in Kinds : values[k] \in {Deref(BundleLoc(from, k)), {}, Nil}
    OBVIOUS
  <2>2. AssignBundle(b, tds[from], values)
    BY <1>9 DEF KindBundle
  <2>3. QED
    BY <1>7, <2>1, <2>2
<1>10. ASSUME NEW b \in Slots, NEW from \in Slots, NEW kind \in Kinds, FromKindBundle(b, from, kind)
       PROVE  Goal
  <2> DEFINE values == [k \in Kinds |-> IF k = kind THEN Deref(BundleLoc(from, k)) ELSE {}]
  <2>1. \A k \in Kinds : values[k] \in {Deref(BundleLoc(from, k)), {}, Nil}
    OBVIOUS
  <2>2. AssignBundle(b, tds[from], values)
    BY <1>10 DEF FromKindBundle
  <2>3. QED
    BY <1>7, <2>1, <2>2
<1>11. ASSUME NEW b \in Slots, NEW td \in TDs, NEW kind \in Kinds, NEW other \in {{}, Nil},
              FromAuthorities(b, td, kind, other)
       PROVE  Goal
  <2> DEFINE from == [k \in Kinds |-> SliceLoc(k)]
             values == [k \in Kinds |-> IF k = kind THEN Deref(SliceLoc(kind)) ELSE other]
  <2>1. \A k \in Kinds : from[k] \in Locations /\ values[k] \in {Deref(from[k]), {}, Nil}
    BY LocationsApart
  <2>2. AssignBundle(b, td, values)
    BY <1>11 DEF FromAuthorities
  <2>3. OwnCells' /\ SourceKept /\ Abstract!Take(b, from)
    BY <2>1, <2>2, TakeStep
  <2>4. from = [k \in Abstract!Kinds |-> Abstract!SliceLoc(k)]
    BY AbstractDefs
  <2>5. Abstract!Next
    BY <2>3, <2>4 DEF Abstract!Next
  <2>6. QED
    BY <1>1, <2>3, <2>5
<1>12. ASSUME NEW b \in Slots, NEW k \in Kinds, GetAuthorities(b, k) PROVE Goal
  <2>1. Deref(BundleLoc(b, k)) \in Values /\ Deref(BundleLoc(b, k)) # Nil
    BY <1>12, LocationsApart, DerefType, NilIsNoValue DEF GetAuthorities
  <2>2. OwnCells' /\ SourceKept
        /\ Abstract!Assign({SliceLoc(k)}, [m \in {SliceLoc(k)} |-> Deref(BundleLoc(b, k))])
    BY <1>12, <2>1, LocationsApart, CopyStep DEF GetAuthorities
  <2>3. Abstract!Copy(SliceLoc(k), BundleLoc(b, k))
    BY <2>1, <2>2, LocationsApart DEF Abstract!Copy
  <2>4. Abstract!Next
    BY <2>3, AbstractDefs DEF Abstract!Next
  <2>5. QED
    BY <1>1, <2>2, <2>4
<1>13. ASSUME NEW b \in Slots, NEW k \in Kinds, SetAuthorities(b, k) PROVE Goal
  <2>1. Deref(SliceLoc(k)) \in Values /\ Deref(SliceLoc(k)) # Nil
    BY <1>13, LocationsApart, DerefType, NilIsNoValue DEF SetAuthorities
  <2>2. OwnCells' /\ SourceKept
        /\ Abstract!Assign({BundleLoc(b, k)}, [m \in {BundleLoc(b, k)} |-> Deref(SliceLoc(k))])
    BY <1>13, <2>1, LocationsApart, CopyStep DEF SetAuthorities
  <2>3. Abstract!Copy(BundleLoc(b, k), SliceLoc(k))
    BY <2>1, <2>2, LocationsApart DEF Abstract!Copy
  <2>4. Abstract!Next
    BY <2>3, AbstractDefs DEF Abstract!Next
  <2>5. QED
    BY <1>1, <2>2, <2>4
<1>14. ASSUME NEW l \in Locations, refs[l] # Nil, l[1] # "source", NEW a \in Authorities,
              NEW v \in {Deref(l) \cup {a}, Deref(l) \ {a}}, Write(l, v)
       PROVE  Goal
  <2>1. OwnCells' /\ SourceKept /\ Abstract!Edit(l, a)
    BY <1>14, EditStep
  <2>2. Abstract!Next
    BY <1>14, <2>1, AbstractDefs DEF Abstract!Next
  <2>3. QED
    BY <1>1, <2>1, <2>2
<1>15. ASSUME NEW b \in Slots, NEW k \in Kinds, NEW a \in Authorities,
              AddAuthority(b, k, a) \/ RemoveAuthority(b, k, a)
       PROVE  Goal
  <2>1. BundleLoc(b, k) \in Locations /\ BundleLoc(b, k)[1] # "source"
    BY LocationsApart DEF BundleLoc
  <2>2. QED
    BY <1>14, <1>15, <2>1 DEF AddAuthority, RemoveAuthority
<1>16. ASSUME NEW k \in Kinds, NEW v \in Values, MakeSlice(k, v) PROVE Goal
  <2>1. OwnCells' /\ SourceKept /\ Abstract!Assign({SliceLoc(k)}, [m \in {SliceLoc(k)} |-> v])
    BY <1>16, LocationsApart, CopyStep DEF MakeSlice
  <2>2. Abstract!NewSlice(k)
    BY <2>1, AbstractDefs DEF Abstract!NewSlice
  <2>3. Abstract!Next
    BY <2>2, AbstractDefs DEF Abstract!Next
  <2>4. QED
    BY <1>1, <2>1, <2>3
<1>17. ASSUME NEW k \in Kinds, NEW a \in Authorities, EditSlice(k, a) PROVE Goal
  <2>1. SliceLoc(k) \in Locations /\ SliceLoc(k)[1] # "source"
    BY LocationsApart DEF SliceLoc
  <2>2. QED
    BY <1>14, <1>17, <2>1 DEF EditSlice
<1>18. Goal
  BY <1>2, <1>5, <1>6, <1>8, <1>9, <1>10, <1>11, <1>12, <1>13, <1>15, <1>16, <1>17 DEF Next
<1>19. QED
  BY <1>18 DEF Goal

(* A new source has no authorities, and neither has the application. *)
LEMMA StoreInit ==
    ASSUME Init
    PROVE  OwnCells /\ SentOK /\ SourceServesLatest /\ Abstract!Init
<1>1. {} \in Values /\ \A l \in Locations : Deref(l) = Nil
  BY DEF Init, Values, Deref
<1>2. OwnCells /\ SentOK
  BY <1>1 DEF Init, OwnCells, SentOK
<1>3. SourceServesLatest
  BY <1>1, LocationsApart DEF Init, SourceServesLatest
<1>4. Abstract!Init
  BY <1>1, AbstractDefs DEF Abstract!Init
<1>5. QED
  BY <1>2, <1>3, <1>4

(* The invariant holds in every reachable state. *)
LEMMA StoreInvariant == Spec => [](OwnCells /\ SentOK /\ SourceServesLatest)
<1>1. OwnCells /\ SentOK /\ SourceServesLatest /\ UNCHANGED vars
        => (OwnCells /\ SentOK /\ SourceServesLatest)'
  BY DEF vars, OwnCells, SentOK, SourceServesLatest, Deref
<1>2. OwnCells /\ SentOK /\ SourceServesLatest /\ [Next]_vars
        => (OwnCells /\ SentOK /\ SourceServesLatest)'
  BY <1>1, StoreStep
<1>3. QED
  BY <1>2, StoreInit, PTL DEF Spec

-----------------------------------------------------------------------------
(* For any number of trust domains, bundles and authorities: whatever the  *)
(* application does with the bundles and lists it got from a BundleSource, *)
(* the source serves exactly what setX509Context and setJWTBundles were    *)
(* given last.                                                             *)
THEOREM SourceAlwaysServesLatest == Spec => []SourceServesLatest
BY StoreInvariant, PTL

(* The slices and maps of bundlesource.go, spiffebundle, x509bundle and    *)
(* jwtbundle behave as values would: every operation on them is one on     *)
(* values, of the place it is applied to alone.                            *)
THEOREM StoreRefinesValues == Spec => ImplementsValues
<1>1. OwnCells /\ SentOK /\ SourceServesLatest /\ [Next]_vars
        => [Abstract!Next]_([l \in Locations |-> Deref(l)])
  <2>1. ASSUME UNCHANGED vars PROVE UNCHANGED [l \in Locations |-> Deref(l)]
    BY <2>1 DEF vars, Deref
  <2>2. QED
    BY <2>1, StoreStep
<1>2. QED
  BY <1>1, StoreInvariant, StoreInit, PTL DEF Spec, ImplementsValues, Abstract!Spec
=============================================================================
