----------------------------- MODULE BundleValues -----------------------------
(***************************************************************************)
(* What a BundleSource and the bundle packages promise about values: every *)
(* place that holds authorities has a value of its own.  An update from    *)
(* the Workload API replaces what the source has of one kind, an operation *)
(* of the application changes the place it is applied to, and whatever is  *)
(* handed over is handed over by value.  No place ever changes because     *)
(* another one did.                                                        *)
(***************************************************************************)
CONSTANTS
    TDs,          \* trust domains
    Slots,        \* the application's variables for bundles
    Authorities,
    Nil

Kinds == {"x509", "jwt"}

SourceLoc(k, td) == <<"source", k, td>>
BundleLoc(b, k) == <<"bundle", k, b>>
SliceLoc(k) == <<"slice", k, Nil>>

Locations ==
    {SourceLoc(k, td) : k \in Kinds, td \in TDs}
        \cup {BundleLoc(b, k) : b \in Slots, k \in Kinds}
        \cup {SliceLoc(k) : k \in Kinds}

Values == SUBSET Authorities

VARIABLE val  \* by location: its authorities, or Nil

Assign(S, new) == val' = [l \in Locations |-> IF l \in S THEN new[l] ELSE val[l]]

Init == val = [l \in Locations |-> Nil]

(* The Workload API replaces all the source has of a kind. *)
Update(k) ==
    LET S == {SourceLoc(k, td) : td \in TDs} IN
    \E new \in [S -> Values \cup {Nil}] : Assign(S, new)

(* The application makes a list. *)
NewSlice(k) == \E v \in Values : Assign({SliceLoc(k)}, [l \in {SliceLoc(k)} |-> v])

(* It adds an authority to a list or a bundle, or removes one. *)
Edit(l, a) ==
    /\ val[l] # Nil
    /\ \E v \in {val[l] \cup {a}, val[l] \ {a}} : Assign({l}, [x \in {l} |-> v])

(* It makes a bundle from the source, another bundle or lists: of every    *)
(* kind it has what they have now, or it is empty, or it has no such kind. *)
Take(b, from) ==
    LET S == {BundleLoc(b, k) : k \in Kinds} IN
    \E new \in [S -> Values \cup {Nil}] :
        /\ \A k \in Kinds : new[BundleLoc(b, k)] \in {val[from[k]], {}, Nil}
        /\ Assign(S, new)

(* It copies a list out of a bundle, or into one. *)
Copy(to, from) == val[from] # Nil /\ Assign({to}, [x \in {to} |-> val[from]])

Next ==
    \/ \E k \in Kinds : Update(k) \/ NewSlice(k)
    \/ \E b \in Slots, td \in TDs : Take(b, [k \in Kinds |-> SourceLoc(k, td)])
    \/ \E b, c \in Slots : Take(b, [k \in Kinds |-> BundleLoc(c, k)])
    \/ \E b \in Slots : Take(b, [k \in Kinds |-> SliceLoc(k)])
    \/ \E b \in Slots, k \in Kinds :
        Copy(BundleLoc(b, k), SliceLoc(k)) \/ Copy(SliceLoc(k), BundleLoc(b, k))
    \/ \E l \in Locations, a \in Authorities : l[1] # "source" /\ Edit(l, a)

Spec == Init /\ [][Next]_val
=============================================================================
