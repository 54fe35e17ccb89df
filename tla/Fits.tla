--------------------------------- MODULE Fits ---------------------------------
(***************************************************************************)
(* The arithmetic of admission in ledger.py: what a set of records leaves  *)
(* of a card, and whether one more declaration fits beside them.  recs is  *)
(* a set of records and vram gives the declaration of each.                *)
(***************************************************************************)
EXTENDS Integers, FiniteSets

CONSTANTS
    None,      \* Python's None: the whole card, unknown capacity, no cap
    MaxHolders \* [queue].gpu_max_jobs, or None for no cap

ASSUME NoneIsNoNumber == None \notin Int

ASSUME MaxHoldersAssumption == MaxHolders \in Nat \cup {None}

\* Mutant: zero counts as a declaration.
IsDeclaredMB_Zero(v) == v \in Int /\ v >= 0

IsDeclaredMB(v) == v \in Int /\ v > 0

MB(v) == IF v = None THEN 0 ELSE v

\* The MiB of the card that recs declare, each as a pair of its record and
\* an index, so that their number is the sum of the declarations.
Blocks(recs, vram) == UNION {{r} \X (1 .. MB(vram[r])) : r \in recs}

Charged(recs, vram) == Cardinality(Blocks(recs, vram))

at_cap(recs) == MaxHolders # None /\ Cardinality(recs) >= MaxHolders

has_exclusive(recs, vram) == \E r \in recs : vram[r] = None

exceeds_capacity(want_mb, usable_mb) ==
    want_mb \in Int /\ usable_mb \in Int /\ want_mb > usable_mb

\* Mutant: what others declared is not added up.
fits_NoSum(recs, vram, want_mb, usable_mb) ==
    /\ ~at_cap(recs) /\ ~has_exclusive(recs, vram)
    /\ IF want_mb = None \/ usable_mb = None
       THEN recs = {} ELSE want_mb <= usable_mb

fits(recs, vram, want_mb, usable_mb) ==
    /\ ~at_cap(recs)
    /\ ~has_exclusive(recs, vram)
    /\ IF want_mb = None \/ usable_mb = None
       THEN recs = {}
       ELSE /\ want_mb <= usable_mb
            /\ Charged(recs, vram) + want_mb <= usable_mb

free_mb(recs, vram, usable_mb) ==
    IF usable_mb = None \/ has_exclusive(recs, vram)
       \/ Charged(recs, vram) > usable_mb
    THEN 0 ELSE usable_mb - Charged(recs, vram)

\* Mutant: a full card still counts as open.
card_is_closed_NotFull(recs, vram, usable_mb) ==
    at_cap(recs) \/ (recs # {} /\ (usable_mb = None \/ has_exclusive(recs, vram)))

card_is_closed(recs, vram, usable_mb) ==
    \/ at_cap(recs)
    \/ /\ recs # {}
       /\ \/ usable_mb = None
          \/ has_exclusive(recs, vram)
          \/ free_mb(recs, vram, usable_mb) <= 0
=============================================================================
