------------------------------ MODULE FitsProofs ------------------------------
(***************************************************************************)
(* What the arithmetic of admission guarantees, for every set of records   *)
(* and every capacity.                                                     *)
(***************************************************************************)
EXTENDS Fits, FunctionTheorems, FiniteSetTheorems, TLAPS

\* What acquire() may find in the vram_mb of a record.
MBs == (Nat \ {0}) \cup {None}

\* The declarations on record sum up to a natural number (Charged stands for
\* the sum() in fits and free_mb).
LEMMA ChargedType ==
    ASSUME NEW S, IsFiniteSet(S), NEW vram, \A r \in S : vram[r] \in MBs
    PROVE  IsFiniteSet(Blocks(S, vram)) /\ Charged(S, vram) \in Nat
<1> DEFINE B(r) == {r} \X (1 .. MB(vram[r]))
           f == [r \in S |-> B(r)]
           T == {B(r) : r \in S}
<1>1. IsFiniteSet(T)
  <2>1. f \in Surjection(S, T)
    BY DEF Surjection
  <2> QED BY <2>1, FS_Surjection
<1>2. ASSUME NEW r \in S PROVE IsFiniteSet(B(r))
  <2>1. MB(vram[r]) \in Int
    BY <1>2, NoneIsNoNumber DEF MB, MBs
  <2>2. IsFiniteSet(1 .. MB(vram[r]))
    BY <2>1, FS_Interval
  <2>3. IsFiniteSet({r})
    BY FS_Singleton
  <2> QED BY <2>2, <2>3, FS_Product
<1>3. IsFiniteSet(UNION T)
  BY <1>1, <1>2, FS_UNION
<1> QED BY <1>3, FS_CardinalityType DEF Blocks, Charged

\* Fewer records declare no more (the sum() in fits).
LEMMA ChargedMonotone ==
    ASSUME NEW T, IsFiniteSet(T), NEW vram, \A r \in T : vram[r] \in MBs,
           NEW S \in SUBSET T
    PROVE  Charged(S, vram) <= Charged(T, vram)
<1>1. IsFiniteSet(Blocks(T, vram))
  BY ChargedType
<1>2. Blocks(S, vram) \in SUBSET Blocks(T, vram)
  BY DEF Blocks
<1> QED BY <1>1, <1>2, FS_Subset DEF Charged

\* One more record adds what it declares (the sum() in fits).
LEMMA ChargedAdd ==
    ASSUME NEW S, IsFiniteSet(S), NEW c, c \notin S, NEW vram,
           \A r \in S \cup {c} : vram[r] \in MBs
    PROVE  Charged(S \cup {c}, vram) = Charged(S, vram) + MB(vram[c])
<1> DEFINE C == {c} \X (1 .. MB(vram[c]))
<1>1. Blocks(S \cup {c}, vram) = Blocks(S, vram) \cup C
  BY DEF Blocks
<1>2. Blocks(S, vram) \cap C = {}
  BY DEF Blocks
<1>3. MB(vram[c]) \in Nat
  BY NoneIsNoNumber DEF MB, MBs
<1>4. IsFiniteSet(C) /\ Cardinality(C) = MB(vram[c])
  <2>1. IsFiniteSet(1 .. MB(vram[c]))
        /\ Cardinality(1 .. MB(vram[c])) = MB(vram[c])
    BY <1>3, FS_Interval
  <2>2. IsFiniteSet({c}) /\ Cardinality({c}) = 1
    BY FS_Singleton
  <2> QED BY <1>3, <2>1, <2>2, FS_Product
<1>5. IsFiniteSet(Blocks(S, vram)) /\ Charged(S, vram) \in Nat
  BY ChargedType
<1>6. Cardinality(Blocks(S, vram) \cup C) =
        Cardinality(Blocks(S, vram)) + Cardinality(C)
          - Cardinality(Blocks(S, vram) \cap C)
  BY <1>4, <1>5, FS_Union
<1>7. Cardinality(Blocks(S, vram) \cap C) = 0
  BY <1>2, FS_EmptySet
<1>8. Charged(S \cup {c}, vram) = Cardinality(Blocks(S, vram) \cup C)
  BY <1>1 DEF Charged
<1>9. Charged(S, vram) = Cardinality(Blocks(S, vram))
  BY DEF Charged
<1> HIDE DEF C
<1> QED BY <1>3, <1>4, <1>5, <1>6, <1>7, <1>8, <1>9

\* What a record declares is all that its charge depends on.
LEMMA ChargedSame ==
    ASSUME NEW S, NEW v1, NEW v2, \A r \in S : v1[r] = v2[r]
    PROVE  Charged(S, v1) = Charged(S, v2)
<1>1. Blocks(S, v1) = Blocks(S, v2)
  BY DEF Blocks
<1> QED BY <1>1 DEF Charged

\* A declaration that fits beside some records fits beside fewer of them
\* (fits): a release or a sweep during acquire() cannot spoil its decision.
LEMMA FitsAntitone ==
    ASSUME NEW T, IsFiniteSet(T), NEW vram, \A r \in T : vram[r] \in MBs,
           NEW S \in SUBSET T, NEW w \in MBs, NEW u \in MBs,
           fits(T, vram, w, u)
    PROVE  fits(S, vram, w, u)
<1>1. IsFiniteSet(S) /\ Cardinality(S) <= Cardinality(T)
      /\ Cardinality(S) \in Nat /\ Cardinality(T) \in Nat
  BY FS_Subset, FS_CardinalityType
<1>2. ~at_cap(S)
  BY <1>1, MaxHoldersAssumption, NoneIsNoNumber DEF at_cap, fits
<1>3. ~has_exclusive(S, vram)
  BY DEF has_exclusive, fits
<1>4. CASE w = None \/ u = None
  BY <1>2, <1>3, <1>4 DEF fits
<1>5. CASE ~(w = None \/ u = None)
  <2>1. Charged(S, vram) <= Charged(T, vram)
    BY ChargedMonotone
  <2>2. Charged(S, vram) \in Nat /\ Charged(T, vram) \in Nat
    BY <1>1, ChargedType
  <2>3. w \in Nat /\ u \in Nat
    BY <1>5 DEF MBs
  <2> QED BY <1>2, <1>3, <1>5, <2>1, <2>2, <2>3 DEF fits
<1> QED BY <1>4, <1>5

\* fits depends on what the records in question declare and on nothing else.
LEMMA FitsSame ==
    ASSUME NEW S, NEW v1, NEW v2, \A r \in S : v1[r] = v2[r],
           NEW w, NEW u, fits(S, v1, w, u)
    PROVE  fits(S, v2, w, u)
<1>1. Charged(S, v1) = Charged(S, v2)
  BY ChargedSame
<1> QED BY <1>1 DEF fits, has_exclusive

\* A card is closed exactly when no declaration fits it (card_is_closed).
LEMMA ClosedMeansNothingFits ==
    ASSUME NEW S, IsFiniteSet(S), NEW vram, \A r \in S : vram[r] \in MBs,
           NEW total \in Nat \ {0}, NEW u \in {total, None}
    PROVE  card_is_closed(S, vram, u) <=>
               \A w \in (1 .. total) \cup {None} : ~fits(S, vram, w, u)
<1>1. Charged(S, vram) \in Nat
  BY ChargedType
<1> USE NoneIsNoNumber
<1>2. ASSUME card_is_closed(S, vram, u), NEW w \in (1 .. total) \cup {None}
      PROVE  ~fits(S, vram, w, u)
  <2>1. CASE at_cap(S) \/ has_exclusive(S, vram) \/ (u = None /\ S # {})
    BY <2>1 DEF fits
  <2>2. CASE /\ u # None /\ S # {} /\ ~has_exclusive(S, vram)
             /\ free_mb(S, vram, u) <= 0
    <3>1. Charged(S, vram) >= total
      BY <1>1, <2>2 DEF free_mb
    <3>2. CASE w = None
      BY <2>2, <3>2 DEF fits
    <3>3. CASE w # None
      BY <1>1, <2>2, <3>1, <3>3 DEF fits
    <3> QED BY <3>2, <3>3
  <2> QED BY <1>2, <2>1, <2>2 DEF card_is_closed
<1>3. ASSUME ~card_is_closed(S, vram, u)
      PROVE  \E w \in (1 .. total) \cup {None} : fits(S, vram, w, u)
  <2>1. CASE S = {}
    BY <1>3, <2>1 DEF card_is_closed, fits, has_exclusive
  <2>2. CASE S # {}
    <3>1. /\ ~at_cap(S) /\ u = total /\ ~has_exclusive(S, vram)
          /\ ~(free_mb(S, vram, u) <= 0)
      BY <1>3, <2>2 DEF card_is_closed
    <3>2. Charged(S, vram) + 1 <= total
      BY <1>1, <3>1 DEF free_mb
    <3>3. fits(S, vram, 1, u)
      BY <1>1, <3>1, <3>2 DEF fits
    <3> QED BY <3>3
  <2> QED BY <2>1, <2>2
<1> QED BY <1>2, <1>3
=============================================================================
