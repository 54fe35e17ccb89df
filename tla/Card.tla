--------------------------------- MODULE Card ---------------------------------
(***************************************************************************)
(* What the claim protocol promises of one card: a book of who is on it    *)
(* and what each declared.  A participant is entered in one step, if it    *)
(* fits beside those in the book, and leaves at any time, alone or with    *)
(* everyone whose process died with its own.                               *)
(*                                                                         *)
(* Ledger implements the book with record files and a flock; GpuLane, in   *)
(* which the runner admits its jobs, uses it.                              *)
(***************************************************************************)
EXTENDS Fits

CONSTANTS
    Participants, \* whoever may be on the card
    Declarations, \* what they pass as vram_mb, invalid values included
    UsableMB      \* the card's capacity minus the reserve

VARIABLE book     \* book[c]: what c declared, for every c on the card

Declarable(w) == w = None \/ IsDeclaredMB(w)

Init == book = [c \in {} |-> None]

\* c comes onto the card with declaration w, knowing of capacity u.
Enter(c, w, u) ==
    /\ c \notin DOMAIN book
    /\ book' = [d \in DOMAIN book \cup {c} |-> IF d = c THEN w ELSE book[d]]
    /\ fits(DOMAIN book, book, w, u)

\* Everyone in S leaves the card.
Depart(S) ==
    /\ S \subseteq DOMAIN book
    /\ book' = [d \in DOMAIN book \ S |-> book[d]]

Next ==
    \/ \E S \in SUBSET DOMAIN book : Depart(S)
    \/ \E c \in Participants, w \in Declarations, u \in {UsableMB, None} :
        Declarable(w) /\ Enter(c, w, u)

Spec == Init /\ [][Next]_book
=============================================================================
