----------------------------- MODULE MCPublication ----------------------------
(***************************************************************************)
(* Instances of Publication for TLC.                                       *)
(***************************************************************************)
EXTENDS Publication, TLC

CallSymmetry == Permutations(CallerTx) \cup Permutations(Call \ CallerTx)

Symmetry == CallSymmetry \cup Permutations(Content) \cup Permutations(Target)

CONSTANT Early   \* the calls that begin while nothing can be removed yet

\* A call that shares neither an ID nor a key with another one.
Alone(c) == Request(c) # NoRequest /\ Request(c).id = NoID /\ Request(c).key = NoKey

\* Requests differ in their content within the caller's transaction, in their
\* destination outside of it.
Varied(c) ==
    IF c \in CallerTx THEN Request(c).target \in {NoTarget, CHOOSE u \in Target : TRUE}
    ELSE Request(c).content \in {NoContent, CHOOSE b \in Content : TRUE}

\* All calls race at first; later the others do, with Cleanup.
Bound ==
    \A c \in Call :
        /\ Varied(c)
        /\ now > 0 => ~Alone(c) /\ (c \in Early => calls[c].pc = "new")
=============================================================================
