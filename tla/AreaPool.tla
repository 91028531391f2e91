------------------------------ MODULE AreaPool ------------------------------
(***************************************************************************)
(* What the system queue space promises its clients: an area it assigns is *)
(* storage nobody has, it stays theirs until they free it, and they may    *)
(* free any part of it.  Where the area lies is the allocator's business.  *)
(***************************************************************************)
EXTENDS Integers

CONSTANT Assignable     \* the offsets of all storage the pool may assign

VARIABLE areas          \* the areas assigned and not yet freed

Run(from, length) == from..(from + length - 1)

Areas == {a \in [off : Assignable, len : Nat \ {0}] :
            Run(a.off, a.len) \subseteq Assignable}

Owns(a, u) == a.off <= u /\ u < a.off + a.len

Owned(u) == \E a \in areas : Owns(a, u)

Apart(a, b) == a.off + a.len <= b.off \/ b.off + b.len <= a.off

Init == areas = {}

(* An area nobody has a byte of.                                           *)
Assign(off, len) ==
    LET a == [off |-> off, len |-> len]
    IN  /\ areas' = areas \cup {a}
        /\ len > 0 /\ Run(off, len) \subseteq Assignable
        /\ \A b \in areas : Apart(a, b)

(* What is left of an area on either side of the part that is freed.       *)
Rest(a, off, len) ==
    {r \in {[off |-> a.off, len |-> off - a.off],
            [off |-> off + len, len |-> (a.off + a.len) - (off + len)]} : r.len > 0}

Free(a, off, len) ==
    /\ len > 0 /\ a.off <= off /\ off + len <= a.off + a.len
    /\ areas' = (areas \ {a}) \cup Rest(a, off, len)

(* A restored pool knows what is assigned, and no longer in which pieces:  *)
(* areas side by side become one.                                          *)
Load ==
    areas' = {[off |-> p[1], len |-> p[2] - p[1] + 1] :
                p \in {q \in Assignable \X Assignable :
                          /\ q[1] <= q[2] /\ \A w \in q[1]..q[2] : Owned(w)
                          /\ ~Owned(q[1] - 1) /\ ~Owned(q[2] + 1)}}

Reset == areas' = {}

Next ==
    \/ \E off, last \in Assignable : Assign(off, last - off + 1)
    \/ \E a \in areas : \E off \in Run(a.off, a.len) : \E len \in 1..a.len : Free(a, off, len)
    \/ Load
    \/ Reset

Spec == Init /\ [][Next]_areas

(* No two clients share a byte, and no client has a byte of the pool's own *)
(* header and prefixes.                                                    *)
NoOverlap ==
    /\ areas \subseteq Areas
    /\ \A a, b \in areas : a # b => Apart(a, b)
=============================================================================
