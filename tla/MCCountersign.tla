---------------------------- MODULE MCCountersign ----------------------------
(* Small instances of Countersign. *)
EXTENDS Countersign, TLC
CONSTANTS f1, f2, o1, o2, i1, i2, h1, h2

OneFinding  == {f1}
TwoFindings == {f1, f2}
OneOld      == {o1}
TwoOld      == {o1, o2}
ToFirst     == (o1 :> f1)
BothToFirst == (o1 :> f1) @@ (o2 :> f1)
OneItem     == {i1}
ItemOfFirst == (i1 :> f1)
Nothing     == <<>>
Alone       == {h1}
Pair        == {h1, h2}
Words       == {"false_positive", "keep_open"}
MoreWords   == {"false_positive", "keep_open", "high"}
OnlyDismiss == {"false_positive"}

Symmetry    == Permutations(Pair)
=============================================================================
