----------------------------- MODULE MCHashCache -----------------------------
(* HashCache with a plain member, of one content or removed, and one with   *)
(* an editable form: two good texts, one that is rejected and one of no     *)
(* known format.  Exchanging x with y and tx with ty changes nothing.       *)
EXTENDS HashCache, TLC

CONSTANTS plain, model, p, x, y, torn, tx, ty, bad, odd

MCMembers == {plain, model}
MCItems == {model}
MCContents == {p, x, y, torn}
MCVersions == plain :> {p} @@ model :> {x, y}
MCTexts == {tx, ty, bad, odd}
MCEncode == [t \in MCTexts |-> CASE t = tx -> x [] t = ty -> y [] OTHER -> torn]

Symmetry == {[v \in {x, y, tx, ty} |-> CASE v = x -> y [] v = y -> x [] v = tx -> ty [] v = ty -> tx]}
=============================================================================
