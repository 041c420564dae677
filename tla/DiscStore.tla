----------------------------- MODULE DiscStore -----------------------------
(***************************************************************************)
(* What a WBFS partition promises to whoever lists it: a catalogue with at *)
(* most one disc per slot.  A disc shows up whole, is renamed in place and *)
(* vanishes whole; nothing else ever happens to it.  It carries its ID     *)
(* twice, in its entry and in its ISO header, and nothing promises that    *)
(* the two change together.  Crashes are not mentioned: for the catalogue  *)
(* they are stuttering steps.                                              *)
(***************************************************************************)
CONSTANTS
  Slots,      \* positions of the disc table
  Ids,        \* the ID6 values discs are known by
  ContentOf   \* ContentOf[id] is the image that an ADD of that id stores

VARIABLE cat  \* cat[s] is empty or holds the one disc at slot s

Init == cat = [s \in Slots |-> {}]

(* ADD: the disc appears with both names and all of its content. *)
Put(s, id) ==
  /\ cat[s] = {}
  /\ cat' = [cat EXCEPT ![s] = {[id |-> id, name |-> id, content |-> ContentOf[id]]}]

(* REMOVE. *)
Drop(s) ==
  /\ cat[s] # {}
  /\ cat' = [cat EXCEPT ![s] = {}]

(* RENAME of the entry, and of the ISO header: the content stays. *)
RenameEntry(s, id) ==
  \E disc \in cat[s] : cat' = [cat EXCEPT ![s] = {[disc EXCEPT !.id = id]}]

RenameHeader(s, id) ==
  \E disc \in cat[s] : cat' = [cat EXCEPT ![s] = {[disc EXCEPT !.name = id]}]

Next ==
  \E s \in Slots :
    \/ Drop(s)
    \/ \E id \in Ids : Put(s, id) \/ RenameEntry(s, id) \/ RenameHeader(s, id)

Spec == Init /\ [][Next]_cat
=============================================================================
