------------------------------- MODULE YjsMerge -------------------------------
(***************************************************************************)
(* What the shared types of a Yjs document become when an update computed  *)
(* from base, which turned it into made, is merged into now. Where two     *)
(* writers set the same key, Yjs lets the order of their client ids decide;*)
(* here the update merged last wins.                                       *)
(***************************************************************************)
EXTENDS Naturals, Sequences, SequencesExt

(* A set of facts, each inserted and deleted as a whole.                   *)
MergedSet(now, base, made) == (now \ (base \ made)) \cup (made \ base)

(* A Y.Map: a deleted key goes unless it was set anew since base.          *)
MergedMap(now, base, made) ==
  LET set  == {k \in DOMAIN made : k \in DOMAIN base => made[k] # base[k]}
      gone == {k \in DOMAIN base \ DOMAIN made : k \in DOMAIN now => now[k] = base[k]}
  IN  [k \in (DOMAIN now \ gone) \cup set |-> IF k \in set THEN made[k] ELSE now[k]]

(* A Y.Map in which a key was set, or deleted.                             *)
IsMap(f) == f = [k \in DOMAIN f |-> f[k]]
MapSet(map, key, value) ==
  [k \in DOMAIN map \cup {key} |-> IF k = key THEN value ELSE map[k]]
MapDelete(map, key) == [k \in DOMAIN map \ {key} |-> map[k]]

(* What is left of a list. (SelectSeq, written so that it can be reasoned  *)
(* about.)                                                                 *)
WithoutItems(list, gone) ==
  LET Kept[i \in 0..Len(list)] ==
        IF i = 0 THEN <<>>
        ELSE IF list[i] \in gone THEN Kept[i - 1] ELSE Append(Kept[i - 1], list[i])
  IN  Kept[Len(list)]

(* A Y.Array of distinct items: a new item goes after the nearest item     *)
(* before it that is still there.                                          *)
PlaceFor(list, made, i) ==
  LET left == {j \in DOMAIN list : \E h \in 1..i - 1 : made[h] = list[j]}
  IN  1 + IF left = {} THEN 0 ELSE CHOOSE j \in left : \A h \in left : h <= j
MergedList(now, base, made) ==
  LET Ins[i \in 0..Len(made)] ==
        IF i = 0 THEN WithoutItems(now, Range(base) \ Range(made))
        ELSE IF made[i] \in Range(base) \cup Range(Ins[i - 1]) THEN Ins[i - 1]
        ELSE InsertAt(Ins[i - 1], PlaceFor(Ins[i - 1], made, i), made[i])
  IN  Ins[Len(made)]
=============================================================================
