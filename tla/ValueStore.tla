----------------------------- MODULE ValueStore -----------------------------
(***************************************************************************)
(* What a client may expect of the containers of libcjson: an array is a   *)
(* sequence, an object a map from keys to values.  A container owns what   *)
(* it contains: a value that is replaced or removed goes with everything   *)
(* below it, and nothing else changes.                                     *)
(*                                                                         *)
(* The operators relate the containers before a step, s, with those after  *)
(* it, t.                                                                  *)
(***************************************************************************)
EXTENDS Integers, Sequences, Functions

CONSTANTS Id, Key, Null

VARIABLE content    \* the live containers: which kind, and their items

(* The containers at v and below it: the least set with v, and with every   *)
(* container that is an item of one of them.                                *)
Closed(s, v, T) ==
  /\ v \in DOMAIN s => v \in T
  /\ \A c \in T : Range(s[c].items) \cap DOMAIN s \subseteq T
Below(s, v) ==
  {c \in DOMAIN s : \A T \in SUBSET DOMAIN s : Closed(s, v, T) => c \in T}

(* One container changes, and what lay at and below the old item disappears. *)
Change(s, t, c, items, old) ==
  /\ c \in DOMAIN t /\ t[c] = [s[c] EXCEPT !.items = items]
  /\ DOMAIN t = DOMAIN s \ Below(s, old)
  /\ \A d \in DOMAIN t \ {c} : t[d] = s[d]

New(s, t, c, kind) ==
  /\ DOMAIN t = DOMAIN s \cup {c}
  /\ t[c] = [kind |-> kind, items |-> <<>>]
  /\ \A d \in DOMAIN s : t[d] = s[d]

Push(s, t, a, v) ==
  s[a].kind = "Array" /\ Change(s, t, a, Append(s[a].items, v), Null)

Replace(s, t, a, i, v) ==
  /\ s[a].kind = "Array"
  /\ Change(s, t, a, [s[a].items EXCEPT ![i] = v], s[a].items[i])

Put(s, t, o, k, v) ==
  LET items == s[o].items
      new == [j \in DOMAIN items \cup {k} |-> IF j = k THEN v ELSE items[j]]
  IN /\ s[o].kind = "Object"
     /\ Change(s, t, o, new, IF k \in DOMAIN items THEN items[k] ELSE Null)

Remove(s, t, o, k) ==
  LET items == s[o].items
  IN /\ s[o].kind = "Object" /\ k \in DOMAIN items
     /\ Change(s, t, o, [j \in DOMAIN items \ {k} |-> items[j]], items[k])

(* A value is given up with all below it; a scalar takes no container along. *)
Drop(s, t, v) == /\ DOMAIN t = DOMAIN s \ Below(s, v)
                 /\ \A d \in DOMAIN t : t[d] = s[d]

Step(s, t) ==
  \/ \E v \in Id : Drop(s, t, v)
  \/ \E c \in Id \ DOMAIN s, kind \in {"Array", "Object"} : New(s, t, c, kind)
  \/ \E c \in DOMAIN s, v \in Id \cup {Null} :
       \/ Push(s, t, c, v)
       \/ \E i \in DOMAIN s[c].items : Replace(s, t, c, i, v)
       \/ \E k \in Key : Put(s, t, c, k, v)
  \/ \E c \in DOMAIN s, k \in Key : Remove(s, t, c, k)
  \/ t = <<>>                                    \* the process ends

Init == content = <<>>
Next == Step(content, content')

Spec == Init /\ [][Next]_content
=============================================================================
