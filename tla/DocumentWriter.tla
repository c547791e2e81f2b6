--------------------------- MODULE DocumentWriter ---------------------------
(***************************************************************************)
(* What a client may expect of a serializer: the text of one document at a *)
(* time reaches its output in order, each byte once and no other.  A call  *)
(* may be interrupted at any point and is then resumed where it stopped,   *)
(* or the document is given up; a call that succeeds has written it all.   *)
(***************************************************************************)
EXTENDS Sequences, Integers

CONSTANT Texts          \* the texts of the documents

VARIABLES
  phase,                \* "idle", "writing" (a call is running), "suspended"
  written,              \* what has reached the output of the last document
  rest                  \* what is still missing of it

vars == <<phase, written, rest>>

Init == phase = "idle" /\ written = <<>> /\ rest = <<>>

Begin(t) ==
  /\ phase = "idle"
  /\ phase' = "writing" /\ written' = <<>> /\ rest' = t

(* Some bytes are taken; the call goes on, is interrupted, or was the last. *)
Write(k) ==
  /\ phase = "writing" /\ k \in 1 .. Len(rest)
  /\ written' = written \o SubSeq(rest, 1, k)
  /\ rest' = SubSeq(rest, k + 1, Len(rest))
  /\ phase' \in {"writing", "suspended"} \cup (IF rest' = <<>> THEN {"idle"} ELSE {})

Finish  == phase = "writing" /\ rest = <<>> /\ phase' = "idle" /\ UNCHANGED <<written, rest>>
Suspend == phase = "writing" /\ phase' = "suspended" /\ UNCHANGED <<written, rest>>
Resume  == phase = "suspended" /\ phase' = "writing" /\ UNCHANGED <<written, rest>>
GiveUp  == phase # "writing" /\ phase' = "idle" /\ written' = <<>> /\ rest' = <<>>

Next == \/ \E t \in Texts : Begin(t)
        \/ \E k \in 1 .. Len(rest) : Write(k)
        \/ Finish \/ Suspend \/ Resume \/ GiveUp

Spec == Init /\ [][Next]_vars
=============================================================================
