--------------------------- MODULE StoredSequence ---------------------------
(***************************************************************************)
(* What Walker promises its callers, with no block, capacity or lifetime   *)
(* of an element: a sequence of elements and a cursor in it.  call is the  *)
(* call that was last answered: its method, argument p, position at,       *)
(* length n and whether it succeeded.                                      *)
(***************************************************************************)
EXTENDS Integers, Sequences

CONSTANTS Methods, Arrays, MaxSize

VARIABLES items, cursor, call

vars == <<items, cursor, call>>

CallRecords ==
  [method : Methods, p : Arrays, at : Nat, n : Nat, ok : BOOLEAN]

Before(at) == SubSeq(items, 1, at)
From(at)   == SubSeq(items, at + 1, Len(items))
Inside(at) == IF at < Len(items) THEN at ELSE Len(items)

Keep == UNCHANGED items

(* The elements and the cursor after a call that succeeds.                 *)
Done(c) ==
  LET upTo == c.at + Len(c.p)
  IN  \/ /\ c.method = "pushBackN"
         /\ items' = items \o c.p
         /\ cursor' = Len(items')
      \/ /\ c.method = "replace"
         /\ items' = Before(c.at) \o c.p \o From(upTo)
         /\ cursor' = upTo
      \/ /\ c.method \in {"insert", "insertRange"}
         /\ items' = Before(c.at) \o c.p \o From(c.at)
         /\ cursor' = upTo
      \/ /\ c.method = "erase"
         /\ items' = Before(c.at) \o From(c.at + c.n)
         /\ cursor' = c.at
      \/ /\ c.method = "read"
         /\ cursor <= Len(items)
         /\ cursor' = Inside(cursor + c.n)
         /\ Keep
      \/ /\ c.method = "readArithmeticValue"
         /\ cursor + c.n <= Len(items)
         /\ cursor' = cursor + c.n
         /\ Keep
      \/ /\ c.method = "seek"
         /\ c.at <= Len(items)
         /\ cursor' = c.at
         /\ Keep
      \/ /\ c.method = "setSize"
         /\ Len(items') = c.n
         /\ \A i \in 1 .. Inside(c.n) : items'[i] = items[i]
         /\ cursor' = c.n
      \/ /\ c.method = "reserve"
         /\ Keep /\ UNCHANGED cursor
      \/ /\ c.method = "init"
         /\ items' = c.p
         /\ cursor' = c.at
      \/ /\ c.method = "clear"
         /\ items' = <<>>
         /\ cursor' = 0

(* After one that fails.  Only init loses the elements, and the cursor     *)
(* then stays where it was; only insertRange may have done a part of its   *)
(* work, when it appends.                                                  *)
Refused(c) ==
  \/ /\ c.method \in {"pushBackN", "setSize"}
     /\ cursor' = Len(items)
     /\ Keep
  \/ /\ c.method \in {"replace", "insert", "erase", "seek"}
     /\ cursor' = Inside(c.at)
     /\ Keep
  \/ /\ c.method = "insertRange"
     /\ cursor' = Inside(c.at)
     /\ \/ Keep
        \/ /\ c.at = Len(items)
           /\ \E k \in 1 .. Len(c.p) - 1 : items' = items \o SubSeq(c.p, 1, k)
  \/ /\ c.method \in {"read", "readArithmeticValue", "reserve"}
     /\ Keep /\ UNCHANGED cursor
  \/ /\ c.method = "init"
     /\ items' = <<>>
     /\ UNCHANGED cursor

Init ==
  /\ items = <<>>
  /\ cursor = 0
  /\ call.method = "clear"

Next ==
  LET c == call'
  IN  /\ c \in CallRecords
      /\ IF c.ok THEN Done(c) ELSE Refused(c)

Spec == Init /\ [][Next]_vars
=============================================================================
