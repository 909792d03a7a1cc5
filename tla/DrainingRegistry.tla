-------------------------- MODULE DrainingRegistry --------------------------
(***************************************************************************)
(* What IServerDataHandlerRegistrar promises its callers, with no mutex,   *)
(* counter, list or latch: an entry that is being removed gets no new      *)
(* users, and it goes only when the users it had are gone.                 *)
(***************************************************************************)
CONSTANTS Users, Entries

VARIABLES
  live,     (* registered entries                                          *)
  closing,  (* those whose removal has begun                               *)
  using     (* using[e]: the users that have acquired e and not released it *)

vars == <<live, closing, using>>

TypeOK ==
  /\ live \subseteq Entries
  /\ closing \subseteq live
  /\ using \in [Entries -> SUBSET Users]

Init ==
  /\ live = {}
  /\ closing = {}
  /\ using = [e \in Entries |-> {}]

Open(e) ==
  /\ e \notin live
  /\ using[e] = {}
  /\ live' = live \cup {e}
  /\ UNCHANGED <<closing, using>>

Acquire(u, E) ==
  /\ E \subseteq live \ closing
  /\ using' = [e \in Entries |-> IF e \in E THEN using[e] \cup {u} ELSE using[e]]
  /\ UNCHANGED <<live, closing>>

Release(u, e) ==
  /\ u \in using[e]
  /\ using' = [using EXCEPT ![e] = @ \ {u}]
  /\ UNCHANGED <<live, closing>>

Close(e) ==
  /\ e \in live
  /\ closing' = closing \cup {e}
  /\ UNCHANGED <<live, using>>

Remove(E) ==
  /\ E \subseteq live
  /\ \A e \in E : using[e] = {}
  /\ live' = live \ E
  /\ closing' = closing \ E
  /\ UNCHANGED using

Next ==
  \/ \E e \in Entries : Open(e) \/ Close(e)
  \/ \E u \in Users, e \in Entries : Release(u, e)
  \/ \E E \in SUBSET Entries : Remove(E) \/ \E u \in Users : Acquire(u, E)

Spec == Init /\ [][Next]_vars
=============================================================================
