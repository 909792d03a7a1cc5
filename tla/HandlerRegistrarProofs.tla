----------------------- MODULE HandlerRegistrarProofs -----------------------
(***************************************************************************)
(* What holds of HandlerRegistrar for every set of clients, admins,        *)
(* handlers, services and nodes, and every program of the admins.          *)
(* First its types, and the lemmas about updates of entries and counters;  *)
(* then removal by handler: HandlerInv is inductive under RemovalByHandler;*)
(* then removal by service: ServiceInv is inductive under RemovalByService;*)
(* then, under either, what an acquire hands out together; last, that the  *)
(* registrar implements the draining registry: every section of its        *)
(* functions is one step of that registry, or none.                        *)
(***************************************************************************)
EXTENDS HandlerRegistrarInvariant, DataInduction, TLAPS, FiniteSetTheorems, SequenceTheorems

(* The owner of the node a list search finds is one of the admins searched *)
(* for: the loops over the two unregister lists.                           *)
LEMMA FirstOfOwner ==
  ASSUME NEW list \in Seq(Admins), NEW S
  PROVE  \A a \in FirstOf(list, S) : a \in Admins /\ a \in S
BY DEF FirstOf

(* The search ends at a node if the list has one it is for.                *)
LEMMA FirstOfFinds ==
  ASSUME NEW list \in Seq(Admins), NEW S, NEW a \in Range(list), a \in S
  PROVE  FirstOf(list, S) # {}
<1> DEFINE matches == {i \in DOMAIN list : list[i] \in S}
<1>1. matches \in SUBSET Nat /\ matches # {}
  BY DEF Range
<1>2. PICK k \in matches : \A i \in matches : k <= i
  BY <1>1, LeastNumber
<1>3. k \in 1..Len(list) /\ list[k] \in S /\ Len(list) \in Nat
  BY <1>2
<1>4. ASSUME NEW j \in 1..(k - 1)
      PROVE  list[j] \notin S
  <2>1. j \in DOMAIN list /\ ~ (k <= j)
    BY <1>3
  <2> QED
    BY <1>2, <2>1
<1>5. list[k] \in FirstOf(list, S)
  BY <1>3, <1>4 DEF FirstOf
<1> QED
  BY <1>5

(* Erasing a node of an unregister list leaves a list of nodes.            *)
LEMMA RemoveAtType ==
  ASSUME NEW list \in Seq(Admins), NEW k \in DOMAIN list
  PROVE  RemoveAt(list, k) \in Seq(Admins)
BY DEF RemoveAt

(* fetch_add and fetch_sub stay within the counter's width.                *)
LEMMA CounterType ==
  ASSUME NEW m \in 0..CounterMax, NEW n \in 0..CounterMax
  PROVE  /\ Plus(m, n) \in 0..CounterMax
         /\ Minus1(m) \in 0..CounterMax
         /\ 0 \in 0..CounterMax /\ 1 \in 0..CounterMax
<1>1. CounterMax \in Nat /\ CounterMax > 0
  <2>1. Cardinality(Clients) \in Nat /\ Cardinality(Slots) \in Nat
    BY FS_CardinalityType, SetsAssumption
  <2> QED  BY <2>1, CounterAssumption
<1> QED  BY <1>1 DEF Plus, Minus1

(* Writing one member of a handle changes nothing else of the map.         *)
LEMMA SetStateFrame ==
  ASSUME entry \in [Slots -> SdhHandle], NEW s \in Slots, NEW v \in State
  PROVE  /\ SetState(s, v) \in [Slots -> SdhHandle]
         /\ SetState(s, v)[s].state = v
         /\ \A t \in Slots : SetState(s, v)[t].handler = entry[t].handler
         /\ \A t \in Slots : SetState(s, v)[t].inUse = entry[t].inUse
         /\ \A t \in Slots : t # s => SetState(s, v)[t] = entry[t]
<1>1. SetState(s, v) =
        [t \in Slots |-> IF t = s THEN [entry[s] EXCEPT !.state = v] ELSE entry[t]]
  BY DEF SetState
<1>2. [entry[s] EXCEPT !.state = v] =
        [handler |-> entry[s].handler, inUse |-> entry[s].inUse, state |-> v]
  BY DEF SdhHandle
<1> QED  BY <1>1, <1>2 DEF SdhHandle

(* SetInUse changes the counter of one entry.                              *)
LEMMA SetInUseFrame ==
  ASSUME entry \in [Slots -> SdhHandle], NEW s \in Slots, NEW n \in 0..CounterMax
  PROVE  /\ SetInUse(s, n) \in [Slots -> SdhHandle]
         /\ SetInUse(s, n)[s].inUse = n
         /\ \A t \in Slots : SetInUse(s, n)[t].handler = entry[t].handler
         /\ \A t \in Slots : SetInUse(s, n)[t].state = entry[t].state
         /\ \A t \in Slots : t # s => SetInUse(s, n)[t] = entry[t]
<1>1. SetInUse(s, n) =
        [t \in Slots |-> IF t = s THEN [entry[s] EXCEPT !.inUse = n] ELSE entry[t]]
  BY DEF SetInUse
<1>2. [entry[s] EXCEPT !.inUse = n] =
        [handler |-> entry[s].handler, inUse |-> n, state |-> entry[s].state]
  BY DEF SdhHandle
<1> QED  BY <1>1, <1>2 DEF SdhHandle

(* Putting a node in front of an unregister list.                          *)
LEMMA PushFront ==
  ASSUME NEW list \in Seq(Admins), NEW a \in Admins
  PROVE  /\ <<a>> \o list \in Seq(Admins)
         /\ Range(<<a>> \o list) = {a} \cup Range(list)
<1>1. <<a>> \in Seq(Admins) /\ Range(<<a>>) = {a}
  BY DEF Range
<1>2. Range(<<a>> \o list) = Range(<<a>>) \cup Range(list)
  <2> DEFINE head == <<a>>
  <2>1. head \in Seq(Admins)
    OBVIOUS
  <2> HIDE DEF head
  <2>2. Range(head \o list) = Range(head) \cup Range(list)
    BY <2>1, RangeConcatenation, Zenon
  <2> QED
    BY <2>2 DEF head
<1> QED
  BY <1>1, <1>2

(* Erasing one node of an unregister list leaves the nodes of the others.  *)
LEMMA RemoveAtRange ==
  ASSUME NEW list \in Seq(Admins), NEW k \in DOMAIN list, NEW b \in Range(list), b # list[k]
  PROVE  b \in Range(RemoveAt(list, k))
<1> DEFINE front == SubSeq(list, 1, k - 1)
           back  == SubSeq(list, k + 1, Len(list))
<1>1. k \in 1..Len(list) /\ Len(list) \in Nat
  OBVIOUS
<1>2. front \in Seq(Admins) /\ \A j \in 1..(k - 1) : j \in DOMAIN front /\ front[j] = list[j]
  BY <1>1
<1>3. /\ back \in Seq(Admins)
      /\ \A j \in 1..(Len(list) - k) : j \in DOMAIN back /\ back[j] = list[k + j]
  BY <1>1
<1>4. PICK i \in 1..Len(list) : list[i] = b
  BY <1>1 DEF Range
<1>5. b \in Range(front) \cup Range(back)
  <2>1. CASE i < k
    <3>1. i \in DOMAIN front /\ front[i] = b
      BY <1>1, <1>2, <1>4, <2>1
    <3> QED
      BY <3>1 DEF Range
  <2>2. CASE i > k
    <3>1. i - k \in 1..(Len(list) - k) /\ k + (i - k) = i
      BY <1>1, <2>2
    <3>2. i - k \in DOMAIN back /\ back[i - k] = b
      BY <1>3, <1>4, <3>1
    <3> QED
      BY <3>2 DEF Range
  <2> QED
    BY <1>1, <1>4, <2>1, <2>2
<1>6. front \in Seq(Admins) /\ back \in Seq(Admins)
  BY <1>2, <1>3
<1>7. RemoveAt(list, k) = front \o back
  BY DEF RemoveAt
<1> HIDE DEF front, back
<1>8. Range(front \o back) = Range(front) \cup Range(back)
  BY <1>6, RangeConcatenation, Zenon
<1> QED
  BY <1>5, <1>7, <1>8

-----------------------------------------------------------------------------
(* The in-use counters, whichever way handlers are removed.                *)

(* The users of an entry are some of the clients.                          *)
LEMMA UsersOfType ==
  ASSUME NEW s
  PROVE  /\ UsersOf(s) \subseteq Clients
         /\ IsFiniteSet(UsersOf(s))
         /\ Cardinality(UsersOf(s)) \in Nat
         /\ Cardinality(UsersOf(s)) <= Cardinality(Clients)
<1>1. UsersOf(s) \subseteq Clients
  BY DEF UsersOf
<1> QED
  BY <1>1, SetsAssumption, FS_Subset, FS_CardinalityType

(* A counter that counts clients never wraps.                              *)
LEMMA CounterRoom ==
  ASSUME NEW s \in Slots
  PROVE  /\ Cardinality(Clients) \in Nat
         /\ CounterMax \in Nat
         /\ Cardinality(Clients) < CounterMax
<1>1. Cardinality(Clients) \in Nat /\ Cardinality(Slots) \in Nat
  BY SetsAssumption, FS_CardinalityType
<1>2. Cardinality(Slots) # 0
  BY SetsAssumption, FS_EmptySet
<1> DEFINE m == Cardinality(Clients)
           n == Cardinality(Slots)
<1>3. ASSUME NEW x \in Nat, NEW y \in Nat, y # 0
      PROVE  x <= x * y
  BY <1>3
<1>4. m <= m * n /\ m * n \in Nat
  BY <1>1, <1>2, <1>3
<1> QED
  BY <1>1, <1>4, CounterAssumption

(* A node that is taken for a new entry has no users left.                 *)
LEMMA RegisterEffect ==
  ASSUME Counted, NEW h, NEW s \in Slots \ inMap,
         entry' = [entry EXCEPT ![s] = [handler |-> h, inUse |-> 0, state |-> "Active"]],
         inMap' = inMap \cup {s},
         UNCHANGED <<held, cpc>>
  PROVE  /\ \A t \in inMap : t \in Slots /\ t # s
         /\ \A t \in Slots \ {s} : entry'[t] = entry[t]
         /\ entry'[s] = [handler |-> h, inUse |-> 0, state |-> "Active"]
         /\ IdleHoldNothing' /\ HeldHandlersStay' /\ CountersExact'
<1>1. /\ \A t \in inMap : t \in Slots /\ t # s
      /\ \A t \in Slots \ {s} : entry'[t] = entry[t]
      /\ entry'[s] = [handler |-> h, inUse |-> 0, state |-> "Active"]
  BY DEF Counted, TypeOK, MapTypeOK
<1>2. UsersOf(s) = {} /\ \A t \in Slots : UsersOf(t)' = UsersOf(t)
  BY DEF UsersOf, Counted, HeldHandlersStay
<1>3. CountersExact'
  BY <1>1, <1>2, FS_EmptySet DEF Counted, CountersExact
<1> QED
  BY <1>1, <1>3 DEF Counted, IdleHoldNothing, HeldHandlersStay

(* One more user of each entry in S: the fetch_add of aquireHandler and    *)
(* aquireHandlers.                                                         *)
LEMMA UseEffect ==
  ASSUME Counted, NEW c \in Clients, NEW S \in SUBSET inMap, Use(c, S),
         cpc[c] \in {"idle", "moreEntries"}, UNCHANGED inMap
  PROVE  /\ \A t \in Slots \ S : entry'[t] = entry[t]
         /\ \A t \in Slots : entry'[t].handler = entry[t].handler
         /\ \A t \in Slots : entry'[t].state = entry[t].state
         /\ cpc'[c] = "handling" /\ held[c] = {} /\ held'[c] = S
         /\ \A b \in Clients \ {c} : cpc'[b] = cpc[b] /\ held'[b] = held[b]
         /\ IdleHoldNothing' /\ HeldHandlersStay' /\ CountersExact'
<1>1. TypeOK /\ held[c] = {} /\ inMap \subseteq Slots
  BY DEF Counted, IdleHoldNothing, TypeOK, MapTypeOK
<1>2. /\ \A t \in Slots \ S : entry'[t] = entry[t]
      /\ \A t \in Slots : entry'[t].handler = entry[t].handler
      /\ \A t \in Slots : entry'[t].state = entry[t].state
      /\ \A t \in S : entry'[t].inUse = Plus(entry[t].inUse, 1)
  <2>1. \A t \in Slots : entry'[t] = IF t \in S
                                     THEN [entry[t] EXCEPT !.inUse = Plus(@, 1)]
                                     ELSE entry[t]
    BY DEF Use
  <2>2. \A t \in Slots : entry[t] \in SdhHandle
    BY <1>1 DEF TypeOK, MapTypeOK
  <2> QED
    BY <1>1, <2>1, <2>2 DEF SdhHandle
<1>3. /\ cpc'[c] = "handling" /\ held'[c] = S
      /\ \A b \in Clients \ {c} : cpc'[b] = cpc[b] /\ held'[b] = held[b]
  BY <1>1 DEF Use, TypeOK, ClientTypeOK
<1>4. /\ \A t \in S : c \notin UsersOf(t) /\ UsersOf(t)' = UsersOf(t) \cup {c}
      /\ \A t \in Slots \ S : UsersOf(t)' = UsersOf(t)
  BY <1>1, <1>3 DEF UsersOf
<1>5. IdleHoldNothing' /\ HeldHandlersStay'
  BY <1>3 DEF Counted, IdleHoldNothing, HeldHandlersStay
<1>6. CountersExact'
  <2>1. ASSUME NEW t \in S
        PROVE  entry'[t].inUse = Cardinality(UsersOf(t)')
    <3>1. /\ entry[t].inUse = Cardinality(UsersOf(t))
          /\ Cardinality(UsersOf(t)') = Cardinality(UsersOf(t)) + 1
      BY <1>4, UsersOfType, FS_AddElement DEF Counted, CountersExact
    <3>2. /\ Cardinality(UsersOf(t)) \in Nat /\ CounterMax \in Nat
          /\ Cardinality(UsersOf(t)) + 1 <= CounterMax
      BY <1>1, UsersOfType, CounterRoom
    <3> QED
      BY <1>2, <3>1, <3>2 DEF Plus
  <2>2. ASSUME NEW t \in inMap \ S
        PROVE  entry'[t].inUse = Cardinality(UsersOf(t)')
    BY <1>1, <1>2, <1>4 DEF Counted, CountersExact
  <2> QED
    BY <2>1, <2>2 DEF CountersExact
<1> QED
  BY <1>1, <1>2, <1>3, <1>5, <1>6

(* One user less: the fetch_sub of releaseHandler, which finds the counter *)
(* as large as the number of users and takes one from it.                  *)
LEMMA ReleaseEffect ==
  ASSUME Counted, NEW c \in Clients, ReleaseHandler(c)
  PROVE  /\ \E s \in held[c] :
              /\ s \in inMap /\ s \in Slots
              /\ entry[s].inUse # 0 /\ (entry[s].inUse = 1 <=> entry'[s].inUse = 0)
              /\ \A t \in Slots : entry'[t].handler = entry[t].handler
              /\ \A t \in Slots : entry'[t].state = entry[t].state
              /\ \A t \in Slots : t # s => entry'[t] = entry[t]
              /\ held' = [held EXCEPT ![c] = @ \ {s}]
              /\ held'[c] = held[c] \ {s}
              /\ \/ cpc'[c] = "handling"
                 \/ cpc'[c] = "idle" /\ held'[c] = {}
                 \/ cpc'[c] = "service" /\ cur'[c] = s /\ entry[s].state = "ServiceRemove"
                 \/ /\ cpc'[c] = "handler" /\ cur'[c] = s
                    /\ entry[s].state = "HandlerRemove" /\ entry[s].inUse = 1
              /\ entry[s].state = "ServiceRemove" => cpc'[c] = "service"
         /\ \A b \in Clients \ {c} : /\ held'[b] = held[b]
                                     /\ cpc'[b] = cpc[b]
                                     /\ cur'[b] = cur[b]
                                     /\ target'[b] = target[b]
         /\ IdleHoldNothing' /\ HeldHandlersStay' /\ CountersExact'
<1>1. PICK s \in held[c] :
        /\ entry' = SetInUse(s, Minus1(entry[s].inUse))
        /\ held' = [held EXCEPT ![c] = @ \ {s}]
        /\ \/ ReleaseBranch(entry[s].state, entry[s].inUse) = "return" /\ Return(c)
           \/ /\ ReleaseBranch(entry[s].state, entry[s].inUse) # "return"
              /\ cpc' = [cpc EXCEPT ![c] = ReleaseBranch(entry[s].state, entry[s].inUse)]
              /\ cur' = [cur EXCEPT ![c] = s]
              /\ UNCHANGED target
  BY DEF ReleaseHandler
<1>2. /\ TypeOK /\ cpc[c] = "handling" /\ UNCHANGED inMap
      /\ s \in inMap /\ s \in Slots /\ inMap \subseteq Slots
  BY DEF ReleaseHandler, Counted, HeldHandlersStay, TypeOK, MapTypeOK
<1>3. /\ held'[c] = held[c] \ {s}
      /\ \A b \in Clients \ {c} : /\ held'[b] = held[b]
                                  /\ cpc'[b] = cpc[b]
                                  /\ cur'[b] = cur[b]
                                  /\ target'[b] = target[b]
  BY <1>1, <1>2 DEF Return, TypeOK, ClientTypeOK
<1>4. /\ c \in UsersOf(s) /\ UsersOf(s)' = UsersOf(s) \ {c}
      /\ \A t \in Slots \ {s} : UsersOf(t)' = UsersOf(t)
  BY <1>2, <1>3 DEF UsersOf
<1>5. /\ entry[s].inUse = Cardinality(UsersOf(s))
      /\ Cardinality(UsersOf(s)) \in Nat
      /\ Cardinality(UsersOf(s)) # 0
      /\ Cardinality(UsersOf(s)') = Cardinality(UsersOf(s)) - 1
  BY <1>2, <1>4, UsersOfType, FS_RemoveElement, FS_EmptySet DEF Counted, CountersExact
<1>6. Minus1(entry[s].inUse) = Cardinality(UsersOf(s)')
  BY <1>5 DEF Minus1
<1>7. /\ entry'[s].inUse = Cardinality(UsersOf(s)')
      /\ \A t \in Slots : entry'[t].handler = entry[t].handler
      /\ \A t \in Slots : entry'[t].state = entry[t].state
      /\ \A t \in Slots : t # s => entry'[t] = entry[t]
  <2>1. entry \in [Slots -> SdhHandle] /\ Minus1(entry[s].inUse) \in 0..CounterMax
    BY <1>2, CounterType DEF TypeOK, MapTypeOK, SdhHandle
  <2> QED
    BY <1>1, <1>2, <1>6, <2>1, SetInUseFrame
<1>8. /\ \/ cpc'[c] = "handling"
         \/ cpc'[c] = "idle" /\ held'[c] = {}
         \/ cpc'[c] = "service" /\ cur'[c] = s /\ entry[s].state = "ServiceRemove"
         \/ /\ cpc'[c] = "handler" /\ cur'[c] = s
            /\ entry[s].state = "HandlerRemove" /\ entry[s].inUse = 1
      /\ entry[s].state = "ServiceRemove" => cpc'[c] = "service"
  BY <1>1, <1>2 DEF Return, AfterRelease, ReleaseBranch, TypeOK, ClientTypeOK
<1>9. IdleHoldNothing' /\ HeldHandlersStay'
  BY <1>2, <1>3, <1>8 DEF Counted, IdleHoldNothing, HeldHandlersStay
<1>10. CountersExact'
  BY <1>2, <1>4, <1>7 DEF Counted, CountersExact
<1>11. entry[s].inUse # 0 /\ (entry[s].inUse = 1 <=> entry'[s].inUse = 0)
  BY <1>5, <1>7
<1> QED
  BY <1>1, <1>2, <1>3, <1>7, <1>8, <1>9, <1>10, <1>11

-----------------------------------------------------------------------------
(* Types.                                                                  *)

(* The types hold at the start.                                            *)
LEMMA InitType == Init => TypeOK
<1>1. 0 \in 0..CounterMax
  BY CounterType, CounterAssumption
<1> QED
  BY <1>1, CallsAssumption
  DEF Init, TypeOK, MapTypeOK, ListTypeOK, AdminTypeOK, ClientTypeOK, SdhHandle,
      State, AdminPc, ClientPc

(* The calls of an admin keep the types.                                   *)
LEMMA AdminStepType ==
  ASSUME TypeOK, NEW a \in Admins, AdminStep(a)
  PROVE  TypeOK'
<1> USE DEF TypeOK, mapVars, listVars, adminVars, clientVars
<1>0. 0 \in 0..CounterMax
  BY CounterAssumption
<1>1. ASSUME StartCall(a)
      PROVE  /\ calls' \in [Admins -> Nat]
             /\ \A b \in Admins : calls'[b] <= MaxCalls[b]
  <2>1. calls[a] \in Nat /\ MaxCalls[a] \in Nat /\ calls[a] + 1 <= MaxCalls[a]
    <3>1. calls[a] \in Nat /\ MaxCalls[a] \in Nat
      BY CallsAssumption DEF AdminTypeOK
    <3>2. calls[a] < MaxCalls[a]
      BY <1>1 DEF StartCall
    <3> QED
      BY <3>1, <3>2
  <2>2. calls' = [calls EXCEPT ![a] = calls[a] + 1]
    BY <1>1 DEF StartCall
  <2> QED
    BY <2>1, <2>2 DEF AdminTypeOK
<1>2. ASSUME NEW h \in Registers[a], RegisterHandler(a, h)
      PROVE  TypeOK'
  <2>1. h \in Handlers
    BY CallsAssumption
  <2>2. MapTypeOK'
    BY <1>0, <1>2, <2>1 DEF RegisterHandler, MapTypeOK, SdhHandle, State
  <2> QED
    BY <1>1, <1>2, <2>2 DEF RegisterHandler, ListTypeOK, AdminTypeOK, ClientTypeOK
<1>3. ASSUME NEW h \in Unregisters[a], UnregisterHandler(a, h)
      PROVE  TypeOK'
  <2>1. h \in Handlers /\ EntriesWith(h) \subseteq Slots
    BY CallsAssumption DEF EntriesWith, MapTypeOK
  <2>2. MapTypeOK'
    <3>1. CASE entry' = entry /\ inMap' \subseteq inMap
      BY <3>1 DEF MapTypeOK
    <3>2. ASSUME NEW s \in EntriesWith(h),
                 entry' = SetState(s, "HandlerRemove"), inMap' = inMap
          PROVE  MapTypeOK'
      <4>1. "HandlerRemove" \in State /\ s \in Slots /\ entry \in [Slots -> SdhHandle]
        BY <2>1 DEF MapTypeOK, State
      <4>2. /\ entry' \in [Slots -> SdhHandle]
            /\ \A t \in Slots : entry'[t].handler = entry[t].handler
        BY <3>2, <4>1, SetStateFrame
      <4> QED
        BY <3>2, <4>2 DEF MapTypeOK
    <3> QED
      BY <1>3, <3>1, <3>2 DEF UnregisterHandler
  <2>3. ListTypeOK'
    <3>1. <<a>> \o handlerList \in Seq(Admins)
      BY PushFront DEF ListTypeOK
    <3> QED
      BY <1>3, <3>1 DEF UnregisterHandler, ListTypeOK
  <2>4. AdminTypeOK'
    <3>1. CASE UNCHANGED <<apc, arg, handle, done>>
      BY <1>1, <1>3, <3>1 DEF UnregisterHandler, AdminTypeOK
    <3>2. ASSUME NEW s \in EntriesWith(h),
                 apc' = [apc EXCEPT ![a] = "waitHandler"],
                 arg' = [arg EXCEPT ![a] = h],
                 handle' = [handle EXCEPT ![a] = s],
                 done' = [done EXCEPT ![a] = FALSE]
          PROVE  AdminTypeOK'
      BY <1>1, <1>3, <2>1, <3>2 DEF UnregisterHandler, AdminTypeOK, AdminPc
    <3> QED
      BY <1>3, <3>1, <3>2 DEF UnregisterHandler
  <2> QED
    BY <1>3, <2>2, <2>3, <2>4 DEF UnregisterHandler, ClientTypeOK
<1>4. ASSUME UnregisterHandlerAwake(a)
      PROVE  TypeOK'
  <2>1. MapTypeOK'
    BY <1>4 DEF UnregisterHandlerAwake, MapTypeOK
  <2>2. ListTypeOK'
    BY <1>4, RemoveAtType DEF UnregisterHandlerAwake, ListTypeOK
  <2>3. AdminTypeOK'
    BY <1>4 DEF UnregisterHandlerAwake, AdminTypeOK, AdminPc
  <2> QED
    BY <1>4, <2>1, <2>2, <2>3 DEF UnregisterHandlerAwake, ClientTypeOK
<1>5. ASSUME NEW p \in Withdraws[a], UnregisterService(a, p)
      PROVE  TypeOK'
  <2>1. p \in Services /\ EntriesUnder(p) \subseteq Slots
    BY CallsAssumption DEF EntriesUnder, MapTypeOK
  <2>2. AdminTypeOK'
    BY <1>0, <1>1, <1>5, <2>1 DEF UnregisterService, AdminTypeOK, AdminPc
  <2> QED
    BY <1>5, <2>2 DEF UnregisterService, MapTypeOK, ListTypeOK, ClientTypeOK
<1>6. ASSUME MarkEntry(a)
      PROVE  TypeOK'
  <2>1. PICK s \in todo[a] :
          /\ entry' = SetState(s, "ServiceRemove")
          /\ total' = [total EXCEPT ![a] = Plus(@, entry[s].inUse)]
          /\ todo' = [todo EXCEPT ![a] = @ \ {s}]
    BY <1>6 DEF MarkEntry
  <2>2. s \in Slots /\ Plus(total[a], entry[s].inUse) \in 0..CounterMax
    BY CounterType DEF AdminTypeOK, MapTypeOK, SdhHandle
  <2>3. MapTypeOK'
    <3>1. "ServiceRemove" \in State /\ entry \in [Slots -> SdhHandle]
      BY DEF MapTypeOK, State
    <3>2. /\ entry' \in [Slots -> SdhHandle]
          /\ \A t \in Slots : entry'[t].handler = entry[t].handler
      BY <2>1, <2>2, <3>1, SetStateFrame
    <3> QED
      BY <1>6, <3>2 DEF MarkEntry, MapTypeOK
  <2>4. AdminTypeOK'
    BY <1>6, <2>1, <2>2 DEF MarkEntry, AdminTypeOK
  <2> QED
    BY <1>6, <2>3, <2>4 DEF MarkEntry, ListTypeOK, ClientTypeOK
<1>7. ASSUME AwaitService(a)
      PROVE  TypeOK'
  BY <1>7, PushFront DEF AwaitService, MapTypeOK, ListTypeOK, AdminTypeOK, ClientTypeOK, AdminPc
<1>8. ASSUME EraseService(a)
      PROVE  TypeOK'
  <2>1. MapTypeOK'
    BY <1>8 DEF EraseService, MapTypeOK
  <2>2. ListTypeOK'
    BY <1>8, RemoveAtType DEF EraseService, ListTypeOK
  <2>3. AdminTypeOK'
    BY <1>0, <1>8 DEF EraseService, AdminTypeOK, AdminPc
  <2> QED
    BY <1>8, <2>1, <2>2, <2>3 DEF EraseService, ClientTypeOK
<1> QED
  BY <1>2, <1>3, <1>4, <1>5, <1>6, <1>7, <1>8 DEF AdminStep

(* The calls of a client keep the types.                                   *)
LEMMA ClientStepType ==
  ASSUME TypeOK, NEW c \in Clients, ClientStep(c)
  PROVE  TypeOK'
<1> USE DEF TypeOK, mapVars, listVars, adminVars, clientVars
<1>1. ASSUME NEW S \in SUBSET Slots,
             entry' = [s \in Slots |-> IF s \in S THEN [entry[s] EXCEPT !.inUse = Plus(@, 1)]
                                                  ELSE entry[s]]
      PROVE  /\ entry' \in [Slots -> SdhHandle]
             /\ \A s \in Slots : entry'[s].handler = entry[s].handler
  <2>1. ASSUME NEW s \in Slots
        PROVE  /\ entry[s] \in SdhHandle
               /\ [entry[s] EXCEPT !.inUse = Plus(@, 1)] \in SdhHandle
               /\ [entry[s] EXCEPT !.inUse = Plus(@, 1)].handler = entry[s].handler
    <3>1. entry[s] \in SdhHandle
      BY DEF MapTypeOK
    <3>2. Plus(entry[s].inUse, 1) \in 0..CounterMax
      BY <3>1, CounterType DEF SdhHandle
    <3> QED
      BY <3>1, <3>2 DEF SdhHandle
  <2> QED
    BY <1>1, <2>1
<1>2. ASSUME NEW i \in Ids, AquireHandler(c, i)
      PROVE  TypeOK'
  <2>1. MapTypeOK'
    <3>1. EntriesOf(i) \subseteq Slots
      BY DEF EntriesOf, MapTypeOK
    <3>2. CASE entry' = entry
      BY <1>2, <3>2 DEF AquireHandler, MapTypeOK
    <3>3. ASSUME NEW s \in EntriesOf(i), Use(c, {s})
          PROVE  MapTypeOK'
      BY <1>1, <1>2, <3>1, <3>3 DEF AquireHandler, Use, MapTypeOK
    <3> QED
      BY <1>2, <3>2, <3>3 DEF AquireHandler
  <2>2. ClientTypeOK'
    BY <1>2 DEF AquireHandler, Use, EntriesOf, ClientTypeOK, ClientPc, MapTypeOK
  <2> QED
    BY <1>2, <2>1, <2>2 DEF AquireHandler, ListTypeOK, AdminTypeOK
<1>3. ASSUME AquireHandlers(c)
      PROVE  TypeOK'
  <2> DEFINE available == {s \in EntriesOf(id[c]) : Acquirable(s)}
  <2>1. available \subseteq Slots
    BY DEF EntriesOf, MapTypeOK
  <2>2. MapTypeOK'
    <3>1. CASE entry' = entry
      BY <1>3, <3>1 DEF AquireHandlers, MapTypeOK
    <3>2. CASE Use(c, available)
      BY <1>1, <1>3, <2>1, <3>2 DEF AquireHandlers, Use, MapTypeOK
    <3> QED
      BY <1>3, <3>1, <3>2 DEF AquireHandlers
  <2>3. ClientTypeOK'
    BY <1>3, <2>1 DEF AquireHandlers, Use, ClientTypeOK, ClientPc
  <2> QED
    BY <1>3, <2>2, <2>3 DEF AquireHandlers, ListTypeOK, AdminTypeOK
<1>4. ASSUME ReleaseHandler(c)
      PROVE  TypeOK'
  <2>1. PICK s \in held[c] :
          /\ entry' = SetInUse(s, Minus1(entry[s].inUse))
          /\ held' = [held EXCEPT ![c] = @ \ {s}]
          /\ \/ Return(c)
             \/ /\ cpc' = [cpc EXCEPT ![c] = ReleaseBranch(entry[s].state, entry[s].inUse)]
                /\ cur' = [cur EXCEPT ![c] = s]
                /\ last' = [last EXCEPT ![c] = (entry[s].inUse = 1)]
                /\ ReleaseBranch(entry[s].state, entry[s].inUse) # "return"
                /\ UNCHANGED target
    BY <1>4 DEF ReleaseHandler
  <2>2. s \in Slots /\ Minus1(entry[s].inUse) \in 0..CounterMax
    BY CounterType DEF ClientTypeOK, MapTypeOK, SdhHandle
  <2>3. MapTypeOK'
    <3>1. /\ entry' \in [Slots -> SdhHandle]
          /\ \A t \in Slots : entry'[t].handler = entry[t].handler
      BY <2>1, <2>2, SetInUseFrame DEF MapTypeOK
    <3> QED
      BY <1>4, <3>1 DEF ReleaseHandler, MapTypeOK
  <2>4. ClientTypeOK'
    <3>1. CASE Return(c)
      BY <1>4, <2>1, <3>1
      DEF ReleaseHandler, Return, AfterRelease, ClientTypeOK, ClientPc
    <3>2. CASE /\ cpc' = [cpc EXCEPT ![c] = ReleaseBranch(entry[s].state, entry[s].inUse)]
               /\ cur' = [cur EXCEPT ![c] = s]
               /\ last' = [last EXCEPT ![c] = (entry[s].inUse = 1)]
               /\ ReleaseBranch(entry[s].state, entry[s].inUse) # "return"
               /\ UNCHANGED target
      <4>1. ReleaseBranch(entry[s].state, entry[s].inUse) \in {"service", "handler"}
        BY <3>2 DEF ReleaseBranch
      <4> QED
        BY <1>4, <2>1, <2>2, <3>2, <4>1 DEF ReleaseHandler, ClientTypeOK, ClientPc
    <3> QED
      BY <2>1, <3>1, <3>2
  <2> QED
    BY <1>4, <2>3, <2>4 DEF ReleaseHandler, ListTypeOK, AdminTypeOK
<1>5. ASSUME NEW pc \in ClientPc, FallThrough(c, pc), UNCHANGED <<id, held>>
      PROVE  ClientTypeOK'
  BY <1>5 DEF FallThrough, Return, AfterRelease, ClientTypeOK, ClientPc
<1>6. ASSUME ReleaseService(c)
      PROVE  TypeOK'
  <2> DEFINE nodes == FirstOf(serviceList,
                              {a \in Admins : arg[a] = ServiceOf[entry[cur[c]].handler]})
  <2>1. \A a \in nodes : a \in Admins
    BY FirstOfOwner DEF ListTypeOK
  <2>2. AdminTypeOK'
    <3>1. \A a \in Admins : Minus1(total[a]) \in 0..CounterMax
      BY CounterType DEF AdminTypeOK
    <3>2. \/ UNCHANGED total
          \/ \E a \in Admins : total' = [total EXCEPT ![a] = Minus1(total[a])]
      BY <1>6, <2>1 DEF ReleaseService
    <3>3. total' \in [Admins -> 0..CounterMax]
      BY <3>1, <3>2 DEF AdminTypeOK
    <3> QED
      BY <1>6, <3>3 DEF ReleaseService, AdminTypeOK
  <2>3. ClientTypeOK'
    <3>1. CASE FallThrough(c, "handler")
      BY <1>5, <1>6, <3>1 DEF ReleaseService, ClientPc
    <3>2. ASSUME NEW a \in nodes,
                 cpc' = [cpc EXCEPT ![c] = "serviceLatch"],
                 target' = [target EXCEPT ![c] = a], UNCHANGED <<cur, last>>
          PROVE  ClientTypeOK'
      BY <1>6, <2>1, <3>2 DEF ReleaseService, ClientTypeOK, ClientPc
    <3> QED
      BY <1>6, <3>1, <3>2 DEF ReleaseService
  <2> QED
    BY <1>6, <2>2, <2>3 DEF ReleaseService, MapTypeOK, ListTypeOK
<1>7. ASSUME CountDownService(c)
      PROVE  TypeOK'
  <2>1. ClientTypeOK'
    BY <1>5, <1>7 DEF CountDownService, ClientPc
  <2> QED
    BY <1>7, <2>1 DEF CountDownService, MapTypeOK, ListTypeOK, AdminTypeOK
<1>8. ASSUME ReleaseLast(c)
      PROVE  TypeOK'
  <2> DEFINE nodes == FirstOf(handlerList,
                        {a \in Admins : /\ handle[a] \in Slots
                                        /\ entry[handle[a]].handler = entry[cur[c]].handler})
  <2>1. \A a \in nodes : a \in Admins
    BY FirstOfOwner DEF ListTypeOK
  <2>2. ClientTypeOK'
    <3>1. CASE Return(c)
      BY <1>8, <3>1 DEF ReleaseLast, Return, AfterRelease, ClientTypeOK, ClientPc
    <3>2. ASSUME NEW a \in nodes,
                 cpc' = [cpc EXCEPT ![c] = "handlerLatch"],
                 target' = [target EXCEPT ![c] = a], UNCHANGED <<cur, last>>
          PROVE  ClientTypeOK'
      BY <1>8, <2>1, <3>2 DEF ReleaseLast, ClientTypeOK, ClientPc
    <3> QED
      BY <1>8, <3>1, <3>2 DEF ReleaseLast
  <2> QED
    BY <1>8, <2>2 DEF ReleaseLast, MapTypeOK, ListTypeOK, AdminTypeOK
<1>9. ASSUME CountDownHandler(c)
      PROVE  TypeOK'
  BY <1>9 DEF CountDownHandler, Return, AfterRelease, MapTypeOK, ListTypeOK,
              AdminTypeOK, ClientTypeOK, ClientPc
<1> QED
  BY <1>2, <1>3, <1>4, <1>6, <1>7, <1>8, <1>9 DEF ClientStep

(* Every step keeps the types.                                             *)
LEMMA TypeStep == TypeOK /\ [Next]_vars => TypeOK'
<1> SUFFICES ASSUME TypeOK, [Next]_vars
             PROVE  TypeOK'
  OBVIOUS
<1>1. CASE Next
  BY <1>1, AdminStepType, ClientStepType DEF Next
<1>2. CASE UNCHANGED vars
  BY <1>2 DEF vars, mapVars, listVars, adminVars, clientVars, TypeOK, MapTypeOK,
              ListTypeOK, AdminTypeOK, ClientTypeOK
<1> QED
  BY <1>1, <1>2

(* The handles, lists, latches and thread states of the registrar keep     *)
(* their types whatever the threads do, and every node of the map has a    *)
(* handler: the lookups never dereference a null m_pHandler.               *)
THEOREM TypeCorrect == Spec => []TypeOK
BY InitType, TypeStep, PTL DEF Spec

-----------------------------------------------------------------------------

(* Nothing the invariant speaks of has changed.                            *)
LEMMA HandlerInvFrame ==
  ASSUME HandlerInv, TypeOK',
         UNCHANGED <<entry, inMap, handlerList, apc, arg, handle, done,
                     cpc, held, cur, target>>
  PROVE  HandlerInv'
BY DEF HandlerInv, NoServiceRemoval, IdleHoldNothing, HeldHandlersStay, CountersExact,
       UsersOf, OneEntryPerHandler, WaitersEntry, RemovedEntryAwaited, OpenLatchUnused,
       Releasing, OneOpener

(* Two admins never wait for the same entry.                               *)
LEMMA OneWaiter ==
  ASSUME HandlerInv, RemovalByHandler, NEW a \in Admins, handle[a] \in Slots
  PROVE  /\ apc[a] = "waitHandler"
         /\ \A b \in Admins : handle[b] = handle[a] => b = a
<1>1. ASSUME NEW b \in Admins, handle[b] \in Slots
      PROVE  /\ apc[b] = "waitHandler"
             /\ arg[b] = entry[handle[b]].handler
             /\ arg[b] \in Unregisters[b]
  BY <1>1, SetsAssumption DEF HandlerInv, NoServiceRemoval, WaitersEntry
<1>2. ASSUME NEW b \in Admins, handle[b] = handle[a]
      PROVE  b = a
  <2>1. arg[a] \in Unregisters[a] \cap Unregisters[b]
    BY <1>1, <1>2
  <2> QED
    BY <2>1 DEF RemovalByHandler
<1> QED
  BY <1>1, <1>2

(* An idle admin finds no entry under removal with a handler of its own.   *)
LEMMA OwnEntriesActive ==
  ASSUME HandlerInv, RemovalByHandler, NEW a \in Admins, apc[a] = "idle",
         NEW h \in Registers[a] \cup Unregisters[a], NEW s \in EntriesWith(h)
  PROVE  entry[s].state = "Active"
<1>1. s \in inMap /\ s \in Slots /\ entry[s].handler = h
  BY DEF EntriesWith, HandlerInv, TypeOK, MapTypeOK
<1>2. entry[s].state \in {"Active", "HandlerRemove"}
  BY <1>1 DEF HandlerInv, TypeOK, MapTypeOK, SdhHandle, State, NoServiceRemoval
<1>3. ASSUME NEW b \in Admins, handle[b] = s
      PROVE  FALSE
  <2>1. apc[b] = "waitHandler"
    BY <1>1, <1>3, OneWaiter
  <2>2. h \in Unregisters[b]
    BY <1>1, <1>3, <2>1 DEF HandlerInv, WaitersEntry
  <2> QED
    BY <2>1, <2>2 DEF RemovalByHandler
<1> QED
  BY <1>1, <1>2, <1>3 DEF HandlerInv, RemovedEntryAwaited

(* The invariant holds at the start.                                       *)
LEMMA InitHandlerInv == Init => HandlerInv
BY InitType
DEF Init, HandlerInv, NoServiceRemoval, IdleHoldNothing, HeldHandlersStay, CountersExact,
    OneEntryPerHandler, WaitersEntry, RemovedEntryAwaited, OpenLatchUnused,
    Releasing, OneOpener

(* registerHandler.                                                        *)
LEMMA RegisterHandlerInv ==
  ASSUME HandlerInv, RemovalByHandler, TypeOK',
         NEW a \in Admins, NEW h \in Registers[a], RegisterHandler(a, h)
  PROVE  HandlerInv'
<1> USE DEF mapVars, listVars, adminVars, clientVars
<1>1. CASE UNCHANGED mapVars
  BY <1>1, HandlerInvFrame DEF RegisterHandler
<1>2. ASSUME NEW s \in Slots \ inMap,
             entry' = [entry EXCEPT ![s] =
                         [handler |-> h, inUse |-> 0, state |-> "Active"]],
             inMap' = inMap \cup {s}
      PROVE  HandlerInv'
  <2>1. /\ TypeOK
        /\ UNCHANGED <<handlerList, apc, arg, handle, done, cpc, held, cur, target>>
    BY DEF RegisterHandler, HandlerInv
  <2>2. /\ \A t \in inMap : t \in Slots /\ t # s
        /\ \A t \in Slots \ {s} : entry'[t] = entry[t]
        /\ entry'[s] = [handler |-> h, inUse |-> 0, state |-> "Active"]
        /\ IdleHoldNothing' /\ HeldHandlersStay' /\ CountersExact'
    BY <1>2, <2>1, RegisterEffect DEF HandlerInv, Counted
  <2>3. \A t \in inMap : entry[t].handler # h
    BY OwnEntriesActive DEF RegisterHandler, StartCall, EntriesWith
  <2>4. NoServiceRemoval'
    BY <1>2, <2>1, <2>2 DEF HandlerInv, NoServiceRemoval
  <2>5. OneEntryPerHandler'
    BY <1>2, <2>2, <2>3 DEF HandlerInv, OneEntryPerHandler
  <2>6. WaitersEntry'
    BY <1>2, <2>1, <2>2 DEF HandlerInv, WaitersEntry
  <2>7. RemovedEntryAwaited'
    BY <1>2, <2>1, <2>2 DEF HandlerInv, RemovedEntryAwaited
  <2>8. OpenLatchUnused'
    BY <1>2, <2>1, <2>2 DEF HandlerInv, WaitersEntry, OpenLatchUnused
  <2>9. OneOpener'
    BY <1>2, <2>1, <2>2 DEF HandlerInv, Releasing, OneOpener
  <2> QED
    BY <2>2, <2>4, <2>5, <2>6, <2>7, <2>8, <2>9 DEF HandlerInv
<1> QED
  BY <1>1, <1>2 DEF RegisterHandler

(* unregisterHandler up to its return or its wait.                         *)
LEMMA UnregisterHandlerInv ==
  ASSUME HandlerInv, RemovalByHandler, TypeOK',
         NEW a \in Admins, NEW h \in Unregisters[a], UnregisterHandler(a, h)
  PROVE  HandlerInv'
<1> USE DEF mapVars, listVars, adminVars, clientVars
<1>1. CASE UNCHANGED <<mapVars, handlerList, apc, arg, handle, done>>
  BY <1>1, HandlerInvFrame DEF UnregisterHandler
<1>2. ASSUME NEW s \in EntriesWith(h)
      PROVE  s \in inMap /\ s \in Slots /\ entry[s].state = "Active" /\ entry[s].handler = h
  BY OwnEntriesActive
  DEF UnregisterHandler, StartCall, EntriesWith, HandlerInv, TypeOK, MapTypeOK
<1>3. ASSUME NEW s \in EntriesWith(h), entry[s].inUse = 0, inMap' = inMap \ {s},
             UNCHANGED <<entry, handlerList, apc, arg, handle, done>>
      PROVE  HandlerInv'
  <2>1. UNCHANGED <<cpc, held, cur, target>>
    BY DEF UnregisterHandler
  <2>2. UsersOf(s) = {} /\ \A t \in Slots : UsersOf(t)' = UsersOf(t)
    BY <1>2, <1>3, <2>1, UsersOfType, FS_EmptySet DEF UsersOf, HandlerInv, CountersExact
  <2>3. NoServiceRemoval' /\ IdleHoldNothing' /\ OneEntryPerHandler' /\ OpenLatchUnused'
    BY <1>3, <2>1
    DEF HandlerInv, NoServiceRemoval, IdleHoldNothing, OneEntryPerHandler, OpenLatchUnused
  <2>4. HeldHandlersStay'
    BY <1>3, <2>1, <2>2 DEF HandlerInv, HeldHandlersStay, UsersOf
  <2>5. CountersExact'
    BY <1>3, <2>2 DEF HandlerInv, CountersExact, TypeOK, MapTypeOK
  <2>6. WaitersEntry' /\ RemovedEntryAwaited'
    BY <1>2, <1>3, <2>1 DEF HandlerInv, WaitersEntry, RemovedEntryAwaited
  <2>7. OneOpener'
    BY <1>2, <1>3, <2>1 DEF HandlerInv, Releasing, OneOpener
  <2> QED
    BY <2>3, <2>4, <2>5, <2>6, <2>7 DEF HandlerInv
<1>4. ASSUME NEW s \in EntriesWith(h),
             entry[s].inUse # 0,
             entry' = SetState(s, "HandlerRemove"),
             handlerList' = <<a>> \o handlerList,
             apc' = [apc EXCEPT ![a] = "waitHandler"],
             arg' = [arg EXCEPT ![a] = h],
             handle' = [handle EXCEPT ![a] = s],
             done' = [done EXCEPT ![a] = FALSE],
             UNCHANGED inMap
      PROVE  HandlerInv'
  <2>1. /\ UNCHANGED <<cpc, held, cur, target>>
        /\ apc[a] = "idle"
        /\ TypeOK
        /\ handle[a] = None
        /\ None \notin Slots
    BY SetsAssumption
    DEF UnregisterHandler, StartCall, HandlerInv, WaitersEntry
  <2>2. "HandlerRemove" \in State /\ entry \in [Slots -> SdhHandle]
    BY <2>1 DEF State, TypeOK, MapTypeOK
  <2>3. /\ entry'[s].state = "HandlerRemove"
        /\ \A t \in Slots : entry'[t].handler = entry[t].handler
        /\ \A t \in Slots : entry'[t].inUse = entry[t].inUse
        /\ \A t \in Slots : t # s => entry'[t] = entry[t]
    BY <1>2, <1>4, <2>2, SetStateFrame
  <2>4. /\ apc'[a] = "waitHandler" /\ arg'[a] = h /\ handle'[a] = s /\ done'[a] = FALSE
        /\ \A b \in Admins \ {a} : /\ apc'[b] = apc[b]
                                   /\ arg'[b] = arg[b]
                                   /\ handle'[b] = handle[b]
                                   /\ done'[b] = done[b]
    BY <1>4, <2>1 DEF TypeOK, AdminTypeOK
  <2>5. inMap \subseteq Slots
    BY <2>1 DEF TypeOK, MapTypeOK
  <2>6. NoServiceRemoval'
    BY <1>2, <2>1, <2>3, <2>4 DEF HandlerInv, NoServiceRemoval
  <2>7. IdleHoldNothing' /\ HeldHandlersStay'
    BY <1>4, <2>1 DEF HandlerInv, IdleHoldNothing, HeldHandlersStay
  <2>8. CountersExact'
    BY <1>4, <2>1, <2>3, <2>5, ZenonT(30) DEF HandlerInv, CountersExact, UsersOf
  <2>9. OneEntryPerHandler'
    BY <1>4, <2>3, <2>5 DEF HandlerInv, OneEntryPerHandler
  <2>10. WaitersEntry'
    <3>1. a \in Range(handlerList') /\ \A b \in Range(handlerList) : b \in Range(handlerList')
      BY <1>4, <2>1, PushFront DEF TypeOK, ListTypeOK
    <3>2. ASSUME NEW b \in Admins \ {a}, apc[b] = "waitHandler"
          PROVE  /\ handle[b] \in inMap /\ entry'[handle[b]] = entry[handle[b]]
                 /\ entry[handle[b]].handler = arg[b]
                 /\ entry[handle[b]].state = "HandlerRemove"
                 /\ arg[b] \in Unregisters[b]
                 /\ b \in Range(handlerList)
      BY <1>2, <2>3, <2>5, <3>2 DEF HandlerInv, WaitersEntry
    <3>3. \A b \in Admins \ {a} : apc[b] = "idle" => handle[b] = None
      BY DEF HandlerInv, WaitersEntry
    <3>4. s \in inMap /\ entry'[s].handler = h /\ h \in Unregisters[a]
      BY <1>2, <2>3
    <3> QED
      BY <1>4, <2>3, <2>4, <3>1, <3>2, <3>3, <3>4 DEF WaitersEntry
  <2>11. RemovedEntryAwaited'
    BY <1>4, <2>1, <2>3, <2>4, <2>5 DEF HandlerInv, RemovedEntryAwaited
  <2>12. OpenLatchUnused'
    BY <2>3, <2>4, <2>5 DEF HandlerInv, OpenLatchUnused, WaitersEntry
  <2>13. OneOpener'
    BY <1>2, <1>4, <2>1, <2>3, <2>4, <2>5, SMTT(30) DEF HandlerInv, Releasing, OneOpener
  <2> QED
    BY <2>6, <2>7, <2>8, <2>9, <2>10, <2>11, <2>12, <2>13 DEF HandlerInv
<1> QED
  BY <1>1, <1>3, <1>4 DEF UnregisterHandler

(* unregisterHandler after its wait: the latch was opened after the last   *)
(* user had gone, so the entry it erases, found anew, is the one it marked *)
(* and nobody holds it.                                                    *)
LEMMA UnregisterHandlerAwakeInv ==
  ASSUME HandlerInv, RemovalByHandler, TypeOK',
         NEW a \in Admins, UnregisterHandlerAwake(a)
  PROVE  HandlerInv'
<1> DEFINE s == handle[a]
<1>1. /\ TypeOK /\ apc[a] = "waitHandler" /\ done[a]
      /\ UNCHANGED <<entry, cpc, held, cur, target>>
      /\ apc' = [apc EXCEPT ![a] = "idle"]
      /\ arg' = [arg EXCEPT ![a] = None]
      /\ handle' = [handle EXCEPT ![a] = None]
      /\ done' = [done EXCEPT ![a] = FALSE]
  BY DEF UnregisterHandlerAwake, HandlerInv, clientVars
<1>2. /\ s \in inMap /\ s \in Slots
      /\ entry[s].handler = arg[a] /\ entry[s].inUse = 0
  BY <1>1 DEF HandlerInv, WaitersEntry, OpenLatchUnused, TypeOK, MapTypeOK
<1>3. inMap' = inMap \ {s}
  <2>1. EntriesWith(arg[a]) = {s}
    BY <1>2 DEF EntriesWith, HandlerInv, OneEntryPerHandler
  <2> QED
    BY <2>1 DEF UnregisterHandlerAwake
<1>4. /\ apc'[a] = "idle" /\ handle'[a] = None
      /\ \A b \in Admins \ {a} : /\ apc'[b] = apc[b]
                                 /\ arg'[b] = arg[b]
                                 /\ handle'[b] = handle[b]
                                 /\ done'[b] = done[b]
  BY <1>1 DEF TypeOK, AdminTypeOK
<1>5. UsersOf(s) = {} /\ \A t \in Slots : UsersOf(t)' = UsersOf(t)
  BY <1>1, <1>2, UsersOfType, FS_EmptySet DEF UsersOf, HandlerInv, CountersExact
<1>6. None \notin Slots /\ \A b \in Admins \ {a} : handle[b] # s
  BY <1>2, OneWaiter, SetsAssumption
<1>7. NoServiceRemoval' /\ IdleHoldNothing' /\ OneEntryPerHandler' /\ OpenLatchUnused'
  BY <1>1, <1>3, <1>4
  DEF HandlerInv, NoServiceRemoval, IdleHoldNothing, OneEntryPerHandler, OpenLatchUnused
<1>8. HeldHandlersStay'
  BY <1>1, <1>3, <1>5 DEF HandlerInv, HeldHandlersStay, UsersOf
<1>9. CountersExact'
  BY <1>1, <1>3, <1>5 DEF HandlerInv, CountersExact, TypeOK, MapTypeOK
<1>10. WaitersEntry'
  <2>1. \A b \in Range(handlerList) : b # a => b \in Range(handlerList')
    BY <1>1, RemoveAtRange DEF UnregisterHandlerAwake, TypeOK, ListTypeOK
  <2>2. ASSUME NEW b \in Admins \ {a}, apc[b] = "waitHandler"
        PROVE  /\ handle[b] \in inMap'
               /\ entry[handle[b]].handler = arg[b]
               /\ entry[handle[b]].state = "HandlerRemove"
               /\ arg[b] \in Unregisters[b]
               /\ b \in Range(handlerList)
    BY <1>3, <1>6, <2>2 DEF HandlerInv, WaitersEntry
  <2>3. \A b \in Admins \ {a} : apc[b] = "idle" => handle[b] = None
    BY DEF HandlerInv, WaitersEntry
  <2> QED
    BY <1>1, <1>4, <2>1, <2>2, <2>3 DEF WaitersEntry
<1>11. RemovedEntryAwaited'
  BY <1>1, <1>3, <1>4 DEF HandlerInv, RemovedEntryAwaited
<1>12. OneOpener'
  <2>1. \A c \in Releasing : cur[c] # s
    BY <1>1 DEF HandlerInv, OneOpener
  <2> QED
    BY <1>1, <1>2, <1>3, <1>4, <1>6, <2>1
    DEF HandlerInv, Releasing, OneOpener, TypeOK, MapTypeOK
<1> QED
  BY <1>7, <1>8, <1>9, <1>10, <1>11, <1>12 DEF HandlerInv

(* One more user of each entry in S, none of which is under removal.       *)
LEMMA UseInv ==
  ASSUME HandlerInv, RemovalByHandler, TypeOK',
         NEW c \in Clients, NEW S \in SUBSET inMap, Use(c, S), S # {},
         cpc[c] \in {"idle", "moreEntries"},
         \A s \in S : entry[s].state = "Active",
         UNCHANGED <<inMap, handlerList, apc, arg, handle, done, cur, target>>
  PROVE  HandlerInv'
<1>1. inMap \subseteq Slots
  BY DEF HandlerInv, TypeOK, MapTypeOK
<1>2. /\ \A t \in Slots \ S : entry'[t] = entry[t]
      /\ \A t \in Slots : entry'[t].handler = entry[t].handler
      /\ \A t \in Slots : entry'[t].state = entry[t].state
      /\ cpc'[c] = "handling"
      /\ \A b \in Clients \ {c} : cpc'[b] = cpc[b] /\ held'[b] = held[b]
      /\ IdleHoldNothing' /\ HeldHandlersStay' /\ CountersExact'
  BY UseEffect DEF HandlerInv, Counted
<1>3. NoServiceRemoval'
  BY <1>2 DEF HandlerInv, NoServiceRemoval
<1>4. OneEntryPerHandler'
  BY <1>1, <1>2 DEF HandlerInv, OneEntryPerHandler
<1>5. WaitersEntry'
  BY <1>1, <1>2 DEF HandlerInv, WaitersEntry
<1>6. RemovedEntryAwaited'
  BY <1>1, <1>2 DEF HandlerInv, RemovedEntryAwaited
<1>7. OpenLatchUnused'
  BY <1>1, <1>2 DEF HandlerInv, OpenLatchUnused, WaitersEntry
<1>8. OneOpener'
  <2>1. Releasing' = Releasing
    BY <1>2 DEF Releasing
  <2>2. \A b \in Releasing : cur[b] \in inMap \ S /\ cpc'[b] = cpc[b]
    BY <1>2 DEF HandlerInv, Releasing, OneOpener
  <2> QED
    BY <1>1, <1>2, <2>1, <2>2 DEF HandlerInv, OneOpener
<1> QED
  BY <1>2, <1>3, <1>4, <1>5, <1>6, <1>7, <1>8 DEF HandlerInv

(* aquireHandler and aquireHandlers.                                       *)
LEMMA AquireInv ==
  ASSUME HandlerInv, RemovalByHandler, TypeOK', NEW c \in Clients,
         \/ \E i \in Ids : AquireHandler(c, i)
         \/ AquireHandlers(c)
  PROVE  HandlerInv'
<1> USE DEF listVars, adminVars
<1>1. ASSUME UNCHANGED <<entry, inMap, held, listVars, adminVars, cur, target>>,
             cpc' = cpc \/ (cpc[c] \in {"idle", "moreEntries"} /\
                           \E pc \in {"idle", "moreEntries"} : cpc' = [cpc EXCEPT ![c] = pc])
      PROVE  HandlerInv'
  <2>1. CASE cpc' = cpc
    BY <1>1, <2>1, HandlerInvFrame
  <2>2. ASSUME NEW pc \in {"idle", "moreEntries"}, cpc[c] \in {"idle", "moreEntries"},
               cpc' = [cpc EXCEPT ![c] = pc]
        PROVE  HandlerInv'
    <3>1. cpc'[c] = pc /\ \A b \in Clients \ {c} : cpc'[b] = cpc[b]
      BY <2>2 DEF HandlerInv, TypeOK, ClientTypeOK
    <3>2. Releasing' = Releasing /\ \A b \in Releasing : cpc'[b] = cpc[b]
      BY <2>2, <3>1 DEF Releasing
    <3>3. NoServiceRemoval' /\ IdleHoldNothing' /\ HeldHandlersStay'
      BY <1>1, <2>2, <3>1 DEF HandlerInv, NoServiceRemoval, IdleHoldNothing, HeldHandlersStay
    <3>4. CountersExact' /\ OneEntryPerHandler' /\ WaitersEntry'
      BY <1>1 DEF HandlerInv, CountersExact, UsersOf, OneEntryPerHandler, WaitersEntry
    <3>5. RemovedEntryAwaited' /\ OpenLatchUnused'
      BY <1>1 DEF HandlerInv, RemovedEntryAwaited, OpenLatchUnused
    <3>6. OneOpener'
      BY <1>1, <3>2 DEF HandlerInv, OneOpener
    <3> QED
      BY <3>3, <3>4, <3>5, <3>6 DEF HandlerInv
  <2> QED
    BY <1>1, <2>1, <2>2
<1>2. ASSUME NEW i \in Ids, AquireHandler(c, i)
      PROVE  HandlerInv'
  <2>1. CASE UNCHANGED <<entry, held>> /\ \/ UNCHANGED cpc
                                          \/ cpc' = [cpc EXCEPT ![c] = "moreEntries"]
    BY <1>1, <1>2, <2>1 DEF AquireHandler
  <2>2. ASSUME NEW s \in EntriesOf(i), Acquirable(s), Use(c, {s})
        PROVE  HandlerInv'
    <3>1. {s} \in SUBSET inMap /\ {s} # {} /\ \A t \in {s} : entry[t].state = "Active"
      BY <2>2 DEF EntriesOf, Acquirable
    <3> QED
      BY <1>2, <2>2, <3>1, UseInv DEF AquireHandler
  <2> QED
    BY <1>2, <2>1, <2>2 DEF AquireHandler
<1>3. ASSUME AquireHandlers(c)
      PROVE  HandlerInv'
  <2> DEFINE available == {s \in EntriesOf(id[c]) : Acquirable(s)}
  <2>1. CASE UNCHANGED <<entry, held>> /\ cpc' = [cpc EXCEPT ![c] = "idle"]
    BY <1>1, <1>3, <2>1 DEF AquireHandlers
  <2>2. CASE available # {} /\ Use(c, available)
    <3>1. available \in SUBSET inMap /\ \A t \in available : entry[t].state = "Active"
      BY DEF EntriesOf, Acquirable
    <3> HIDE DEF available
    <3>2. /\ UNCHANGED <<inMap, handlerList, apc, arg, handle, done, cur, target>>
          /\ cpc[c] \in {"idle", "moreEntries"}
      BY <1>3 DEF AquireHandlers
    <3> QED
      BY <2>2, <3>1, <3>2, UseInv
  <2> QED
    BY <1>3, <2>1, <2>2 DEF AquireHandlers
<1> QED
  BY <1>2, <1>3

(* releaseHandler up to its switch.                                        *)
LEMMA ReleaseHandlerInv ==
  ASSUME HandlerInv, RemovalByHandler, TypeOK', NEW c \in Clients, ReleaseHandler(c)
  PROVE  HandlerInv'
<1> USE DEF listVars, adminVars
<1>1. PICK s \in held[c] :
        /\ s \in inMap /\ s \in Slots
        /\ entry[s].inUse # 0 /\ (entry[s].inUse = 1 <=> entry'[s].inUse = 0)
        /\ \A t \in Slots : entry'[t].handler = entry[t].handler
        /\ \A t \in Slots : entry'[t].state = entry[t].state
        /\ \A t \in Slots : t # s => entry'[t] = entry[t]
        /\ \/ cpc'[c] = "handling"
           \/ cpc'[c] = "idle"
           \/ cpc'[c] = "service" /\ entry[s].state = "ServiceRemove"
           \/ /\ cpc'[c] = "handler" /\ cur'[c] = s
              /\ entry[s].state = "HandlerRemove" /\ entry[s].inUse = 1
  BY ReleaseEffect DEF HandlerInv, Counted
<1>2. /\ TypeOK /\ cpc[c] = "handling" /\ inMap \subseteq Slots
      /\ UNCHANGED <<inMap, handlerList, apc, arg, handle, done>>
  BY DEF ReleaseHandler, HandlerInv, TypeOK, MapTypeOK
<1>3. /\ \A b \in Clients \ {c} : /\ cpc'[b] = cpc[b]
                                  /\ cur'[b] = cur[b]
                                  /\ target'[b] = target[b]
      /\ IdleHoldNothing' /\ HeldHandlersStay' /\ CountersExact'
  BY ReleaseEffect DEF HandlerInv, Counted
<1>4. \/ cpc'[c] = "handling"
      \/ cpc'[c] = "idle"
      \/ /\ cpc'[c] = "handler" /\ cur'[c] = s
         /\ entry[s].state = "HandlerRemove" /\ entry[s].inUse = 1
  BY <1>1 DEF HandlerInv, NoServiceRemoval
<1>5. NoServiceRemoval'
  BY <1>1, <1>2, <1>3, <1>4 DEF HandlerInv, NoServiceRemoval
<1>6. OneEntryPerHandler' /\ WaitersEntry' /\ RemovedEntryAwaited'
  BY <1>1, <1>2 DEF HandlerInv, OneEntryPerHandler, WaitersEntry, RemovedEntryAwaited
<1>7. OpenLatchUnused'
  BY <1>1, <1>2 DEF HandlerInv, OpenLatchUnused, WaitersEntry
<1>8. OneOpener'
  <2>1. ASSUME NEW b \in Releasing
        PROVE  b # c /\ cur[b] # s /\ cur[b] \in Slots
    BY <1>1, <1>2, <2>1 DEF HandlerInv, Releasing, OneOpener
  <2>2. \A a \in Admins : handle[a] = s /\ entry[s].inUse = 1 => ~done[a]
    BY <1>1, OneWaiter DEF HandlerInv, OpenLatchUnused
  <2>3. Releasing' = Releasing \/ Releasing' = Releasing \cup {c}
    BY <1>2, <1>3, <1>4 DEF Releasing
  <2>4. ASSUME NEW b \in Releasing
        PROVE  /\ cur'[b] \in inMap'
               /\ entry'[cur'[b]].state = "HandlerRemove"
               /\ entry'[cur'[b]].inUse = 0
               /\ \A a \in Admins : handle'[a] = cur'[b] => ~done'[a]
               /\ cpc'[b] = "handlerLatch" =>
                    target'[b] \in Admins /\ handle'[target'[b]] = cur'[b]
    BY <1>1, <1>2, <1>3, <2>1, <2>4 DEF HandlerInv, Releasing, OneOpener
  <2>5. \A b, d \in Releasing : cur'[b] = cur'[d] => b = d
    BY <1>3, <2>1 DEF HandlerInv, Releasing, OneOpener
  <2>6. ASSUME c \in Releasing'
        PROVE  /\ cpc'[c] = "handler" /\ cur'[c] = s /\ cur'[c] \in inMap'
               /\ entry'[s].state = "HandlerRemove"
               /\ entry'[s].inUse = 0
               /\ \A a \in Admins : handle'[a] = s => ~done'[a]
    BY <1>1, <1>2, <1>4, <2>2, <2>6 DEF Releasing
  <2>7. \A b \in Releasing : cur'[b] # s
    BY <1>3, <2>1 DEF Releasing
  <2> QED
    BY <2>3, <2>4, <2>5, <2>6, <2>7 DEF OneOpener
<1> QED
  BY <1>3, <1>5, <1>6, <1>7, <1>8 DEF HandlerInv

(* case HandlerRemove for the last user: the node it finds is that of the  *)
(* admin that waits for the client's own entry.                            *)
LEMMA ReleaseLastInv ==
  ASSUME HandlerInv, RemovalByHandler, TypeOK', NEW c \in Clients, ReleaseLast(c)
  PROVE  HandlerInv'
<1> USE DEF mapVars, listVars, adminVars
<1> DEFINE waiters == {a \in Admins : /\ handle[a] \in Slots
                                      /\ entry[handle[a]].handler = entry[cur[c]].handler}
           nodes == FirstOf(handlerList, waiters)
<1>1. /\ TypeOK /\ cpc[c] = "handler" /\ c \in Releasing
      /\ UNCHANGED <<entry, inMap, handlerList, apc, arg, handle, done, held>>
  BY DEF ReleaseLast, HandlerInv, NoServiceRemoval, Releasing
<1>2. \A a \in nodes : a \in Admins /\ handle[a] = cur[c]
  <2>1. ASSUME NEW a \in nodes
        PROVE  a \in Admins /\ handle[a] \in Slots /\ a \in waiters
    BY <1>1, FirstOfOwner DEF TypeOK, ListTypeOK
  <2>2. ASSUME NEW a \in waiters
        PROVE  handle[a] = cur[c]
    <3>1. handle[a] \in inMap /\ cur[c] \in inMap
      BY <1>1, OneWaiter DEF HandlerInv, WaitersEntry, OneOpener
    <3> QED
      BY <3>1 DEF HandlerInv, OneEntryPerHandler
  <2> QED
    BY <2>1, <2>2
<1>3. \/ Return(c)
      \/ \E a \in nodes : /\ cpc' = [cpc EXCEPT ![c] = "handlerLatch"]
                          /\ target' = [target EXCEPT ![c] = a]
                          /\ UNCHANGED cur
  BY DEF ReleaseLast
<1> HIDE DEF nodes
<1>4. /\ \A b \in Clients \ {c} : /\ cpc'[b] = cpc[b]
                                  /\ cur'[b] = cur[b]
                                  /\ target'[b] = target[b]
      /\ \/ cpc'[c] = "handling"
         \/ cpc'[c] = "idle" /\ held[c] = {}
         \/ /\ cpc'[c] = "handlerLatch" /\ cur'[c] = cur[c]
            /\ target'[c] \in Admins /\ handle[target'[c]] = cur[c]
  BY <1>1, <1>2, <1>3 DEF Return, AfterRelease, TypeOK, ClientTypeOK
<1>5. NoServiceRemoval' /\ IdleHoldNothing' /\ HeldHandlersStay'
  BY <1>1, <1>4 DEF HandlerInv, NoServiceRemoval, IdleHoldNothing, HeldHandlersStay
<1>6. CountersExact' /\ OneEntryPerHandler' /\ WaitersEntry'
  BY <1>1 DEF HandlerInv, CountersExact, UsersOf, OneEntryPerHandler, WaitersEntry
<1>7. RemovedEntryAwaited' /\ OpenLatchUnused'
  BY <1>1 DEF HandlerInv, RemovedEntryAwaited, OpenLatchUnused
<1>8. OneOpener'
  BY <1>1, <1>4 DEF HandlerInv, Releasing, OneOpener
<1> QED
  BY <1>5, <1>6, <1>7, <1>8 DEF HandlerInv

(* done.count_down(), without the mutex.                                   *)
LEMMA CountDownHandlerInv ==
  ASSUME HandlerInv, RemovalByHandler, TypeOK', NEW c \in Clients, CountDownHandler(c)
  PROVE  HandlerInv'
<1> USE DEF mapVars, listVars, adminVars
<1> DEFINE a == target[c]
<1>1. /\ TypeOK /\ cpc[c] = "handlerLatch" /\ c \in Releasing
      /\ UNCHANGED <<entry, inMap, handlerList, apc, arg, handle, held>>
      /\ done' = [done EXCEPT ![a] = TRUE]
  BY DEF CountDownHandler, HandlerInv, Releasing
<1>2. /\ a \in Admins /\ handle[a] = cur[c] /\ entry[cur[c]].inUse = 0
      /\ \A b \in Releasing : cur[b] = cur[c] => b = c
  BY <1>1 DEF HandlerInv, OneOpener
<1>3. done'[a] /\ \A b \in Admins \ {a} : done'[b] = done[b]
  BY <1>1, <1>2 DEF TypeOK, AdminTypeOK
<1>4. /\ \A b \in Clients \ {c} : /\ cpc'[b] = cpc[b]
                                  /\ cur'[b] = cur[b]
                                  /\ target'[b] = target[b]
      /\ cpc'[c] = "handling" \/ (cpc'[c] = "idle" /\ held[c] = {})
  <2>1. Return(c) /\ held' = held
    BY DEF CountDownHandler
  <2>2. ClientTypeOK
    BY <1>1 DEF TypeOK
  <2> QED
    BY <2>1, <2>2 DEF Return, AfterRelease, ClientTypeOK
<1>5. NoServiceRemoval' /\ IdleHoldNothing' /\ HeldHandlersStay'
  BY <1>1, <1>4 DEF HandlerInv, NoServiceRemoval, IdleHoldNothing, HeldHandlersStay
<1>6. CountersExact' /\ OneEntryPerHandler' /\ WaitersEntry'
  BY <1>1 DEF HandlerInv, CountersExact, UsersOf, OneEntryPerHandler, WaitersEntry
<1>7. RemovedEntryAwaited' /\ OpenLatchUnused'
  BY <1>1, <1>2, <1>3 DEF HandlerInv, RemovedEntryAwaited, OpenLatchUnused
<1>8. OneOpener'
  <2>1. Releasing' = Releasing \ {c}
    BY <1>1, <1>4 DEF Releasing
  <2>2. \A b \in Releasing \ {c} : cur[b] # handle[a] /\ b \in Clients
    BY <1>2 DEF Releasing
  <2> QED
    BY <1>1, <1>3, <1>4, <2>1, <2>2 DEF HandlerInv, OneOpener
<1> QED
  BY <1>5, <1>6, <1>7, <1>8 DEF HandlerInv

(* Every step.                                                             *)
LEMMA NextHandlerInv ==
  ASSUME HandlerInv, RemovalByHandler, [Next]_vars
  PROVE  HandlerInv'
<1>1. TypeOK /\ TypeOK'
  BY TypeStep DEF HandlerInv
<1>2. ASSUME NEW a \in Admins, AdminStep(a)
      PROVE  HandlerInv'
  <2>1. apc[a] \in {"idle", "waitHandler"} /\ Withdraws[a] = {}
    BY DEF HandlerInv, NoServiceRemoval, RemovalByHandler
  <2>2. ~MarkEntry(a) /\ ~AwaitService(a) /\ ~EraseService(a)
    BY <2>1 DEF MarkEntry, AwaitService, EraseService
  <2> QED
    BY <1>1, <1>2, <2>1, <2>2, RegisterHandlerInv, UnregisterHandlerInv,
       UnregisterHandlerAwakeInv
    DEF AdminStep
<1>3. ASSUME NEW c \in Clients, ClientStep(c)
      PROVE  HandlerInv'
  <2>1. cpc[c] \in {"idle", "moreEntries", "handling", "handler", "handlerLatch"}
    BY DEF HandlerInv, NoServiceRemoval
  <2>2. ~ReleaseService(c) /\ ~CountDownService(c)
    BY <2>1 DEF ReleaseService, CountDownService
  <2> QED
    BY <1>1, <1>3, <2>2, AquireInv, ReleaseHandlerInv, ReleaseLastInv, CountDownHandlerInv
    DEF ClientStep
<1>4. CASE UNCHANGED vars
  BY <1>1, <1>4, HandlerInvFrame DEF vars, mapVars, listVars, adminVars, clientVars
<1> QED
  BY <1>2, <1>3, <1>4 DEF Next

(* HandlerInv holds in every state of a server whose handlers are removed  *)
(* with unregisterHandler only, each by the thread that registered it.     *)
THEOREM HandlerInvHolds == ASSUME RemovalByHandler PROVE Spec => []HandlerInv
<1>1. HandlerInv /\ [Next]_vars => HandlerInv'
  BY NextHandlerInv
<1> QED
  BY <1>1, InitHandlerInv, PTL DEF Spec

(* No unregisterHandler erases an entry, or returns, while a thread of     *)
(* Server::handleData still has the handler: the destructor of a service   *)
(* that has unregistered its handlers destroys nothing in use.             *)
THEOREM RemovalByHandlerSafe == ASSUME RemovalByHandler PROVE Spec => []HeldHandlersStay
<1>1. HandlerInv => HeldHandlersStay
  BY DEF HandlerInv
<1> QED
  BY <1>1, HandlerInvHolds, PTL

(* The in-use counters are exact: aquireHandler, aquireHandlers and        *)
(* releaseHandler lose no update and no counter wraps.                     *)
THEOREM RemovalByHandlerCounts == ASSUME RemovalByHandler PROVE Spec => []CountersExact
<1>1. HandlerInv => CountersExact
  BY DEF HandlerInv
<1> QED
  BY <1>1, HandlerInvHolds, PTL

(* A latch is counted down once, by one client, while its node is still in *)
(* m_unregisterHandlerList: releaseHandler unlocks before count_down, and  *)
(* the node outlives that window.                                          *)
THEOREM RemovalByHandlerLatches == ASSUME RemovalByHandler PROVE Spec => []LatchCountedOnce
<1>1. HandlerInv => LatchCountedOnce
  <2> SUFFICES ASSUME HandlerInv
               PROVE  LatchCountedOnce
    OBVIOUS
  <2>1. \A c \in Clients : cpc[c] # "serviceLatch"
    BY DEF HandlerInv, NoServiceRemoval
  <2>2. ASSUME NEW c \in Clients, cpc[c] = "handlerLatch"
        PROVE  /\ c \in Releasing
               /\ target[c] \in Admins /\ handle[target[c]] = cur[c]
               /\ cur[c] \in Slots
               /\ ~done[target[c]]
    BY <2>2 DEF HandlerInv, Releasing, OneOpener, TypeOK, MapTypeOK
  <2>3. ASSUME NEW c \in Clients, cpc[c] = "handlerLatch"
        PROVE  target[c] \in Range(handlerList)
    <3>1. apc[target[c]] = "waitHandler"
      BY <2>2, <2>3, SetsAssumption DEF HandlerInv, NoServiceRemoval, WaitersEntry
    <3> QED
      BY <2>2, <2>3, <3>1 DEF HandlerInv, WaitersEntry
  <2>4. ASSUME NEW c \in Clients, cpc[c] = "handlerLatch",
               NEW b \in Clients \ {c}, cpc[b] = "handlerLatch"
        PROVE  target[b] # target[c]
    BY <2>2, <2>4 DEF HandlerInv, OneOpener
  <2> QED
    BY <2>1, <2>2, <2>3, <2>4 DEF LatchCountedOnce
<1> QED
  BY <1>1, HandlerInvHolds, PTL

-----------------------------------------------------------------------------
(* Removal by service.                                                     *)

(* The uses an admin has to wait for are too few for its counter to wrap.  *)
LEMMA UsesBounded ==
  ASSUME NEW D \in SUBSET (Clients \X Slots)
  PROVE  /\ IsFiniteSet(D)
         /\ Cardinality(D) \in Nat
         /\ CounterMax \in Nat
         /\ Cardinality(D) < CounterMax
<1>1. /\ IsFiniteSet(Clients \X Slots)
      /\ Cardinality(Clients \X Slots) = Cardinality(Clients) * Cardinality(Slots)
  BY SetsAssumption, FS_Product
<1>2. IsFiniteSet(D) /\ Cardinality(D) <= Cardinality(Clients \X Slots)
  BY <1>1, FS_Subset
<1>3. Cardinality(D) \in Nat /\ Cardinality(Clients \X Slots) \in Nat
  BY <1>1, <1>2, FS_CardinalityType
<1> QED
  BY <1>1, <1>2, <1>3, CounterAssumption

(* What an administrator drains is a finite set of uses.                   *)
LEMMA DrainingType ==
  ASSUME NEW a
  PROVE  /\ Draining(a) \in SUBSET (Clients \X Slots)
         /\ IsFiniteSet(Draining(a))
         /\ Cardinality(Draining(a)) \in Nat
<1>1. Draining(a) \in SUBSET (Clients \X Slots)
  BY DEF Draining
<1> QED
  BY <1>1, UsesBounded

(* Two admins never withdraw the same service.                             *)
LEMMA OneWithdrawer ==
  ASSUME ServiceInv, RemovalByService,
         NEW a \in Admins, NEW b \in Admins, apc[a] # "idle", arg[b] = arg[a]
  PROVE  b = a
<1>1. arg[a] \in Withdraws[a] /\ arg[a] \in Services
  BY CallsAssumption DEF ServiceInv, Withdrawals
<1>2. apc[b] # "idle"
  BY <1>1, SetsAssumption DEF ServiceInv, Withdrawals
<1>3. arg[a] \in Withdraws[b]
  BY <1>2 DEF ServiceInv, Withdrawals
<1> QED
  BY <1>1, <1>3 DEF RemovalByService

(* Nothing the invariant speaks of has changed.                            *)
LEMMA ServiceInvFrame ==
  ASSUME ServiceInv, TypeOK',
         UNCHANGED <<entry, inMap, listVars, apc, arg, todo, total, done,
                     cpc, held, cur, target>>
  PROVE  ServiceInv'
<1>1. \A a : Draining(a)' = Draining(a)
  BY DEF Draining, EntriesUnder
<1>2. NoHandlerRemoval' /\ IdleHoldNothing' /\ HeldHandlersStay' /\ CountersExact'
  BY DEF ServiceInv, NoHandlerRemoval, IdleHoldNothing, HeldHandlersStay, CountersExact,
         UsersOf, listVars
<1>3. LoopAlone' /\ ReadersEntry' /\ Withdrawals' /\ MarkedEntryWithdrawn'
  BY DEF ServiceInv, LoopAlone, Readers, ReadersEntry, Withdrawals, MarkedEntryWithdrawn,
         EntriesUnder, listVars
<1>4. NodeCountersExact' /\ OneServiceOpener' /\ OpenLatchDrained'
  BY <1>1 DEF ServiceInv, NodeCountersExact, OneServiceOpener, OpenLatchDrained
<1> QED
  BY <1>2, <1>3, <1>4 DEF ServiceInv

(* The invariant holds at the start.                                       *)
LEMMA InitServiceInv == Init => ServiceInv
BY InitType
DEF Init, ServiceInv, NoHandlerRemoval, IdleHoldNothing, HeldHandlersStay, CountersExact,
    LoopAlone, Readers, ReadersEntry, Withdrawals, MarkedEntryWithdrawn, NodeCountersExact,
    OneServiceOpener, OpenLatchDrained

-----------------------------------------------------------------------------
(* Admins.                                                                 *)

(* registerHandler: the new entry belongs to no service being withdrawn.   *)
LEMMA RegisterServiceInv ==
  ASSUME ServiceInv, RemovalByService, TypeOK',
         NEW a \in Admins, NEW h \in Registers[a], RegisterHandler(a, h)
  PROVE  ServiceInv'
<1> USE DEF mapVars, listVars, clientVars
<1>1. CASE UNCHANGED mapVars
  BY <1>1, ServiceInvFrame DEF RegisterHandler
<1>2. ASSUME NEW s \in Slots \ inMap,
             entry' = [entry EXCEPT ![s] =
                         [handler |-> h, inUse |-> 0, state |-> "Active"]],
             inMap' = inMap \cup {s}
      PROVE  ServiceInv'
  <2>1. /\ TypeOK
        /\ UNCHANGED <<listVars, apc, arg, todo, total, done, cpc, held, cur, target>>
        /\ apc[a] = "idle"
    BY DEF RegisterHandler, StartCall, ServiceInv
  <2>2. /\ \A t \in inMap : t \in Slots /\ t # s
        /\ \A t \in Slots \ {s} : entry'[t] = entry[t]
        /\ entry'[s] = [handler |-> h, inUse |-> 0, state |-> "Active"]
        /\ IdleHoldNothing' /\ HeldHandlersStay' /\ CountersExact'
    BY <1>2, <2>1, RegisterEffect DEF ServiceInv, Counted
  <2>3. ASSUME NEW b \in Admins, apc[b] # "idle"
        PROVE  EntriesUnder(arg[b])' = EntriesUnder(arg[b])
    <3>1. arg[b] \in Withdraws[b] /\ b # a
      BY <2>1, <2>3 DEF ServiceInv, Withdrawals
    <3>2. arg[b] # ServiceOf[h]
      BY <3>1 DEF RemovalByService
    <3> QED
      BY <1>2, <2>1, <2>2, <3>2 DEF EntriesUnder
  <2>4. \A b \in Admins : apc[b] # "idle" => Draining(b)' = Draining(b)
    BY <2>1, <2>3 DEF Draining
  <2>5. NoHandlerRemoval' /\ LoopAlone' /\ ReadersEntry'
    BY <1>2, <2>1, <2>2
    DEF ServiceInv, NoHandlerRemoval, LoopAlone, Readers, ReadersEntry
  <2>6. Withdrawals'
    <3>1. ASSUME NEW b \in Admins, apc[b] # "idle", NEW t \in EntriesUnder(arg[b]) \ todo[b]
          PROVE  entry'[t].state = "ServiceRemove"
      BY <2>2, <3>1 DEF ServiceInv, Withdrawals, EntriesUnder
    <3> QED
      BY <2>1, <2>3, <3>1 DEF ServiceInv, Withdrawals
  <2>7. MarkedEntryWithdrawn'
    BY <1>2, <2>1, <2>2 DEF ServiceInv, MarkedEntryWithdrawn
  <2>8. NodeCountersExact' /\ OneServiceOpener' /\ OpenLatchDrained'
    BY <2>1, <2>4 DEF ServiceInv, NodeCountersExact, OneServiceOpener, OpenLatchDrained
  <2> QED
    BY <2>2, <2>5, <2>6, <2>7, <2>8 DEF ServiceInv
<1> QED
  BY <1>1, <1>2 DEF RegisterHandler

(* unregisterService: the mutex is taken while nobody reads, and there is  *)
(* nothing to wait for yet.                                                *)
LEMMA UnregisterServiceInv ==
  ASSUME ServiceInv, RemovalByService, TypeOK',
         NEW a \in Admins, NEW p \in Withdraws[a], UnregisterService(a, p)
  PROVE  ServiceInv'
<1>1. /\ TypeOK /\ apc[a] = "idle" /\ Readers = {}
      /\ UNCHANGED <<entry, inMap, listVars, done, cpc, held, cur, target>>
  BY DEF UnregisterService, StartCall, Lock, ServiceInv, mapVars, clientVars
<1>2. /\ apc'[a] = "mark" /\ arg'[a] = p /\ todo'[a] = EntriesUnder(p) /\ total'[a] = 0
      /\ \A b \in Admins \ {a} : /\ apc'[b] = apc[b]
                                 /\ arg'[b] = arg[b]
                                 /\ todo'[b] = todo[b]
                                 /\ total'[b] = total[b]
  BY <1>1 DEF UnregisterService, TypeOK, AdminTypeOK
<1>3. \A q : EntriesUnder(q)' = EntriesUnder(q)
  BY <1>1 DEF EntriesUnder
<1>4. Draining(a)' = {} /\ \A b \in Admins \ {a} : Draining(b)' = Draining(b)
  <2>1. Draining(a)' = {}
    BY <1>2, <1>3 DEF Draining
  <2>2. ASSUME NEW b \in Admins \ {a}
        PROVE  Draining(b)' = Draining(b)
    <3>1. UNCHANGED <<held, cpc, cur>> /\ UNCHANGED <<arg[b], todo[b]>>
      BY <1>1, <1>2
    <3>2. EntriesUnder(arg[b])' = EntriesUnder(arg[b])
      BY <1>3, <3>1
    <3>3. QED
      BY <3>1, <3>2 DEF Draining
  <2>3. QED
    BY <2>1, <2>2
<1>5. NoHandlerRemoval' /\ IdleHoldNothing' /\ HeldHandlersStay' /\ CountersExact'
  <2>1. NoHandlerRemoval'
    BY <1>1, <1>2 DEF ServiceInv, NoHandlerRemoval, listVars
  <2>2. IdleHoldNothing' /\ HeldHandlersStay'
    BY <1>1 DEF ServiceInv, IdleHoldNothing, HeldHandlersStay
  <2>3. CountersExact'
    BY <1>1 DEF ServiceInv, CountersExact, UsersOf
  <2>4. QED
    BY <2>1, <2>2, <2>3
<1>6. LoopAlone' /\ ReadersEntry'
  BY <1>1 DEF ServiceInv, LoopAlone, Readers, ReadersEntry
<1>7. Withdrawals'
  BY <1>1, <1>2, <1>3 DEF ServiceInv, Withdrawals, listVars
<1>8. MarkedEntryWithdrawn'
  BY <1>1, <1>2 DEF ServiceInv, MarkedEntryWithdrawn
<1>9. NodeCountersExact' /\ OpenLatchDrained'
  BY <1>1, <1>2, <1>4, FS_EmptySet DEF ServiceInv, NodeCountersExact, OpenLatchDrained
<1>10. OneServiceOpener'
  BY <1>1, <1>2 DEF ServiceInv, OneServiceOpener
<1> QED
  BY <1>5, <1>6, <1>7, <1>8, <1>9, <1>10 DEF ServiceInv

(* One iteration of the loop: the counter of the entry, which is exact,    *)
(* adds its users to those the node counts.                                *)
LEMMA MarkEntryInv ==
  ASSUME ServiceInv, RemovalByService, TypeOK', NEW a \in Admins, MarkEntry(a)
  PROVE  ServiceInv'
<1>1. PICK s \in todo[a] :
        /\ entry' = SetState(s, "ServiceRemove")
        /\ total' = [total EXCEPT ![a] = Plus(@, entry[s].inUse)]
        /\ todo' = [todo EXCEPT ![a] = @ \ {s}]
  BY DEF MarkEntry
<1>2. /\ TypeOK /\ apc[a] = "mark" /\ Readers = {} /\ inMap \subseteq Slots
      /\ UNCHANGED <<inMap, listVars, apc, arg, done, cpc, held, cur, target>>
  BY DEF MarkEntry, ServiceInv, LoopAlone, clientVars, TypeOK, MapTypeOK
<1>3. s \in EntriesUnder(arg[a]) /\ s \in inMap /\ s \in Slots
  BY <1>2 DEF ServiceInv, Withdrawals, EntriesUnder
<1>4. /\ entry'[s].state = "ServiceRemove"
      /\ \A t \in Slots : entry'[t].handler = entry[t].handler
      /\ \A t \in Slots : entry'[t].inUse = entry[t].inUse
      /\ \A t \in Slots : t # s => entry'[t] = entry[t]
  <2>1. "ServiceRemove" \in State /\ entry \in [Slots -> SdhHandle]
    BY <1>2 DEF State, TypeOK, MapTypeOK
  <2> QED
    BY <1>1, <1>3, <2>1, SetStateFrame
<1>5. /\ todo'[a] = todo[a] \ {s} /\ total'[a] = Plus(total[a], entry[s].inUse)
      /\ \A b \in Admins \ {a} : todo'[b] = todo[b] /\ total'[b] = total[b]
  BY <1>1, <1>2 DEF TypeOK, AdminTypeOK
<1>6. \A q : EntriesUnder(q)' = EntriesUnder(q)
  BY <1>2, <1>4 DEF EntriesUnder
<1>7. \A b \in Admins \ {a} : Draining(b)' = Draining(b)
  BY <1>2, <1>5, <1>6 DEF Draining
<1>8. total'[a] = Cardinality(Draining(a)')
  <2> DEFINE uses == UsersOf(s) \X {s}
  <2>1. Draining(a)' = Draining(a) \cup uses
    <3>1. \A c \in Clients : cpc[c] # "service"
      BY <1>2 DEF Readers
    <3>2. \A u \in Clients \X Slots :
            u \in Draining(a)' <=> u \in Draining(a) \/ (u[2] = s /\ u[2] \in held[u[1]])
      BY <1>2, <1>3, <1>5, <1>6, <3>1 DEF Draining
    <3>3. \A u \in Clients \X Slots : u \in uses <=> u[2] = s /\ u[2] \in held[u[1]]
      BY DEF UsersOf
    <3>4. /\ Draining(a)' \subseteq Clients \X Slots /\ Draining(a) \subseteq Clients \X Slots
          /\ uses \subseteq Clients \X Slots
      BY <1>3 DEF Draining, UsersOf
    <3> HIDE DEF uses
    <3> QED
      BY <3>2, <3>3, <3>4
  <2>2. Draining(a) \cap uses = {}
    BY DEF Draining
  <2>3. IsFiniteSet(uses) /\ Cardinality(uses) = Cardinality(UsersOf(s))
    <3>1. IsFiniteSet({s}) /\ Cardinality({s}) = 1
      BY FS_Singleton
    <3>2. IsFiniteSet(UsersOf(s)) /\ Cardinality(UsersOf(s)) \in Nat
      BY UsersOfType
    <3>3. IsFiniteSet(uses) /\ Cardinality(uses) = Cardinality(UsersOf(s)) * 1
      BY <3>1, <3>2, FS_Product
    <3> QED
      BY <3>2, <3>3
  <2> HIDE DEF uses
  <2>4. Cardinality(Draining(a)') =
          Cardinality(Draining(a)) + Cardinality(uses) - Cardinality({})
    BY <2>1, <2>2, <2>3, DrainingType, FS_Union
  <2>5. Cardinality(Draining(a)') < CounterMax
    <3>1. Draining(a)' \in SUBSET (Clients \X Slots)
      BY DEF Draining
    <3> QED
      BY <3>1, UsesBounded
  <2>6. /\ total[a] = Cardinality(Draining(a)) /\ entry[s].inUse = Cardinality(UsersOf(s))
        /\ Cardinality(Draining(a)) \in Nat /\ Cardinality(UsersOf(s)) \in Nat
        /\ CounterMax \in Nat
    BY <1>2, <1>3, DrainingType, UsersOfType, CounterAssumption
    DEF ServiceInv, NodeCountersExact, CountersExact
  <2> QED
    BY <1>5, <2>3, <2>4, <2>5, <2>6, FS_EmptySet DEF Plus
<1>9. NoHandlerRemoval' /\ IdleHoldNothing' /\ HeldHandlersStay'
  BY <1>2, <1>3, <1>4 DEF ServiceInv, NoHandlerRemoval, IdleHoldNothing, HeldHandlersStay, listVars
<1>10. CountersExact'
  BY <1>2, <1>4 DEF ServiceInv, CountersExact, UsersOf
<1>11. LoopAlone' /\ ReadersEntry'
  BY <1>2 DEF ServiceInv, LoopAlone, Readers, ReadersEntry
<1>12. Withdrawals'
  <2>1. \A b \in Admins, t \in Slots : entry[t].state = "ServiceRemove" => entry'[t].state = "ServiceRemove"
    BY <1>4
  <2>2. \A q : EntriesUnder(q) \subseteq Slots
    BY <1>2 DEF EntriesUnder
  <2> QED
    BY <1>2, <1>4, <1>5, <1>6, <2>1, <2>2 DEF ServiceInv, Withdrawals, listVars
<1>13. MarkedEntryWithdrawn'
  BY <1>2, <1>3, <1>4 DEF ServiceInv, MarkedEntryWithdrawn, EntriesUnder
<1>14. NodeCountersExact'
  BY <1>2, <1>5, <1>7, <1>8 DEF ServiceInv, NodeCountersExact
<1>15. OneServiceOpener' /\ OpenLatchDrained'
  BY <1>2, <1>5 DEF ServiceInv, OneServiceOpener, OpenLatchDrained
<1> QED
  BY <1>9, <1>10, <1>11, <1>12, <1>13, <1>14, <1>15 DEF ServiceInv

(* Handlers are in use: the admin leaves its node and gives up the mutex.  *)
LEMMA AwaitServiceInv ==
  ASSUME ServiceInv, RemovalByService, TypeOK', NEW a \in Admins, AwaitService(a)
  PROVE  ServiceInv'
<1>1. /\ TypeOK /\ apc[a] = "mark" /\ todo[a] = {}
      /\ serviceList' = <<a>> \o serviceList
      /\ UNCHANGED <<entry, inMap, handlerList, arg, todo, total, cpc, held, cur, target>>
  BY DEF AwaitService, ServiceInv, mapVars, clientVars
<1>2. /\ apc'[a] = "waitService" /\ done'[a] = FALSE
      /\ \A b \in Admins \ {a} : apc'[b] = apc[b] /\ done'[b] = done[b]
  BY <1>1 DEF AwaitService, TypeOK, AdminTypeOK
<1>3. Range(serviceList') = {a} \cup Range(serviceList)
  BY <1>1, PushFront DEF TypeOK, ListTypeOK
<1>4. \A b : Draining(b)' = Draining(b)
  BY <1>1 DEF Draining, EntriesUnder
<1>5. NoHandlerRemoval' /\ IdleHoldNothing' /\ HeldHandlersStay' /\ CountersExact'
  BY <1>1, <1>2 DEF ServiceInv, NoHandlerRemoval, IdleHoldNothing, HeldHandlersStay,
                    CountersExact, UsersOf
<1>6. LoopAlone' /\ ReadersEntry'
  BY <1>1, <1>2 DEF ServiceInv, LoopAlone, Readers, ReadersEntry
<1>7. Withdrawals'
  BY <1>1, <1>2, <1>3 DEF ServiceInv, Withdrawals, EntriesUnder
<1>8. MarkedEntryWithdrawn'
  <2>1. \A b \in Admins : apc[b] # "idle" => apc'[b] # "idle"
    BY <1>2
  <2> QED
    BY <1>1, <2>1 DEF ServiceInv, MarkedEntryWithdrawn
<1>9. NodeCountersExact'
  BY <1>1, <1>2, <1>4 DEF ServiceInv, NodeCountersExact
<1>10. OpenLatchDrained'
  BY <1>1, <1>2 DEF ServiceInv, OpenLatchDrained
<1>11. OneServiceOpener'
  <2>1. ASSUME NEW c \in Clients, cpc[c] = "serviceLatch"
        PROVE  target[c] \in Admins \ {a}
    BY <1>1, <2>1 DEF ServiceInv, OneServiceOpener
  <2> QED
    BY <1>1, <1>2, <2>1 DEF ServiceInv, OneServiceOpener
<1> QED
  BY <1>5, <1>6, <1>7, <1>8, <1>9, <1>10, <1>11 DEF ServiceInv

(* The entries of a service go when no use of them is left.                *)
LEMMA NothingDrains ==
  ASSUME ServiceInv, NEW a \in Admins, apc[a] # "idle", todo[a] = {}, total[a] = 0
  PROVE  /\ Draining(a) = {}
         /\ \A c \in Clients, s \in EntriesUnder(arg[a]) :
              s \notin held[c] /\ ~(cpc[c] = "service" /\ cur[c] = s)
<1>1. Draining(a) = {}
  BY DrainingType, FS_EmptySet DEF ServiceInv, NodeCountersExact
<1>2. ASSUME NEW c \in Clients, NEW s \in EntriesUnder(arg[a]),
             s \in held[c] \/ (cpc[c] = "service" /\ cur[c] = s)
      PROVE  <<c, s>> \in Draining(a)
  BY <1>2 DEF Draining, EntriesUnder, ServiceInv, TypeOK, MapTypeOK
<1> QED
  BY <1>1, <1>2

(* The entries of a service are erased from the map.                       *)
LEMMA EraseServiceInv ==
  ASSUME ServiceInv, RemovalByService, TypeOK', NEW a \in Admins, EraseService(a)
  PROVE  ServiceInv'
<1>1. /\ TypeOK /\ inMap \subseteq Slots /\ apc[a] # "idle"
      /\ inMap' = inMap \ EntriesUnder(arg[a])
      /\ UNCHANGED <<entry, handlerList, todo, cpc, held, cur, target>>
  BY DEF EraseService, ServiceInv, TypeOK, MapTypeOK, clientVars
<1>2. todo[a] = {} /\ total[a] = 0 /\ Readers = {}
  BY DEF EraseService, ServiceInv, LoopAlone, Withdrawals, OpenLatchDrained, Lock
<1>3. /\ apc'[a] = "idle" /\ arg'[a] = None /\ done'[a] = FALSE
      /\ \A b \in Admins \ {a} : /\ apc'[b] = apc[b]
                                 /\ arg'[b] = arg[b]
                                 /\ total'[b] = total[b]
                                 /\ done'[b] = done[b]
  BY <1>1 DEF EraseService, TypeOK, AdminTypeOK
<1>4. \A c \in Clients, s \in EntriesUnder(arg[a]) : s \notin held[c]
  BY <1>1, <1>2, NothingDrains
<1>5. \A b \in Admins \ {a} : arg[b] # arg[a]
  BY <1>1, OneWithdrawer
<1>6. \A b \in Admins \ {a} : EntriesUnder(arg[b])' = EntriesUnder(arg[b])
  BY <1>1, <1>3, <1>5 DEF EntriesUnder
<1>7. \A b \in Admins \ {a} : Draining(b)' = Draining(b)
  BY <1>1, <1>3, <1>6 DEF Draining
<1>8. \A b \in Range(serviceList) \ {a} : b \in Range(serviceList')
  BY <1>1, RemoveAtRange DEF EraseService, TypeOK, ListTypeOK
<1>9. NoHandlerRemoval' /\ IdleHoldNothing'
  BY <1>1, <1>3 DEF ServiceInv, NoHandlerRemoval, IdleHoldNothing
<1>10. HeldHandlersStay' /\ CountersExact'
  BY <1>1, <1>4 DEF ServiceInv, HeldHandlersStay, CountersExact, UsersOf
<1>11. LoopAlone' /\ ReadersEntry'
  BY <1>1, <1>2 DEF ServiceInv, LoopAlone, Readers, ReadersEntry
<1>12. Withdrawals'
  BY <1>1, <1>3, <1>6, <1>8 DEF ServiceInv, Withdrawals
<1>13. MarkedEntryWithdrawn'
  BY <1>1, <1>3 DEF ServiceInv, MarkedEntryWithdrawn, EntriesUnder
<1>14. NodeCountersExact' /\ OpenLatchDrained'
  BY <1>3, <1>7 DEF ServiceInv, NodeCountersExact, OpenLatchDrained
<1>15. OneServiceOpener'
  <2>1. ASSUME NEW c \in Clients, cpc[c] = "serviceLatch"
        PROVE  target[c] \in Admins \ {a}
    BY <1>2, <2>1 DEF ServiceInv, OneServiceOpener, EraseService
  <2> QED
    BY <1>1, <1>3, <2>1 DEF ServiceInv, OneServiceOpener
<1> QED
  BY <1>9, <1>10, <1>11, <1>12, <1>13, <1>14, <1>15 DEF ServiceInv

-----------------------------------------------------------------------------
(* Clients.                                                                *)

(* A client goes on without having taken one from a node's counter; on its *)
(* way from a latch, the latch of a drained node is open.                  *)
LEMMA MoveServiceInv ==
  ASSUME ServiceInv, TypeOK', NEW c \in Clients,
         UNCHANGED <<entry, inMap, listVars, apc, arg, todo, total, held>>,
         \A b \in Clients \ {c} : /\ cpc'[b] = cpc[b]
                                  /\ cur'[b] = cur[b]
                                  /\ target'[b] = target[b],
         cpc[c] # "service",
         cpc'[c] \in {"idle", "moreEntries", "handling", "handlerUnlocked"},
         cpc'[c] \in {"idle", "moreEntries"} => held[c] = {},
         \/ done' = done
         \/ cpc[c] = "serviceLatch" /\ done' = [done EXCEPT ![target[c]] = TRUE]
  PROVE  ServiceInv'
<1>1. \A b : Draining(b)' = Draining(b)
  <2>1. \A b \in Clients : \A s :
          (cpc'[b] = "service" /\ cur'[b] = s) <=> (cpc[b] = "service" /\ cur[b] = s)
    OBVIOUS
  <2>2. \A q : EntriesUnder(q)' = EntriesUnder(q)
    BY DEF EntriesUnder
  <2> QED
    BY <2>1, <2>2 DEF Draining
<1>2. Readers' \subseteq Readers /\ \A b \in Readers' : b # c
  BY DEF Readers
<1>3. NoHandlerRemoval'
  BY DEF ServiceInv, NoHandlerRemoval, listVars
<1>4. IdleHoldNothing' /\ HeldHandlersStay' /\ CountersExact'
  BY DEF ServiceInv, IdleHoldNothing, HeldHandlersStay, CountersExact, UsersOf
<1>5. LoopAlone' /\ ReadersEntry'
  BY <1>2 DEF ServiceInv, LoopAlone, ReadersEntry, Readers
<1>6. Withdrawals' /\ MarkedEntryWithdrawn'
  BY DEF ServiceInv, Withdrawals, MarkedEntryWithdrawn, EntriesUnder, listVars
<1>7. NodeCountersExact'
  BY <1>1 DEF ServiceInv, NodeCountersExact
<1>8. OneServiceOpener' /\ OpenLatchDrained'
  <2>1. CASE done' = done
    BY <2>1 DEF ServiceInv, OneServiceOpener, OpenLatchDrained
  <2>2. CASE cpc[c] = "serviceLatch" /\ done' = [done EXCEPT ![target[c]] = TRUE]
    <3>1. /\ target[c] \in Admins /\ total[target[c]] = 0
          /\ \A b \in Clients : cpc[b] = "serviceLatch" /\ target[b] = target[c] => b = c
      BY <2>2 DEF ServiceInv, OneServiceOpener
    <3>2. done'[target[c]] /\ \A b \in Admins \ {target[c]} : done'[b] = done[b]
      BY <2>2, <3>1 DEF ServiceInv, TypeOK, AdminTypeOK
    <3> QED
      BY <2>2, <3>1, <3>2 DEF ServiceInv, OneServiceOpener, OpenLatchDrained
  <2> QED
    BY <2>1, <2>2
<1> QED
  BY <1>3, <1>4, <1>5, <1>6, <1>7, <1>8 DEF ServiceInv

(* With the mutex taken shared no loop is under way, and every entry of a  *)
(* service that is being withdrawn is marked.                              *)
LEMMA MarkedWhileShared ==
  ASSUME ServiceInv, LockShared, NEW a \in Admins, apc[a] # "idle"
  PROVE  /\ apc[a] = "waitService" /\ todo[a] = {} /\ a \in Range(serviceList)
         /\ \A s \in EntriesUnder(arg[a]) : entry[s].state = "ServiceRemove"
BY DEF ServiceInv, NoHandlerRemoval, LockShared, Writers, Withdrawals

(* One more user of each entry in S, none of which is under removal.       *)
LEMMA UseServiceInv ==
  ASSUME ServiceInv, TypeOK', NEW c \in Clients, NEW S \in SUBSET inMap, Use(c, S),
         LockShared, cpc[c] \in {"idle", "moreEntries"},
         \A s \in S : entry[s].state = "Active",
         UNCHANGED <<inMap, listVars, apc, arg, todo, total, done, cur, target>>
  PROVE  ServiceInv'
<1>1. TypeOK /\ inMap \subseteq Slots
  BY DEF ServiceInv, TypeOK, MapTypeOK
<1>2. /\ \A t \in Slots \ S : entry'[t] = entry[t]
      /\ \A t \in Slots : entry'[t].handler = entry[t].handler
      /\ \A t \in Slots : entry'[t].state = entry[t].state
      /\ cpc'[c] = "handling" /\ held[c] = {} /\ held'[c] = S
      /\ \A b \in Clients \ {c} : cpc'[b] = cpc[b] /\ held'[b] = held[b]
      /\ IdleHoldNothing' /\ HeldHandlersStay' /\ CountersExact'
  BY UseEffect DEF ServiceInv, Counted
<1>3. \A q : EntriesUnder(q)' = EntriesUnder(q)
  BY <1>1, <1>2 DEF EntriesUnder
<1>4. ASSUME NEW a \in Admins, apc[a] # "idle"
      PROVE  Draining(a)' = Draining(a)
  <2>1. \A s \in S : s \notin EntriesUnder(arg[a])
    BY <1>4, MarkedWhileShared
  <2>2. ASSUME NEW b \in Clients, NEW s \in EntriesUnder(arg[a])
        PROVE  (s \in held'[b] \/ (cpc'[b] = "service" /\ cur'[b] = s)) <=>
               (s \in held[b] \/ (cpc[b] = "service" /\ cur[b] = s))
    BY <1>2, <2>1
  <2> QED
    BY <1>3, <2>2 DEF Draining
<1>5. Readers' = Readers /\ c \notin Readers
  BY <1>2 DEF Readers
<1>6. NoHandlerRemoval'
  BY <1>2 DEF ServiceInv, NoHandlerRemoval, listVars
<1>7. LoopAlone' /\ ReadersEntry'
  BY <1>1, <1>2, <1>5 DEF ServiceInv, LoopAlone, ReadersEntry, Readers
<1>8. Withdrawals'
  <2>1. \A q : EntriesUnder(q) \subseteq Slots
    BY <1>1 DEF EntriesUnder
  <2> QED
    BY <1>2, <1>3, <2>1 DEF ServiceInv, Withdrawals, listVars
<1>9. MarkedEntryWithdrawn'
  BY <1>1, <1>2 DEF ServiceInv, MarkedEntryWithdrawn
<1>10. NodeCountersExact'
  BY <1>4 DEF ServiceInv, NodeCountersExact
<1>11. OneServiceOpener' /\ OpenLatchDrained'
  BY <1>2 DEF ServiceInv, OneServiceOpener, OpenLatchDrained
<1> QED
  BY <1>2, <1>6, <1>7, <1>8, <1>9, <1>10, <1>11 DEF ServiceInv

(* aquireHandler and aquireHandlers.                                       *)
LEMMA AquireServiceInv ==
  ASSUME ServiceInv, TypeOK', NEW c \in Clients,
         \/ \E i \in Ids : AquireHandler(c, i)
         \/ AquireHandlers(c)
  PROVE  ServiceInv'
<1> USE DEF adminVars
<1>1. /\ UNCHANGED <<inMap, listVars, apc, arg, todo, total, done, cur, target>>
      /\ cpc[c] \in {"idle", "moreEntries"} /\ LockShared
      /\ cpc \in [Clients -> ClientPc] /\ held[c] = {}
  BY DEF AquireHandler, AquireHandlers, ServiceInv, IdleHoldNothing, TypeOK, ClientTypeOK
<1>2. CASE UNCHANGED <<entry, held, cpc>>
  BY <1>1, <1>2, ServiceInvFrame
<1>3. ASSUME NEW pc \in {"idle", "moreEntries"}, cpc' = [cpc EXCEPT ![c] = pc],
             UNCHANGED <<entry, held>>
      PROVE  ServiceInv'
  <2>1. cpc'[c] = pc /\ \A b \in Clients \ {c} : cpc'[b] = cpc[b]
    BY <1>1, <1>3
  <2> QED
    BY <1>1, <1>3, <2>1, MoveServiceInv
<1>4. ASSUME NEW S \in SUBSET inMap, Use(c, S), \A s \in S : entry[s].state = "Active"
      PROVE  ServiceInv'
  BY <1>1, <1>4, UseServiceInv
<1>5. ASSUME NEW i \in Ids, AquireHandler(c, i)
      PROVE  ServiceInv'
  <2>1. ASSUME NEW s \in EntriesOf(i), Acquirable(s), Use(c, {s})
        PROVE  ServiceInv'
    <3>1. {s} \in SUBSET inMap /\ \A t \in {s} : entry[t].state = "Active"
      BY <2>1 DEF EntriesOf, Acquirable
    <3> QED
      BY <1>4, <2>1, <3>1
  <2> QED
    BY <1>2, <1>3, <1>5, <2>1 DEF AquireHandler
<1>6. CASE AquireHandlers(c)
  <2> DEFINE available == {s \in EntriesOf(id[c]) : Acquirable(s)}
  <2>1. available \in SUBSET inMap /\ \A t \in available : entry[t].state = "Active"
    BY DEF EntriesOf, Acquirable
  <2>2. \/ Use(c, available)
        \/ cpc' = [cpc EXCEPT ![c] = "idle"] /\ UNCHANGED <<entry, held>>
    BY <1>6 DEF AquireHandlers
  <2> HIDE DEF available
  <2> QED
    BY <1>3, <1>4, <2>1, <2>2
<1> QED
  BY <1>5, <1>6

(* releaseHandler up to its switch: a use of a marked entry drains only    *)
(* when the client has taken one from the node's counter.                  *)
LEMMA ReleaseHandlerServiceInv ==
  ASSUME ServiceInv, TypeOK', NEW c \in Clients, ReleaseHandler(c)
  PROVE  ServiceInv'
<1>1. PICK s \in held[c] :
        /\ s \in inMap /\ s \in Slots
        /\ \A t \in Slots : entry'[t].handler = entry[t].handler
        /\ \A t \in Slots : entry'[t].state = entry[t].state
        /\ \A t \in Slots : t # s => entry'[t] = entry[t]
        /\ held'[c] = held[c] \ {s}
        /\ \/ cpc'[c] = "handling"
           \/ cpc'[c] = "idle"
           \/ cpc'[c] = "service" /\ cur'[c] = s /\ entry[s].state = "ServiceRemove"
           \/ cpc'[c] = "handler" /\ entry[s].state = "HandlerRemove"
        /\ entry[s].state = "ServiceRemove" => cpc'[c] = "service"
  BY ReleaseEffect DEF ServiceInv, Counted
<1>2. /\ TypeOK /\ cpc[c] = "handling" /\ inMap \subseteq Slots /\ LockShared
      /\ UNCHANGED <<inMap, listVars, apc, arg, todo, total, done>>
  BY DEF ReleaseHandler, ServiceInv, TypeOK, MapTypeOK, adminVars
<1>3. /\ \A b \in Clients \ {c} : /\ held'[b] = held[b]
                                  /\ cpc'[b] = cpc[b]
                                  /\ cur'[b] = cur[b]
                                  /\ target'[b] = target[b]
      /\ IdleHoldNothing' /\ HeldHandlersStay' /\ CountersExact'
  BY ReleaseEffect DEF ServiceInv, Counted
<1>4. \/ cpc'[c] \in {"handling", "idle"} /\ entry[s].state # "ServiceRemove"
      \/ cpc'[c] = "service" /\ cur'[c] = s /\ entry[s].state = "ServiceRemove"
  BY <1>1 DEF ServiceInv, NoHandlerRemoval
<1>5. \A q : EntriesUnder(q)' = EntriesUnder(q)
  BY <1>1, <1>2 DEF EntriesUnder
<1>6. ASSUME NEW a \in Admins, apc[a] # "idle"
      PROVE  Draining(a)' = Draining(a)
  <2>1. s \in EntriesUnder(arg[a]) => entry[s].state = "ServiceRemove"
    BY <1>2, <1>6, MarkedWhileShared
  <2>2. ASSUME NEW b \in Clients, NEW t \in EntriesUnder(arg[a])
        PROVE  (t \in held'[b] \/ (cpc'[b] = "service" /\ cur'[b] = t)) <=>
               (t \in held[b] \/ (cpc[b] = "service" /\ cur[b] = t))
    BY <1>1, <1>2, <1>3, <1>4, <2>1
  <2> QED
    BY <1>2, <1>5, <2>2 DEF Draining
<1>7. NoHandlerRemoval'
  BY <1>1, <1>2, <1>3, <1>4 DEF ServiceInv, NoHandlerRemoval, listVars
<1>8. LoopAlone'
  BY <1>2 DEF LoopAlone, LockShared, Writers
<1>9. ReadersEntry'
  <2>1. ASSUME NEW b \in Readers', b # c
        PROVE  /\ cur'[b] \in inMap'
               /\ cpc'[b] = "service" => /\ entry'[cur'[b]].state = "ServiceRemove"
                                        /\ cur'[b] \notin held'[b]
    BY <1>1, <1>2, <1>3, <2>1 DEF ServiceInv, ReadersEntry, Readers
  <2>2. ASSUME c \in Readers'
        PROVE  cur'[c] = s /\ entry'[s].state = "ServiceRemove" /\ s \notin held'[c]
    BY <1>1, <1>4, <2>2 DEF Readers
  <2> QED
    BY <1>1, <1>2, <2>1, <2>2 DEF ReadersEntry
<1>10. Withdrawals'
  <2>1. \A q : EntriesUnder(q) \subseteq Slots
    BY <1>2 DEF EntriesUnder
  <2> QED
    BY <1>1, <1>2, <1>5, <2>1 DEF ServiceInv, Withdrawals, listVars
<1>11. MarkedEntryWithdrawn'
  BY <1>1, <1>2 DEF ServiceInv, MarkedEntryWithdrawn
<1>12. NodeCountersExact' /\ OpenLatchDrained'
  BY <1>2, <1>6 DEF ServiceInv, NodeCountersExact, OpenLatchDrained
<1>13. OneServiceOpener'
  BY <1>2, <1>3, <1>4 DEF ServiceInv, OneServiceOpener
<1> QED
  BY <1>3, <1>7, <1>8, <1>9, <1>10, <1>11, <1>12, <1>13 DEF ServiceInv

(* A client at the ServiceRemove case finds the node of the admin that     *)
(* withdraws the service of its entry, and that one only.                  *)
LEMMA FindsItsNode ==
  ASSUME ServiceInv, RemovalByService, NEW c \in Clients, cpc[c] = "service"
  PROVE  \E a \in Admins :
           /\ apc[a] = "waitService" /\ todo[a] = {}
           /\ cur[c] \in EntriesUnder(arg[a]) /\ cur[c] \in Slots /\ cur[c] \notin held[c]
           /\ FirstOf(serviceList,
                      {b \in Admins : arg[b] = ServiceOf[entry[cur[c]].handler]}) = {a}
<1> DEFINE p == ServiceOf[entry[cur[c]].handler]
           owners == {b \in Admins : arg[b] = p}
<1>1. /\ c \in Readers /\ TypeOK
      /\ cur[c] \in inMap /\ cur[c] \in Slots /\ cur[c] \notin held[c]
      /\ entry[cur[c]].state = "ServiceRemove"
  BY DEF Readers, ServiceInv, ReadersEntry, TypeOK, MapTypeOK
<1>2. PICK a \in Admins : apc[a] # "idle" /\ arg[a] = p
  BY <1>1 DEF ServiceInv, MarkedEntryWithdrawn
<1>3. apc[a] = "waitService"
  BY <1>1, <1>2 DEF ServiceInv, LoopAlone, NoHandlerRemoval
<1>4. todo[a] = {} /\ a \in Range(serviceList)
  BY <1>3 DEF ServiceInv, Withdrawals
<1>5. owners = {a}
  BY <1>2, OneWithdrawer
<1>6. serviceList \in Seq(Admins)
  BY <1>1 DEF TypeOK, ListTypeOK
<1>7. FirstOf(serviceList, {a}) # {}
  BY <1>4, <1>6, FirstOfFinds
<1>8. \A b \in FirstOf(serviceList, {a}) : b = a
  BY <1>6, FirstOfOwner
<1>9. FirstOf(serviceList, owners) = {a}
  BY <1>5, <1>7, <1>8
<1>10. cur[c] \in EntriesUnder(arg[a])
  BY <1>1, <1>2 DEF EntriesUnder
<1> QED
  BY <1>1, <1>3, <1>4, <1>9, <1>10

(* case ServiceRemove: one use has drained.                                *)
LEMMA ReleaseServiceInv ==
  ASSUME ServiceInv, RemovalByService, TypeOK', NEW c \in Clients, ReleaseService(c)
  PROVE  ServiceInv'
<1> DEFINE s == cur[c]
           nodes == FirstOf(serviceList, {b \in Admins : arg[b] = ServiceOf[entry[s].handler]})
<1>1. /\ TypeOK /\ cpc[c] = "service"
      /\ UNCHANGED <<entry, inMap, listVars, apc, arg, todo, done, held>>
  BY DEF ReleaseService, ServiceInv, mapVars
<1>2. PICK a \in Admins :
        /\ apc[a] = "waitService" /\ todo[a] = {}
        /\ s \in EntriesUnder(arg[a]) /\ s \in Slots /\ s \notin held[c]
        /\ nodes = {a}
  BY <1>1, FindsItsNode
<1>3. /\ total' = [total EXCEPT ![a] = Minus1(@)]
      /\ \/ /\ total[a] = 1
            /\ cpc' = [cpc EXCEPT ![c] = "serviceLatch"]
            /\ target' = [target EXCEPT ![c] = a]
            /\ UNCHANGED <<cur, last>>
         \/ total[a] # 1 /\ FallThrough(c, "handler")
  BY <1>2 DEF ReleaseService
<1> HIDE DEF nodes
<1>4. <<c, s>> \in Draining(a)
  BY <1>1, <1>2 DEF Draining
<1>5. /\ \A b \in Clients \ {c} : /\ cpc'[b] = cpc[b]
                                  /\ cur'[b] = cur[b]
                                  /\ target'[b] = target[b]
      /\ \/ /\ total[a] = 1 /\ cpc'[c] = "serviceLatch" /\ target'[c] = a
         \/ /\ total[a] # 1 /\ cpc'[c] = "handler" /\ cur'[c] = s
         \/ /\ total[a] # 1 /\ cpc'[c] = "handling"
         \/ /\ total[a] # 1 /\ cpc'[c] = "idle" /\ held[c] = {}
  <2>1. ClientTypeOK /\ held' = held
    BY <1>1 DEF TypeOK
  <2> QED
    BY <1>3, <2>1 DEF FallThrough, Return, AfterRelease, ClientTypeOK
<1>6. \A q : EntriesUnder(q)' = EntriesUnder(q)
  BY <1>1 DEF EntriesUnder
<1>7. Draining(a)' = Draining(a) \ {<<c, s>>}
  <2>1. ASSUME NEW b \in Clients, NEW t \in EntriesUnder(arg[a])
        PROVE  (t \in held'[b] \/ (cpc'[b] = "service" /\ cur'[b] = t)) <=>
               /\ t \in held[b] \/ (cpc[b] = "service" /\ cur[b] = t)
               /\ ~ (b = c /\ t = s)
    BY <1>1, <1>2, <1>5
  <2>2. /\ \A u \in Clients \X Slots : u = <<u[1], u[2]>>
        /\ Draining(a) \subseteq Clients \X Slots /\ Draining(a)' \subseteq Clients \X Slots
    BY DEF Draining
  <2>3. ASSUME NEW b \in Clients, NEW t \in Slots
        PROVE  <<b, t>> \in Draining(a)' <=> <<b, t>> \in Draining(a) /\ ~ (b = c /\ t = s)
    BY <1>1, <1>2, <1>6, <2>1 DEF Draining
  <2> QED
    BY <2>2, <2>3
<1>8. \A b \in Admins \ {a} : apc[b] # "idle" => Draining(b)' = Draining(b)
  <2>1. ASSUME NEW b \in Admins \ {a}, apc[b] # "idle"
        PROVE  s \notin EntriesUnder(arg[b])
    BY <1>2, <2>1, OneWithdrawer DEF EntriesUnder
  <2>2. ASSUME NEW b \in Admins \ {a}, apc[b] # "idle",
               NEW d \in Clients, NEW t \in EntriesUnder(arg[b])
        PROVE  (t \in held'[d] \/ (cpc'[d] = "service" /\ cur'[d] = t)) <=>
               (t \in held[d] \/ (cpc[d] = "service" /\ cur[d] = t))
    BY <1>1, <1>5, <2>1, <2>2
  <2> QED
    BY <1>1, <1>6, <2>2 DEF Draining
<1>9. /\ total[a] # 0 /\ total[a] \in Nat /\ total'[a] = total[a] - 1
      /\ total'[a] = Cardinality(Draining(a)')
      /\ \A b \in Admins \ {a} : total'[b] = total[b]
  <2>1. total[a] = Cardinality(Draining(a))
    BY <1>2 DEF ServiceInv, NodeCountersExact
  <2>2. /\ IsFiniteSet(Draining(a)) /\ Cardinality(Draining(a)) \in Nat
        /\ Cardinality(Draining(a)) # 0
    BY <1>4, DrainingType, FS_EmptySet
  <2>3. Cardinality(Draining(a)') = Cardinality(Draining(a)) - 1
    BY <1>4, <1>7, <2>2, FS_RemoveElement
  <2>4. Minus1(total[a]) = total[a] - 1
    BY <2>1, <2>2 DEF Minus1
  <2> QED
    BY <1>1, <1>3, <2>1, <2>2, <2>3, <2>4 DEF TypeOK, AdminTypeOK
<1>10. NoHandlerRemoval' /\ IdleHoldNothing' /\ HeldHandlersStay' /\ CountersExact'
  <2>1. NoHandlerRemoval'
    BY <1>1, <1>5 DEF ServiceInv, NoHandlerRemoval, listVars
  <2>2. IdleHoldNothing' /\ HeldHandlersStay'
    BY <1>1, <1>5 DEF ServiceInv, IdleHoldNothing, HeldHandlersStay
  <2>3. CountersExact'
    BY <1>1 DEF ServiceInv, CountersExact, UsersOf
  <2> QED
    BY <2>1, <2>2, <2>3
<1>11. LoopAlone'
  BY <1>1 DEF ServiceInv, LoopAlone, Readers
<1>12. ReadersEntry'
  BY <1>1, <1>5 DEF ServiceInv, ReadersEntry, Readers
<1>13. Withdrawals' /\ MarkedEntryWithdrawn'
  BY <1>1, <1>6 DEF ServiceInv, Withdrawals, MarkedEntryWithdrawn, listVars
<1>14. NodeCountersExact'
  BY <1>1, <1>8, <1>9 DEF ServiceInv, NodeCountersExact
<1>15. OneServiceOpener'
  <2>1. ASSUME NEW b \in Clients \ {c}, cpc[b] = "serviceLatch"
        PROVE  target[b] # a
    BY <1>9, <2>1 DEF ServiceInv, OneServiceOpener
  <2>2. ASSUME NEW b \in Clients \ {c}, cpc'[b] = "serviceLatch"
        PROVE  /\ cpc[b] = "serviceLatch" /\ target'[b] = target[b] /\ target'[b] # a
               /\ target'[b] \in Admins
               /\ apc'[target'[b]] = "waitService"
               /\ total'[target'[b]] = 0
               /\ ~done'[target'[b]]
    BY <1>1, <1>5, <1>9, <2>1, <2>2 DEF ServiceInv, OneServiceOpener
  <2>3. ASSUME cpc'[c] = "serviceLatch"
        PROVE  target'[c] = a /\ apc'[a] = "waitService" /\ total'[a] = 0 /\ ~done'[a]
    BY <1>1, <1>2, <1>5, <1>9, <2>3 DEF ServiceInv, OpenLatchDrained
  <2>4. \A b, d \in Clients \ {c} :
          cpc'[b] = "serviceLatch" /\ cpc'[d] = "serviceLatch" /\ target'[b] = target'[d] => b = d
    BY <2>2 DEF ServiceInv, OneServiceOpener
  <2> QED
    BY <2>2, <2>3, <2>4 DEF OneServiceOpener
<1>16. OpenLatchDrained'
  BY <1>1, <1>9 DEF ServiceInv, OpenLatchDrained
<1> QED
  BY <1>10, <1>11, <1>12, <1>13, <1>14, <1>15, <1>16 DEF ServiceInv

(* done.count_down() without the mutex, and what comes after it: the list  *)
(* the fall through walks is empty.                                        *)
LEMMA AfterServiceInv ==
  ASSUME ServiceInv, TypeOK', NEW c \in Clients, CountDownService(c) \/ ReleaseLast(c)
  PROVE  ServiceInv'
<1>1. /\ TypeOK /\ ClientTypeOK /\ handlerList = <<>>
      /\ UNCHANGED <<entry, inMap, listVars, apc, arg, todo, total, held>>
      /\ cpc[c] \in {"serviceLatch", "handler", "handlerUnlocked"}
  BY DEF CountDownService, ReleaseLast, ServiceInv, NoHandlerRemoval, TypeOK, mapVars, adminVars
<1>2. CASE CountDownService(c)
  <2>1. FallThrough(c, "handlerUnlocked")
    BY <1>2 DEF CountDownService
  <2>2. /\ \A b \in Clients \ {c} : /\ cpc'[b] = cpc[b]
                                    /\ cur'[b] = cur[b]
                                    /\ target'[b] = target[b]
        /\ cpc'[c] \in {"handlerUnlocked", "handling", "idle"}
        /\ cpc'[c] = "idle" => held[c] = {}
    BY <1>1, <2>1 DEF FallThrough, Return, AfterRelease, ClientTypeOK
  <2>3. cpc[c] = "serviceLatch" /\ done' = [done EXCEPT ![target[c]] = TRUE]
    BY <1>2 DEF CountDownService
  <2> QED
    BY <1>1, <2>2, <2>3, MoveServiceInv
<1>3. CASE ReleaseLast(c)
  <2>1. \A S : FirstOf(handlerList, S) = {}
    BY <1>1 DEF FirstOf
  <2>2. Return(c) /\ done' = done
    BY <1>3, <2>1 DEF ReleaseLast, adminVars
  <2>3. /\ \A b \in Clients \ {c} : /\ cpc'[b] = cpc[b]
                                    /\ cur'[b] = cur[b]
                                    /\ target'[b] = target[b]
        /\ cpc'[c] \in {"handling", "idle"}
        /\ cpc'[c] = "idle" => held[c] = {}
    BY <1>1, <2>2 DEF Return, AfterRelease, ClientTypeOK
  <2>4. cpc[c] # "service"
    BY <1>3 DEF ReleaseLast
  <2> QED
    BY <1>1, <2>2, <2>3, <2>4, MoveServiceInv
<1> QED
  BY <1>2, <1>3

-----------------------------------------------------------------------------

(* Every step.                                                             *)
LEMMA NextServiceInv ==
  ASSUME ServiceInv, RemovalByService, [Next]_vars
  PROVE  ServiceInv'
<1>1. TypeOK /\ TypeOK'
  BY TypeStep DEF ServiceInv
<1>2. ASSUME NEW a \in Admins, AdminStep(a)
      PROVE  ServiceInv'
  <2>1. apc[a] # "waitHandler" /\ Unregisters[a] = {}
    BY DEF ServiceInv, NoHandlerRemoval, RemovalByService
  <2>2. ~UnregisterHandlerAwake(a) /\ ~ \E h \in Unregisters[a] : UnregisterHandler(a, h)
    BY <2>1 DEF UnregisterHandlerAwake
  <2> QED
    BY <1>1, <1>2, <2>2, RegisterServiceInv, UnregisterServiceInv, MarkEntryInv,
       AwaitServiceInv, EraseServiceInv
    DEF AdminStep
<1>3. ASSUME NEW c \in Clients, ClientStep(c)
      PROVE  ServiceInv'
  <2>1. ~CountDownHandler(c)
    BY DEF ServiceInv, NoHandlerRemoval, CountDownHandler
  <2> QED
    BY <1>1, <1>3, <2>1, AquireServiceInv, ReleaseHandlerServiceInv, ReleaseServiceInv,
       AfterServiceInv
    DEF ClientStep
<1>4. CASE UNCHANGED vars
  BY <1>1, <1>4, ServiceInvFrame DEF vars, mapVars, listVars, adminVars, clientVars
<1> QED
  BY <1>2, <1>3, <1>4 DEF Next

(* ServiceInv holds in every state of a server whose handlers are removed  *)
(* with unregisterService only, each service by the one thread that        *)
(* registers its handlers.                                                 *)
THEOREM ServiceInvHolds == ASSUME RemovalByService PROVE Spec => []ServiceInv
<1>1. ServiceInv /\ [Next]_vars => ServiceInv'
  BY NextServiceInv
<1> QED
  BY <1>1, InitServiceInv, PTL DEF Spec

(* unregisterService erases no entry that a thread of Server::handleData   *)
(* still has: the counter of its node, added up over the entries while     *)
(* the mutex is held and drained one by one without it, misses no use.     *)
THEOREM RemovalByServiceSafe == ASSUME RemovalByService PROVE Spec => []HeldHandlersStay
<1>1. ServiceInv => HeldHandlersStay
  BY DEF ServiceInv
<1> QED
  BY <1>1, ServiceInvHolds, PTL

(* The in-use counters are exact while services are withdrawn.             *)
THEOREM RemovalByServiceCounts == ASSUME RemovalByService PROVE Spec => []CountersExact
<1>1. ServiceInv => CountersExact
  BY DEF ServiceInv
<1> QED
  BY <1>1, ServiceInvHolds, PTL

(* The latch of a node in m_unregisterServiceList is counted down once, by *)
(* the client that took the last one from the node's counter, while the    *)
(* node is still in the list.                                              *)
THEOREM RemovalByServiceLatches == ASSUME RemovalByService PROVE Spec => []LatchCountedOnce
<1>1. ServiceInv => LatchCountedOnce
  <2> SUFFICES ASSUME ServiceInv
               PROVE  LatchCountedOnce
    OBVIOUS
  <2>1. \A c \in Clients : cpc[c] # "handlerLatch"
    BY DEF ServiceInv, NoHandlerRemoval
  <2>2. ASSUME NEW c \in Clients, cpc[c] = "serviceLatch"
        PROVE  /\ target[c] \in Range(serviceList) /\ ~done[target[c]]
               /\ \A b \in Clients \ {c} : cpc[b] = "serviceLatch" => target[b] # target[c]
    BY <2>2 DEF ServiceInv, OneServiceOpener, Withdrawals
  <2> QED
    BY <2>1, <2>2 DEF LatchCountedOnce
<1> QED
  BY <1>1, ServiceInvHolds, PTL

(* releaseHandler reads its handle only while the node is in the map, also *)
(* after it has taken its use from the node's counter: what the fall       *)
(* through reads without the mutex it reads only if some unregisterHandler *)
(* waits.                                                                  *)
THEOREM RemovalByServiceReads == ASSUME RemovalByService PROVE Spec => []ReleaseReadsLiveEntry
<1>1. ServiceInv => ReleaseReadsLiveEntry
  BY DEF ServiceInv, ReadersEntry, Readers, NoHandlerRemoval, ReleaseReadsLiveEntry
<1> QED
  BY <1>1, ServiceInvHolds, PTL

-----------------------------------------------------------------------------
(* What an acquire hands out together, whichever way handlers are removed. *)

(* A step that takes no entry into the map and gives no client one keeps   *)
(* TogetherInv, whatever it does to counters and states.                   *)
LEMMA TogetherFrame ==
  ASSUME TypeOK, TogetherInv,
         \A s \in Slots : entry'[s].handler = entry[s].handler,
         inMap' \subseteq inMap,
         \A c \in Clients : held'[c] \subseteq held[c]
  PROVE  TogetherInv'
<1>1. inMap \subseteq Slots /\ \A c \in Clients : held[c] \subseteq Slots
  BY DEF TypeOK, MapTypeOK, ClientTypeOK
<1>2. OneUnicast'
  BY <1>1 DEF TogetherInv, OneUnicast
<1>3. AcquiredTogether'
  BY <1>1 DEF TogetherInv, AcquiredTogether
<1> QED  BY <1>2, <1>3 DEF TogetherInv

(* registerHandler: the new entry is held by nobody, and if its handler is *)
(* unicast it is the only one of its id.                                   *)
LEMMA RegisterTogether ==
  ASSUME Counted, TogetherInv, NEW a \in Admins, NEW h \in Registers[a], RegisterHandler(a, h)
  PROVE  TogetherInv'
<1>1. UNCHANGED <<held, cpc>>
  BY DEF RegisterHandler, clientVars
<1>2. CASE UNCHANGED mapVars
  BY <1>1, <1>2, TogetherFrame DEF mapVars, Counted
<1>3. ASSUME NEW s \in Slots \ inMap,
             entry' = [entry EXCEPT ![s] = [handler |-> h, inUse |-> 0, state |-> "Active"]],
             inMap' = inMap \cup {s},
             h \in Multicast \/ EntriesOf(InputId[h]) = {}
      PROVE  TogetherInv'
  <2>1. /\ \A t \in inMap : t # s /\ entry'[t] = entry[t]
        /\ entry'[s].handler = h
    BY <1>3 DEF Counted, TypeOK, MapTypeOK
  <2>2. OneUnicast'
    BY <1>3, <2>1 DEF TogetherInv, OneUnicast, EntriesOf
  <2>3. AcquiredTogether'
    BY <1>1, <2>1 DEF TogetherInv, AcquiredTogether, Counted, HeldHandlersStay
  <2> QED  BY <2>2, <2>3 DEF TogetherInv
<1> QED  BY <1>2, <1>3 DEF RegisterHandler

(* The other sections of an admin.                                         *)
LEMMA AdminTogether ==
  ASSUME Counted, TogetherInv, NEW a \in Admins, AdminStep(a)
  PROVE  TogetherInv'
<1>1. ASSUME UNCHANGED held, inMap' \subseteq inMap,
             \/ UNCHANGED entry
             \/ \E s \in Slots, v \in State : entry' = SetState(s, v)
      PROVE  TogetherInv'
  <2>1. TypeOK /\ entry \in [Slots -> SdhHandle]
    BY DEF Counted, TypeOK, MapTypeOK
  <2>2. \A s \in Slots : entry'[s].handler = entry[s].handler
    BY <1>1, <2>1, SetStateFrame
  <2> QED  BY <1>1, <2>1, <2>2, TogetherFrame
<1>2. CASE \E h \in Unregisters[a] : UnregisterHandler(a, h)
  <2>1. \A h : EntriesWith(h) \subseteq Slots
    BY DEF Counted, TypeOK, MapTypeOK, EntriesWith
  <2> QED  BY <1>1, <1>2, <2>1 DEF UnregisterHandler, mapVars, clientVars, State
<1>3. CASE MarkEntry(a)
  <2>1. todo[a] \subseteq Slots
    BY DEF Counted, TypeOK, AdminTypeOK
  <2> QED  BY <1>1, <1>3, <2>1 DEF MarkEntry, clientVars, State
<1>4. CASE UnregisterHandlerAwake(a) \/ EraseService(a)
  BY <1>1, <1>4 DEF UnregisterHandlerAwake, EraseService, clientVars
<1>5. CASE AwaitService(a) \/ \E p \in Withdraws[a] : UnregisterService(a, p)
  BY <1>1, <1>5 DEF AwaitService, UnregisterService, mapVars, clientVars
<1> QED  BY <1>2, <1>3, <1>4, <1>5, RegisterTogether DEF AdminStep

(* What a client acquires are entries of one id.                           *)
LEMMA UseTogether ==
  ASSUME Counted, TogetherInv, NEW c \in Clients, NEW i, NEW S \in SUBSET EntriesOf(i),
         Use(c, S), cpc[c] \in {"idle", "moreEntries"}, UNCHANGED inMap
  PROVE  TogetherInv'
<1>1. S \in SUBSET inMap /\ inMap \subseteq Slots /\ held \in [Clients -> SUBSET Slots]
  BY DEF EntriesOf, Counted, TypeOK, MapTypeOK, ClientTypeOK
<1>2. /\ \A t \in Slots : entry'[t].handler = entry[t].handler
      /\ held'[c] = S /\ \A b \in Clients \ {c} : held'[b] = held[b]
  BY <1>1, UseEffect
<1>3. OneUnicast'
  BY <1>1, <1>2 DEF TogetherInv, OneUnicast
<1>4. ASSUME NEW s \in S, NEW t \in S, s # t
      PROVE  /\ InputId[entry[s].handler] = InputId[entry[t].handler]
             /\ entry[s].handler \in Multicast \/ entry[t].handler \in Multicast
  BY <1>4 DEF EntriesOf, TogetherInv, OneUnicast
<1>5. AcquiredTogether'
  BY <1>1, <1>2, <1>4 DEF TogetherInv, AcquiredTogether
<1> QED  BY <1>3, <1>5 DEF TogetherInv

(* The sections of a client.                                               *)
LEMMA ClientTogether ==
  ASSUME Counted, TogetherInv, NEW c \in Clients, ClientStep(c)
  PROVE  TogetherInv'
<1>1. CASE UNCHANGED <<entry, inMap, held>>
  BY <1>1, TogetherFrame DEF Counted
<1>2. ASSUME NEW i \in Ids, AquireHandler(c, i)
      PROVE  TogetherInv'
  <2>1. cpc[c] \in {"idle", "moreEntries"} /\ UNCHANGED inMap
    BY <1>2 DEF AquireHandler
  <2>2. UNCHANGED <<entry, held>> \/ \E s \in EntriesOf(i) : Use(c, {s})
    BY <1>2 DEF AquireHandler
  <2>3. \A s \in EntriesOf(i) : {s} \in SUBSET EntriesOf(i)
    OBVIOUS
  <2> QED  BY <1>1, <2>1, <2>2, <2>3, UseTogether
<1>3. CASE AquireHandlers(c)
  <2> DEFINE available == {s \in EntriesOf(id[c]) : Acquirable(s)}
  <2>1. cpc[c] \in {"idle", "moreEntries"} /\ UNCHANGED inMap
    BY <1>3 DEF AquireHandlers
  <2>2. UNCHANGED <<entry, held>> \/ Use(c, available)
    BY <1>3 DEF AquireHandlers
  <2>3. available \in SUBSET EntriesOf(id[c])
    OBVIOUS
  <2> QED  BY <1>1, <2>1, <2>2, <2>3, UseTogether
<1>4. CASE ReleaseHandler(c)
  <2>1. /\ \A t \in Slots : entry'[t].handler = entry[t].handler
        /\ \A b \in Clients : held'[b] \subseteq held[b]
    BY <1>4, ReleaseEffect
  <2>2. UNCHANGED inMap
    BY <1>4 DEF ReleaseHandler
  <2> QED  BY <2>1, <2>2, TogetherFrame DEF Counted
<1>5. CASE ReleaseService(c) \/ CountDownService(c) \/ ReleaseLast(c) \/ CountDownHandler(c)
  BY <1>1, <1>5
  DEF ReleaseService, CountDownService, ReleaseLast, CountDownHandler, mapVars
<1> QED  BY <1>2, <1>3, <1>4, <1>5 DEF ClientStep

(* Every step.                                                             *)
LEMMA NextTogether ==
  ASSUME Counted, TogetherInv, [Next]_vars
  PROVE  TogetherInv'
<1>1. CASE UNCHANGED vars
  BY <1>1, TogetherFrame DEF vars, mapVars, clientVars, Counted
<1> QED  BY <1>1, AdminTogether, ClientTogether DEF Next

(* At the start there is no handler.                                       *)
LEMMA InitTogether == Init => TogetherInv
BY DEF Init, TogetherInv, OneUnicast, AcquiredTogether

(* Server::handleData loops over handlers of one input struct of which at  *)
(* most one is unicast, although aquireHandlers looks them up in a map     *)
(* other threads have changed since aquireHandler: with unregisterHandler. *)
THEOREM RemovalByHandlerTogether == ASSUME RemovalByHandler PROVE Spec => []AcquiredTogether
<1>1. HandlerInv => Counted
  BY DEF HandlerInv, Counted
<1>2. Counted /\ TogetherInv /\ [Next]_vars => TogetherInv'
  BY NextTogether
<1>3. TogetherInv => AcquiredTogether
  BY DEF TogetherInv
<1> QED
  BY <1>1, <1>2, <1>3, InitTogether, HandlerInvHolds, PTL DEF Spec

(* And with unregisterService.                                             *)
THEOREM RemovalByServiceTogether == ASSUME RemovalByService PROVE Spec => []AcquiredTogether
<1>1. ServiceInv => Counted
  BY DEF ServiceInv, Counted
<1>2. Counted /\ TogetherInv /\ [Next]_vars => TogetherInv'
  BY NextTogether
<1>3. TogetherInv => AcquiredTogether
  BY DEF TogetherInv
<1> QED
  BY <1>1, <1>2, <1>3, InitTogether, ServiceInvHolds, PTL DEF Spec

-----------------------------------------------------------------------------
(* The draining registry that both implement.                              *)

Closing == {s \in inMap : entry[s].state # "Active"}
Using == [s \in Slots |-> UsersOf(s)]

(* A step that touches neither the map nor what the clients hold is none   *)
(* of the registry.                                                        *)
LEMMA Stutter ==
  ASSUME UNCHANGED <<entry, inMap, held>>
  PROVE  UNCHANGED Registry!vars
BY DEF Registry!vars, UsersOf

(* An entry whose counter is zero has no users.                            *)
LEMMA ZeroUnused ==
  ASSUME Counted, NEW s \in inMap, entry[s].inUse = 0
  PROVE  UsersOf(s) = {}
<1>1. Cardinality(UsersOf(s)) = 0
  BY DEF Counted, CountersExact
<1> QED  BY <1>1, UsersOfType, FS_EmptySet

(* The start is a start of the abstract registry.                          *)
LEMMA InitMaps == Init => Registry!Init
BY DEF Init, Registry!Init, UsersOf

(* Entries of the map go while nobody uses them: Remove.                   *)
LEMMA EraseMaps ==
  ASSUME Counted, NEW E \in SUBSET inMap, \A s \in E : UsersOf(s) = {},
         inMap' = inMap \ E, UNCHANGED <<entry, held>>
  PROVE  Registry!Next
<1>1. inMap \subseteq Slots
  BY DEF Counted, TypeOK, MapTypeOK
<1>2. \A s \in E : Using[s] = {}
  BY <1>1 DEF Using
<1>3. Closing' = Closing \ E /\ Using' = Using
  BY DEF Closing, Using, UsersOf
<1>4. Registry!Remove(E)
  BY <1>2, <1>3 DEF Registry!Remove, Closing, Using
<1>5. E \in SUBSET Slots
  BY <1>1
<1> QED  BY <1>4, <1>5 DEF Registry!Next

(* The removal of an entry begins: Close.                                  *)
LEMMA MarkMaps ==
  ASSUME Counted, NEW s \in inMap, NEW v \in State, v # "Active",
         entry' = SetState(s, v), UNCHANGED <<inMap, held>>
  PROVE  Registry!Next
<1>1. entry \in [Slots -> SdhHandle] /\ inMap \subseteq Slots
  BY DEF Counted, TypeOK, MapTypeOK
<1>2. /\ entry'[s].state = v
      /\ \A t \in Slots : t # s => entry'[t] = entry[t]
  BY <1>1, SetStateFrame
<1>3. Closing' = Closing \cup {s} /\ Using' = Using
  BY <1>1, <1>2 DEF Closing, Using, UsersOf
<1>4. Registry!Close(s)
  BY <1>1, <1>3 DEF Registry!Close, Closing, Using
<1> QED  BY <1>1, <1>4 DEF Registry!Next

(* registerHandler: Open.                                                  *)
LEMMA RegisterHandlerMaps ==
  ASSUME Counted, TypeOK', NEW a \in Admins, NEW h \in Registers[a], RegisterHandler(a, h)
  PROVE  [Registry!Next]_Registry!vars
<1>1. UNCHANGED held
  BY DEF RegisterHandler, clientVars
<1>2. CASE UNCHANGED mapVars
  BY <1>1, <1>2, Stutter DEF mapVars
<1>3. ASSUME NEW s \in Slots \ inMap,
             entry' = [entry EXCEPT ![s] = [handler |-> h, inUse |-> 0, state |-> "Active"]],
             inMap' = inMap \cup {s}
      PROVE  Registry!Next
  <2>1. entry \in [Slots -> SdhHandle] /\ inMap \subseteq Slots
    BY DEF Counted, TypeOK, MapTypeOK
  <2>2. UsersOf(s) = {}
    BY <1>3 DEF UsersOf, Counted, HeldHandlersStay
  <2>3. Closing' = Closing
    BY <1>3, <2>1 DEF Closing
  <2>4. Using' = Using /\ Using[s] = {}
    BY <1>1, <2>2 DEF Using, UsersOf
  <2>5. Registry!Open(s)
    BY <1>3, <2>3, <2>4 DEF Registry!Open, Closing, Using
  <2> QED  BY <2>5 DEF Registry!Next
<1> QED  BY <1>2, <1>3 DEF RegisterHandler

(* unregisterHandler: Remove of an entry that nobody uses, or Close of one *)
(* that is in use.                                                         *)
LEMMA UnregisterHandlerMaps ==
  ASSUME HandlerInv, NEW a \in Admins, NEW h \in Unregisters[a], UnregisterHandler(a, h)
  PROVE  [Registry!Next]_Registry!vars
<1>1. UNCHANGED held
  BY DEF UnregisterHandler, clientVars
<1>2. CASE UNCHANGED mapVars
  BY <1>1, <1>2, Stutter DEF mapVars
<1>3. ASSUME NEW s \in EntriesWith(h), entry[s].inUse = 0, inMap' = inMap \ {s}, entry' = entry
      PROVE  Registry!Next
  <2>1. s \in inMap /\ UsersOf(s) = {}
    BY <1>3, ZeroUnused DEF EntriesWith, HandlerInv, Counted
  <2>2. {s} \in SUBSET inMap /\ \A t \in {s} : UsersOf(t) = {}
    BY <2>1
  <2> QED  BY <1>1, <1>3, <2>2, EraseMaps DEF HandlerInv, Counted
<1>4. ASSUME NEW s \in EntriesWith(h), entry' = SetState(s, "HandlerRemove"), inMap' = inMap
      PROVE  Registry!Next
  <2>1. s \in inMap /\ "HandlerRemove" \in State
    BY DEF EntriesWith, State
  <2> QED  BY <1>1, <1>4, <2>1, MarkMaps DEF HandlerInv, Counted
<1> QED  BY <1>2, <1>3, <1>4 DEF UnregisterHandler, mapVars

(* The end of unregisterHandler: Remove of the entry whose users are gone. *)
LEMMA UnregisterHandlerAwakeMaps ==
  ASSUME HandlerInv, NEW a \in Admins, UnregisterHandlerAwake(a)
  PROVE  [Registry!Next]_Registry!vars
<1>1. apc[a] = "waitHandler" /\ done[a] /\ UNCHANGED <<entry, held>>
  BY DEF UnregisterHandlerAwake, clientVars
<1>2. CASE UNCHANGED inMap
  BY <1>1, <1>2, Stutter
<1>3. ASSUME NEW s \in EntriesWith(arg[a]), inMap' = inMap \ {s}
      PROVE  Registry!Next
  <2>1. s \in inMap /\ s = handle[a]
    BY <1>1 DEF EntriesWith, HandlerInv, WaitersEntry, OneEntryPerHandler
  <2>2. entry[s].inUse = 0
    BY <1>1, <2>1 DEF HandlerInv, OpenLatchUnused
  <2>3. UsersOf(s) = {}
    BY <2>1, <2>2, ZeroUnused DEF HandlerInv, Counted
  <2>4. {s} \in SUBSET inMap /\ \A t \in {s} : UsersOf(t) = {}
    BY <2>1, <2>3
  <2> QED  BY <1>1, <1>3, <2>4, EraseMaps DEF HandlerInv, Counted
<1> QED  BY <1>2, <1>3 DEF UnregisterHandlerAwake

(* What a client acquires is Active: Acquire of entries none of which is   *)
(* being removed.                                                          *)
LEMMA UseMaps ==
  ASSUME Counted, NEW c \in Clients, NEW S \in SUBSET inMap, Use(c, S),
         cpc[c] \in {"idle", "moreEntries"},
         \A s \in S : entry[s].state = "Active",
         UNCHANGED inMap
  PROVE  Registry!Next
<1>1. /\ entry \in [Slots -> SdhHandle] /\ inMap \subseteq Slots /\ S \subseteq Slots
      /\ held \in [Clients -> SUBSET Slots] /\ held[c] = {}
  BY DEF Counted, TypeOK, MapTypeOK, ClientTypeOK, IdleHoldNothing
<1>2. \A s \in Slots : entry'[s].state = entry[s].state
  <2>1. ASSUME NEW s \in Slots
        PROVE  [entry[s] EXCEPT !.inUse = Plus(@, 1)].state = entry[s].state
    BY <1>1 DEF SdhHandle
  <2> QED  BY <2>1 DEF Use
<1>3. Closing' = Closing /\ S \subseteq inMap \ Closing
  BY <1>1, <1>2 DEF Closing
<1>4. held' = [held EXCEPT ![c] = S]
  BY DEF Use
<1>5. ASSUME NEW s \in Slots
      PROVE  UsersOf(s)' = IF s \in S THEN UsersOf(s) \cup {c} ELSE UsersOf(s)
  BY <1>1, <1>4 DEF UsersOf
<1>6. Using' = [s \in Slots |-> IF s \in S THEN Using[s] \cup {c} ELSE Using[s]]
  BY <1>5 DEF Using
<1>7. Registry!Acquire(c, S)
  BY <1>3, <1>6 DEF Registry!Acquire, Closing, Using
<1> QED  BY <1>1, <1>7 DEF Registry!Next

(* aquireHandler and aquireHandlers, the latter after the mutex was        *)
(* unlocked between the two.                                               *)
LEMMA AquireMaps ==
  ASSUME Counted, NEW c \in Clients,
         \/ \E i \in Ids : AquireHandler(c, i)
         \/ AquireHandlers(c)
  PROVE  [Registry!Next]_Registry!vars
<1>1. CASE UNCHANGED <<entry, inMap, held>>
  BY <1>1, Stutter
<1>2. ASSUME NEW i \in Ids, AquireHandler(c, i)
      PROVE  [Registry!Next]_Registry!vars
  <2>1. ASSUME NEW s \in EntriesOf(i), Acquirable(s), Use(c, {s})
        PROVE  Registry!Next
    <3>1. {s} \in SUBSET inMap /\ \A t \in {s} : entry[t].state = "Active"
      BY <2>1 DEF EntriesOf, Acquirable
    <3>2. cpc[c] \in {"idle", "moreEntries"} /\ UNCHANGED inMap
      BY <1>2 DEF AquireHandler
    <3> QED  BY <2>1, <3>1, <3>2, UseMaps
  <2>2. \/ UNCHANGED <<entry, inMap, held>>
        \/ \E s \in EntriesOf(i) : Acquirable(s) /\ Use(c, {s})
    BY <1>2 DEF AquireHandler
  <2> QED  BY <1>1, <2>1, <2>2
<1>3. CASE AquireHandlers(c)
  <2> DEFINE available == {s \in EntriesOf(id[c]) : Acquirable(s)}
  <2>1. available \in SUBSET inMap /\ \A s \in available : entry[s].state = "Active"
    BY DEF EntriesOf, Acquirable
  <2>2. cpc[c] \in {"idle", "moreEntries"} /\ UNCHANGED inMap
    BY <1>3 DEF AquireHandlers
  <2>3. UNCHANGED <<entry, inMap, held>> \/ Use(c, available)
    BY <1>3 DEF AquireHandlers
  <2> QED  BY <1>1, <2>1, <2>2, <2>3, UseMaps
<1> QED  BY <1>2, <1>3

(* The decrement in releaseHandler: Release.                               *)
LEMMA ReleaseHandlerMaps ==
  ASSUME Counted, NEW c \in Clients, ReleaseHandler(c)
  PROVE  Registry!Next
<1>1. PICK s \in held[c] :
        /\ s \in Slots
        /\ \A t \in Slots : entry'[t].state = entry[t].state
        /\ held' = [held EXCEPT ![c] = @ \ {s}]
  BY ReleaseEffect
<1>2. /\ inMap \subseteq Slots /\ held \in [Clients -> SUBSET Slots] /\ UNCHANGED inMap
  BY DEF Counted, TypeOK, MapTypeOK, ClientTypeOK, ReleaseHandler
<1>3. Closing' = Closing
  BY <1>1, <1>2 DEF Closing
<1>4. ASSUME NEW t \in Slots
      PROVE  UsersOf(t)' = IF t = s THEN UsersOf(t) \ {c} ELSE UsersOf(t)
  BY <1>1, <1>2 DEF UsersOf
<1>5. Using' = [Using EXCEPT ![s] = @ \ {c}]
  <2>1. Using' = [t \in Slots |-> IF t = s THEN UsersOf(t) \ {c} ELSE UsersOf(t)]
    BY <1>4 DEF Using
  <2> QED  BY <2>1 DEF Using
<1>6. c \in Using[s]
  <2>1. c \in UsersOf(s)
    BY <1>1 DEF UsersOf
  <2> QED  BY <1>1, <2>1 DEF Using
<1>7. Registry!Release(c, s)
  BY <1>1, <1>2, <1>3, <1>5, <1>6 DEF Registry!Release, Closing, Using
<1> QED  BY <1>1, <1>7 DEF Registry!Next

-----------------------------------------------------------------------------

(* The sections that take or give up the mutex, look up a node or open a   *)
(* latch are none of the registry's steps.                                 *)
LEMMA InnerMaps ==
  ASSUME NEW c \in Clients,
         ReleaseService(c) \/ CountDownService(c) \/ ReleaseLast(c) \/ CountDownHandler(c)
  PROVE  [Registry!Next]_Registry!vars
BY Stutter DEF ReleaseService, CountDownService, ReleaseLast, CountDownHandler, mapVars

(* A step of a client maps to one of the registry, or to none.             *)
LEMMA ClientStepMaps ==
  ASSUME Counted, NEW c \in Clients, ClientStep(c)
  PROVE  [Registry!Next]_Registry!vars
BY AquireMaps, ReleaseHandlerMaps, InnerMaps DEF ClientStep

-----------------------------------------------------------------------------
(* Removal by handler.                                                     *)

(* One case for each section of the registrar's functions.                 *)
LEMMA NextMaps ==
  ASSUME HandlerInv, RemovalByHandler, [Next]_vars
  PROVE  [Registry!Next]_Registry!vars
<1>1. TypeOK' /\ Counted
  BY TypeStep DEF HandlerInv, Counted
<1>2. ASSUME NEW a \in Admins, AdminStep(a)
      PROVE  [Registry!Next]_Registry!vars
  <2>1. /\ Withdraws[a] = {} /\ apc[a] \in {"idle", "waitHandler"}
    BY DEF RemovalByHandler, HandlerInv, NoServiceRemoval
  <2>2. ~MarkEntry(a) /\ ~AwaitService(a) /\ ~EraseService(a)
    BY <2>1 DEF MarkEntry, AwaitService, EraseService
  <2> QED
    BY <1>1, <1>2, <2>1, <2>2, RegisterHandlerMaps, UnregisterHandlerMaps,
       UnregisterHandlerAwakeMaps
    DEF AdminStep
<1>3. CASE UNCHANGED vars
  BY <1>3, Stutter DEF vars, mapVars, clientVars
<1> QED  BY <1>1, <1>2, <1>3, ClientStepMaps DEF Next

(* Callers of the registrar may rely on IServerDataHandlerRegistrar alone: *)
(* whatever the interleaving of its locked and unlocked sections, an entry *)
(* whose removal has begun is handed out to nobody, and it goes when those *)
(* who had it have released it, if handlers are removed one by one.        *)
THEOREM RemovalByHandlerImplements == ASSUME RemovalByHandler PROVE Spec => ImplementsDrainingRegistry
<1>1. Init => Registry!Init
  BY InitMaps
<1>2. HandlerInv /\ [Next]_vars => [Registry!Next]_Registry!vars
  BY NextMaps
<1> QED
  BY <1>1, <1>2, HandlerInvHolds, PTL DEF Spec, ImplementsDrainingRegistry, Registry!Spec

-----------------------------------------------------------------------------
(* Removal by service.                                                     *)

(* The loop of unregisterService: one Close for each entry.                *)
LEMMA MarkEntryMaps ==
  ASSUME ServiceInv, NEW a \in Admins, MarkEntry(a)
  PROVE  Registry!Next
<1>1. PICK s \in todo[a] : entry' = SetState(s, "ServiceRemove")
  BY DEF MarkEntry
<1>2. s \in inMap
  BY DEF MarkEntry, ServiceInv, Withdrawals, EntriesUnder
<1>3. Counted /\ "ServiceRemove" \in State /\ UNCHANGED <<inMap, held>>
  BY DEF MarkEntry, ServiceInv, Counted, State, clientVars
<1> QED  BY <1>1, <1>2, <1>3, MarkMaps

(* The end of unregisterService: Remove of all the entries of the service. *)
LEMMA EraseServiceMaps ==
  ASSUME ServiceInv, NEW a \in Admins, EraseService(a)
  PROVE  Registry!Next
<1>1. /\ Counted /\ apc[a] # "idle"
      /\ inMap' = inMap \ EntriesUnder(arg[a])
      /\ UNCHANGED <<entry, held>>
  BY DEF EraseService, ServiceInv, Counted, clientVars
<1>2. todo[a] = {} /\ total[a] = 0
  BY DEF EraseService, ServiceInv, Withdrawals, OpenLatchDrained
<1>3. \A s \in EntriesUnder(arg[a]) : UsersOf(s) = {}
  BY <1>1, <1>2, NothingDrains DEF UsersOf
<1>4. EntriesUnder(arg[a]) \in SUBSET inMap
  BY DEF EntriesUnder
<1> QED  BY <1>1, <1>3, <1>4, EraseMaps

(* Every step under RemovalByService maps to one of the registry, or to none. *)
LEMMA NextServiceMaps ==
  ASSUME ServiceInv, RemovalByService, [Next]_vars
  PROVE  [Registry!Next]_Registry!vars
<1>1. TypeOK' /\ Counted
  BY TypeStep DEF ServiceInv, Counted
<1>2. ASSUME NEW a \in Admins, AdminStep(a)
      PROVE  [Registry!Next]_Registry!vars
  <2>1. apc[a] # "waitHandler" /\ Unregisters[a] = {}
    BY DEF ServiceInv, NoHandlerRemoval, RemovalByService
  <2>2. ~UnregisterHandlerAwake(a) /\ ~ \E h \in Unregisters[a] : UnregisterHandler(a, h)
    BY <2>1 DEF UnregisterHandlerAwake
  <2>3. CASE AwaitService(a) \/ \E p \in Withdraws[a] : UnregisterService(a, p)
    BY <2>3, Stutter DEF AwaitService, UnregisterService, mapVars, clientVars
  <2> QED
    BY <1>1, <1>2, <2>2, <2>3, RegisterHandlerMaps, MarkEntryMaps, EraseServiceMaps
    DEF AdminStep
<1>3. CASE UNCHANGED vars
  BY <1>3, Stutter DEF vars, mapVars, clientVars
<1> QED  BY <1>1, <1>2, <1>3, ClientStepMaps DEF Next

(* The same promise is kept when whole services are withdrawn: the entries *)
(* close one after another while the mutex is held, and go together when   *)
(* the counter of the node says that the users of all of them are gone.    *)
THEOREM RemovalByServiceImplements == ASSUME RemovalByService PROVE Spec => ImplementsDrainingRegistry
<1>1. Init => Registry!Init
  BY InitMaps
<1>2. ServiceInv /\ [Next]_vars => [Registry!Next]_Registry!vars
  BY NextServiceMaps
<1> QED
  BY <1>1, <1>2, ServiceInvHolds, PTL DEF Spec, ImplementsDrainingRegistry, Registry!Spec
=============================================================================
