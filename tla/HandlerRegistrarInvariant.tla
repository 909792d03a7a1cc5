--------------------- MODULE HandlerRegistrarInvariant ---------------------
(***************************************************************************)
(* The two disciplines under which removal is safe, by handler and by      *)
(* service, and the inductive invariants that show it.                     *)
(***************************************************************************)
EXTENDS HandlerRegistrar

(* Nobody calls unregisterService, and only one thread registers and       *)
(* unregisters a given handler.                                            *)
RemovalByHandler ==
  /\ \A a \in Admins : Withdraws[a] = {}
  /\ \A a, b \in Admins :
       a # b => (Registers[a] \cup Unregisters[a]) \cap
                (Registers[b] \cup Unregisters[b]) = {}

(* Nobody calls unregisterHandler, and only one thread registers the       *)
(* handlers of a service that is withdrawn, the thread that withdraws it.  *)
RemovalByService ==
  /\ \A a \in Admins : Unregisters[a] = {}
  /\ \A a, b \in Admins :
       a # b => Withdraws[a] \cap (Withdraws[b] \cup {ServiceOf[h] : h \in Registers[b]}) = {}

-----------------------------------------------------------------------------
(* What both disciplines keep.                                             *)

IdleHoldNothing ==
  \A c \in Clients : cpc[c] \in {"idle", "moreEntries"} => held[c] = {}

Counted == TypeOK /\ IdleHoldNothing /\ HeldHandlersStay /\ CountersExact

-----------------------------------------------------------------------------
(* What an acquire hands out together, under either discipline.            *)

(* A unicast handler enters the map only where its id has no handler, so   *)
(* an id never has two of them; a multicast one may come after it.         *)
OneUnicast ==
  \A s, t \in inMap :
    s # t /\ InputId[entry[s].handler] = InputId[entry[t].handler] =>
      entry[s].handler \in Multicast \/ entry[t].handler \in Multicast

(* What every step preserves beside HeldHandlersStay and CountersExact.    *)
TogetherInv == OneUnicast /\ AcquiredTogether

-----------------------------------------------------------------------------
(* Removal by handler.                                                     *)

Releasing == {c \in Clients : cpc[c] \in {"handler", "handlerLatch"}}

NoServiceRemoval ==
  /\ \A a \in Admins : apc[a] \in {"idle", "waitHandler"}
  /\ \A s \in Slots : entry[s].state # "ServiceRemove"
  /\ \A c \in Clients :
       cpc[c] \in {"idle", "moreEntries", "handling", "handler", "handlerLatch"}

OneEntryPerHandler ==
  \A s, t \in inMap : entry[s].handler = entry[t].handler => s = t

(* A waiting admin's node refers to the entry of the handler it removes.   *)
WaitersEntry ==
  \A a \in Admins :
    /\ apc[a] = "idle" => handle[a] = None
    /\ apc[a] = "waitHandler" =>
         /\ handle[a] \in inMap
         /\ entry[handle[a]].handler = arg[a]
         /\ entry[handle[a]].state = "HandlerRemove"
         /\ arg[a] \in Unregisters[a]
         /\ a \in Range(handlerList)

RemovedEntryAwaited ==
  \A s \in inMap : entry[s].state = "HandlerRemove" => \E a \in Admins : handle[a] = s

OpenLatchUnused ==
  \A a \in Admins : apc[a] = "waitHandler" /\ done[a] => entry[handle[a]].inUse = 0

(* One client at a time is on its way to a latch, after the last user has  *)
(* gone and before the latch is open.                                      *)
OneOpener ==
  \A c \in Releasing :
    /\ cur[c] \in inMap
    /\ entry[cur[c]].state = "HandlerRemove"
    /\ entry[cur[c]].inUse = 0
    /\ \A a \in Admins : handle[a] = cur[c] => ~done[a]
    /\ \A b \in Releasing : cur[b] = cur[c] => b = c
    /\ cpc[c] = "handlerLatch" => target[c] \in Admins /\ handle[target[c]] = cur[c]

(* What every step of the registrar preserves when handlers are only       *)
(* removed one by one: the in-use counters are exact, the entries that are *)
(* held are in the map, and each entry under removal has one waiting admin *)
(* and at most one client about to open its latch.                         *)
HandlerInv ==
  /\ TypeOK
  /\ NoServiceRemoval
  /\ IdleHoldNothing
  /\ HeldHandlersStay
  /\ CountersExact
  /\ OneEntryPerHandler
  /\ WaitersEntry
  /\ RemovedEntryAwaited
  /\ OpenLatchUnused
  /\ OneOpener

-----------------------------------------------------------------------------
(* Removal by service.                                                     *)

NoHandlerRemoval ==
  /\ handlerList = <<>>
  /\ \A a \in Admins : apc[a] \in {"idle", "mark", "waitService"}
  /\ \A s \in Slots : entry[s].state # "HandlerRemove"
  /\ \A c \in Clients : cpc[c] # "handlerLatch"

(* The loop of unregisterService runs beside no reader, and what a reader  *)
(* works on is in the map.                                                 *)
LoopAlone == \A a \in Admins : apc[a] = "mark" => Readers = {}

ReadersEntry ==
  \A c \in Readers :
    /\ cur[c] \in inMap
    /\ cpc[c] = "service" => /\ entry[cur[c]].state = "ServiceRemove"
                             /\ cur[c] \notin held[c]

(* From the loop to the erasure an admin works on a service of its own,    *)
(* whose entries it has marked but for those still to visit.               *)
Withdrawals ==
  \A a \in Admins :
    /\ apc[a] = "idle" => arg[a] = None
    /\ apc[a] # "idle" =>
         /\ arg[a] \in Withdraws[a]
         /\ todo[a] \subseteq EntriesUnder(arg[a])
         /\ \A s \in EntriesUnder(arg[a]) \ todo[a] : entry[s].state = "ServiceRemove"
    /\ apc[a] = "waitService" => todo[a] = {} /\ a \in Range(serviceList)

MarkedEntryWithdrawn ==
  \A s \in inMap :
    entry[s].state = "ServiceRemove" =>
      \E a \in Admins : apc[a] # "idle" /\ arg[a] = ServiceOf[entry[s].handler]

(* The uses that admin a's withdrawal has to see end: of a marked entry    *)
(* that a client holds, or has released without having yet taken one from  *)
(* the node's counter.                                                     *)
Draining(a) ==
  {u \in Clients \X Slots :
     /\ u[2] \in EntriesUnder(arg[a]) \ todo[a]
     /\ u[2] \in held[u[1]] \/ (cpc[u[1]] = "service" /\ cur[u[1]] = u[2])}

NodeCountersExact ==
  \A a \in Admins : apc[a] # "idle" => total[a] = Cardinality(Draining(a))

(* One client at a time is on its way to the latch of a withdrawal, when   *)
(* nothing is left to drain and before the latch is open.                  *)
OneServiceOpener ==
  \A c \in Clients :
    cpc[c] = "serviceLatch" =>
      /\ target[c] \in Admins
      /\ apc[target[c]] = "waitService"
      /\ total[target[c]] = 0
      /\ ~done[target[c]]
      /\ \A b \in Clients : cpc[b] = "serviceLatch" /\ target[b] = target[c] => b = c

OpenLatchDrained ==
  \A a \in Admins : apc[a] = "waitService" /\ done[a] => total[a] = 0

(* What every step of the registrar preserves when handlers are removed    *)
(* with their service: beside the in-use counter of each entry, the        *)
(* counter of each node counts the uses its admin has still to wait for.   *)
ServiceInv ==
  /\ TypeOK
  /\ NoHandlerRemoval
  /\ IdleHoldNothing
  /\ HeldHandlersStay
  /\ CountersExact
  /\ LoopAlone
  /\ ReadersEntry
  /\ Withdrawals
  /\ MarkedEntryWithdrawn
  /\ NodeCountersExact
  /\ OneServiceOpener
  /\ OpenLatchDrained
=============================================================================
