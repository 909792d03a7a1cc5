-------------------------- MODULE HandlerRegistrar --------------------------
(***************************************************************************)
(* GenericServerDataHandlerRegistrar: the multimap from input-struct ids   *)
(* to data handlers that every thread of a Server shares.                  *)
(*                                                                         *)
(* Clients are the threads inside Server::handleData: they acquire the     *)
(* handlers of an id, run them without the lock, and release them.  Admins *)
(* are the threads that register and unregister handlers: an unregister    *)
(* call whose handler is in use leaves a node with a latch in a list,      *)
(* unlocks, and waits until the releasing clients open the latch.          *)
(*                                                                         *)
(* A step is a section of code between two points where another thread     *)
(* can be observed: taking or giving up m_handlerMapMutex, an atomic       *)
(* counter, a latch.  A section of an admin holds the mutex exclusively,   *)
(* so it is one step, except the loop of unregisterService, whose          *)
(* iterations are steps because a client that has already unlocked the     *)
(* mutex inside releaseHandler still runs beside it.                       *)
(*                                                                         *)
(* A slot is the address of a map node.  A freed slot keeps its content    *)
(* until registerHandler reuses it: this is what a client that still holds *)
(* a reference to it reads.                                                *)
(***************************************************************************)
EXTENDS Integers, FiniteSets, SequencesExt

CONSTANTS
  Clients,     (* threads that run Server::handleData                      *)
  Admins,      (* threads that register and unregister                     *)
  Ids,         (* ids of input structs                                     *)
  Handlers,    (* IServerDataHandler objects                               *)
  Services,    (* the objects handlers are aggregated into                 *)
  Slots,       (* addresses of map nodes: bounds the entries of the map    *)
  None,        (* no slot, no thread, no argument                          *)
  InputId,     (* InputId[h]: the id handler h is registered under         *)
  ServiceOf,   (* ServiceOf[h]: the pService handler h is registered with  *)
  Multicast,   (* handlers whose traits say kMulticast                     *)
  Registers,   (* Registers[a]: handlers that admin a registers            *)
  Unregisters, (* Unregisters[a]: handlers it passes to unregisterHandler  *)
  Withdraws,   (* Withdraws[a]: services it passes to unregisterService    *)
  MaxCalls,    (* MaxCalls[a]: bound on the calls of admin a               *)
  CounterMax   (* largest value of an in-use counter (2^32 - 1)            *)

ASSUME SetsAssumption ==
  /\ None \notin Clients \cup Admins \cup Slots \cup Handlers \cup Services
  /\ Handlers \cap Services = {}
  /\ None \notin Ids
  /\ IsFiniteSet(Clients) /\ IsFiniteSet(Slots)

ASSUME TraitsAssumption ==
  /\ InputId \in [Handlers -> Ids]
  /\ ServiceOf \in [Handlers -> Services]
  /\ Multicast \subseteq Handlers

ASSUME CallsAssumption ==
  /\ Registers \in [Admins -> SUBSET Handlers]
  /\ Unregisters \in [Admins -> SUBSET Handlers]
  /\ Withdraws \in [Admins -> SUBSET Services]
  /\ MaxCalls \in [Admins -> Nat]

(* No counter wraps: one increment per client and slot at most.            *)
ASSUME CounterAssumption ==
  CounterMax \in Nat /\ Cardinality(Clients) * Cardinality(Slots) < CounterMax

VARIABLES
  entry,       (* entry[s]: content of node s, an SdhHandle                *)
  inMap,       (* the nodes that are in m_handlerMap                       *)
  serviceList, (* m_unregisterServiceList: the admin that owns each node   *)
  handlerList, (* m_unregisterHandlerList: the admin that owns each node   *)
  apc,         (* where an admin is                                        *)
  arg,         (* argument of the unregister call it is in                 *)
  todo,        (* entries the loop of unregisterService has still to visit *)
  total,       (* totalInUseCounter, then inUseCounter of its list node    *)
  handle,      (* handle of its node in m_unregisterHandlerList            *)
  done,        (* the latch of its list node has been counted down         *)
  calls,       (* calls it has made                                        *)
  cpc,         (* where a client is                                        *)
  id,          (* the id of the message a client handles                   *)
  held,        (* acquired handles it has still to release                 *)
  cur,         (* the handle releaseHandler is working on                  *)
  last,        (* prevUseCount = 1 in that call                            *)
  target       (* owner of the list node whose latch it is to count down   *)

mapVars    == <<entry, inMap>>
listVars   == <<serviceList, handlerList>>
adminVars  == <<apc, arg, todo, total, handle, done, calls>>
clientVars == <<cpc, id, held, cur, last, target>>
vars       == <<mapVars, listVars, adminVars, clientVars>>

-----------------------------------------------------------------------------
(* Types and the mutex.                                                    *)

State == {"Active", "HandlerRemove", "ServiceRemove"}

SdhHandle == [handler : Handlers \cup {None}, inUse : 0..CounterMax, state : State]

AdminPc == {"idle", "mark", "waitService", "waitHandler"}

ClientPc == {"idle", "moreEntries", "handling", "service", "serviceLatch",
             "handler", "handlerUnlocked", "handlerLatch"}

(* Between steps only the loop of unregisterService holds the mutex        *)
(* exclusively, and only two points of releaseHandler hold it shared.      *)
Writers == {a \in Admins : apc[a] = "mark"}
Readers == {c \in Clients : cpc[c] \in {"service", "handler"}}

LockShared == Writers = {}
Lock       == Writers = {} /\ Readers = {}

(* fetch_add and fetch_sub on a counter of fixed width.                    *)
Plus(m, n) == IF m + n > CounterMax THEN m + n - CounterMax - 1 ELSE m + n
Minus1(n)  == IF n = 0 THEN CounterMax ELSE n - 1

(* The map after a write to one member of the handle in node s.            *)
SetState(s, v) == [entry EXCEPT ![s].state = v]
SetInUse(s, n) == [entry EXCEPT ![s].inUse = n]

EntriesOf(i)    == {s \in inMap : InputId[entry[s].handler] = i}
EntriesWith(h)  == {s \in inMap : entry[s].handler = h}
EntriesUnder(p) == {s \in inMap : ServiceOf[entry[s].handler] = p}

(* The first node of a list whose owner is in S: a set of one owner, or    *)
(* the empty set.                                                          *)
FirstOf(list, S) ==
  {list[k] : k \in {i \in DOMAIN list : /\ list[i] \in S
                                        /\ \A j \in 1..(i - 1) : list[j] \notin S}}

Init ==
  /\ entry = [s \in Slots |-> [handler |-> None, inUse |-> 0, state |-> "Active"]]
  /\ inMap = {}
  /\ serviceList = <<>>
  /\ handlerList = <<>>
  /\ apc    = [a \in Admins |-> "idle"]
  /\ arg    = [a \in Admins |-> None]
  /\ todo   = [a \in Admins |-> {}]
  /\ total  = [a \in Admins |-> 0]
  /\ handle = [a \in Admins |-> None]
  /\ done   = [a \in Admins |-> FALSE]
  /\ calls  = [a \in Admins |-> 0]
  /\ cpc    = [c \in Clients |-> "idle"]
  /\ id     = [c \in Clients |-> None]
  /\ held   = [c \in Clients |-> {}]
  /\ cur    = [c \in Clients |-> None]
  /\ last   = [c \in Clients |-> FALSE]
  /\ target = [c \in Clients |-> None]

-----------------------------------------------------------------------------
(* Admins.                                                                 *)

StartCall(a) ==
  /\ apc[a] = "idle"
  /\ calls[a] < MaxCalls[a]
  /\ Lock
  /\ calls' = [calls EXCEPT ![a] = @ + 1]

(* Mutation: a unicast handler is let in beside another handler.           *)
RegisterHandlerUnchecked(a, h) ==
  /\ StartCall(a)
  /\ \A s \in EntriesWith(h) : entry[s].state # "Active"
  /\ \E s \in Slots \ inMap :
       /\ entry' = [entry EXCEPT ![s] = [handler |-> h, inUse |-> 0, state |-> "Active"]]
       /\ inMap' = inMap \cup {s}
  /\ UNCHANGED <<listVars, apc, arg, todo, total, handle, done, clientVars>>

(* registerHandler.  A service registers a handler it has not registered:  *)
(* the second conjunct is the callers', not the code's.                    *)
RegisterHandler(a, h) ==
  /\ StartCall(a)
  /\ \A s \in EntriesWith(h) : entry[s].state # "Active"
  /\ \/ /\ h \notin Multicast
        /\ EntriesOf(InputId[h]) # {}
        /\ UNCHANGED mapVars
     \/ /\ h \in Multicast \/ EntriesOf(InputId[h]) = {}
        /\ \E s \in Slots \ inMap :
             /\ entry' = [entry EXCEPT ![s] =
                            [handler |-> h, inUse |-> 0, state |-> "Active"]]
             /\ inMap' = inMap \cup {s}
  /\ UNCHANGED <<listVars, apc, arg, todo, total, handle, done, clientVars>>

(* Mutation: the entry is erased whether or not it is in use.              *)
UnregisterHandlerAtOnce(a, h) ==
  /\ StartCall(a)
  /\ inMap' = inMap \ EntriesWith(h)
  /\ UNCHANGED <<entry, listVars, apc, arg, todo, total, handle, done, clientVars>>

(* unregisterHandler up to its return or its wait.                         *)
UnregisterHandler(a, h) ==
  /\ StartCall(a)
  /\ \/ /\ EntriesWith(h) = {}
        /\ UNCHANGED <<mapVars, handlerList, apc, arg, handle, done>>
     \/ \E s \in EntriesWith(h) :
          /\ entry[s].inUse = 0
          /\ inMap' = inMap \ {s}
          /\ UNCHANGED <<entry, handlerList, apc, arg, handle, done>>
     \/ \E s \in EntriesWith(h) :
          /\ entry[s].inUse # 0
          /\ entry' = SetState(s, "HandlerRemove")
          /\ handlerList' = <<a>> \o handlerList
          /\ apc' = [apc EXCEPT ![a] = "waitHandler"]
          /\ arg' = [arg EXCEPT ![a] = h]
          /\ handle' = [handle EXCEPT ![a] = s]
          /\ done' = [done EXCEPT ![a] = FALSE]
          /\ UNCHANGED inMap
  /\ UNCHANGED <<serviceList, todo, total, clientVars>>

(* The rest of it, once the latch is open and the mutex locked again: the  *)
(* node goes, and the first entry with that handler, looked up anew.       *)
UnregisterHandlerAwake(a) ==
  /\ apc[a] = "waitHandler"
  /\ done[a]
  /\ Lock
  /\ \E k \in DOMAIN handlerList :
       handlerList[k] = a /\ handlerList' = RemoveAt(handlerList, k)
  /\ \/ EntriesWith(arg[a]) = {} /\ UNCHANGED inMap
     \/ \E s \in EntriesWith(arg[a]) : inMap' = inMap \ {s}
  /\ apc' = [apc EXCEPT ![a] = "idle"]
  /\ arg' = [arg EXCEPT ![a] = None]
  /\ handle' = [handle EXCEPT ![a] = None]
  /\ done' = [done EXCEPT ![a] = FALSE]
  /\ UNCHANGED <<entry, serviceList, todo, total, calls, clientVars>>

(* unregisterService: the mutex is locked and the loop starts.             *)
UnregisterService(a, p) ==
  /\ StartCall(a)
  /\ apc' = [apc EXCEPT ![a] = "mark"]
  /\ arg' = [arg EXCEPT ![a] = p]
  /\ todo' = [todo EXCEPT ![a] = EntriesUnder(p)]
  /\ total' = [total EXCEPT ![a] = 0]
  /\ UNCHANGED <<mapVars, listVars, handle, done, clientVars>>

(* Mutation: the loop adds up the counters and marks nothing.              *)
MarkEntryNot(a) ==
  /\ apc[a] = "mark"
  /\ \E s \in todo[a] :
       /\ total' = [total EXCEPT ![a] = Plus(@, entry[s].inUse)]
       /\ todo' = [todo EXCEPT ![a] = @ \ {s}]
  /\ UNCHANGED <<mapVars, listVars, apc, arg, handle, done, calls, clientVars>>

(* Mutation: the loop counts the entries in use, not their users.          *)
MarkEntryOnce(a) ==
  /\ apc[a] = "mark"
  /\ \E s \in todo[a] :
       /\ entry' = SetState(s, "ServiceRemove")
       /\ total' = [total EXCEPT ![a] = IF entry[s].inUse = 0 THEN @ ELSE Plus(@, 1)]
       /\ todo' = [todo EXCEPT ![a] = @ \ {s}]
  /\ UNCHANGED <<inMap, listVars, apc, arg, handle, done, calls, clientVars>>

(* One iteration of the loop that marks the service's entries and adds up  *)
(* their counters.                                                         *)
MarkEntry(a) ==
  /\ apc[a] = "mark"
  /\ \E s \in todo[a] :
       /\ entry' = SetState(s, "ServiceRemove")
       /\ total' = [total EXCEPT ![a] = Plus(@, entry[s].inUse)]
       /\ todo' = [todo EXCEPT ![a] = @ \ {s}]
  /\ UNCHANGED <<inMap, listVars, apc, arg, handle, done, calls, clientVars>>

(* Mutation: the latch is created open.                                    *)
AwaitServiceOpen(a) ==
  /\ apc[a] = "mark"
  /\ todo[a] = {}
  /\ total[a] # 0
  /\ serviceList' = <<a>> \o serviceList
  /\ apc' = [apc EXCEPT ![a] = "waitService"]
  /\ done' = [done EXCEPT ![a] = TRUE]
  /\ UNCHANGED <<mapVars, handlerList, arg, todo, total, handle, calls, clientVars>>

(* Handlers are in use: leave a node, unlock and wait on its latch.        *)
AwaitService(a) ==
  /\ apc[a] = "mark"
  /\ todo[a] = {}
  /\ total[a] # 0
  /\ serviceList' = <<a>> \o serviceList
  /\ apc' = [apc EXCEPT ![a] = "waitService"]
  /\ done' = [done EXCEPT ![a] = FALSE]
  /\ UNCHANGED <<mapVars, handlerList, arg, todo, total, handle, calls, clientVars>>

(* Mutation: the mutex is not locked again after the wait.                 *)
EraseServiceUnlocked(a) ==
  /\ apc[a] = "waitService"
  /\ done[a]
  /\ serviceList' = SelectSeq(serviceList, LAMBDA b : b # a)
  /\ inMap' = inMap \ EntriesUnder(arg[a])
  /\ apc' = [apc EXCEPT ![a] = "idle"]
  /\ UNCHANGED <<entry, handlerList, arg, todo, total, handle, done, calls, clientVars>>

(* Erase every entry of the service, either at once or after the wait.     *)
EraseService(a) ==
  /\ \/ /\ apc[a] = "mark"
        /\ todo[a] = {}
        /\ total[a] = 0
        /\ UNCHANGED serviceList
     \/ /\ apc[a] = "waitService"
        /\ done[a]
        /\ Lock
        /\ \E k \in DOMAIN serviceList :
             serviceList[k] = a /\ serviceList' = RemoveAt(serviceList, k)
  /\ inMap' = inMap \ EntriesUnder(arg[a])
  /\ apc' = [apc EXCEPT ![a] = "idle"]
  /\ arg' = [arg EXCEPT ![a] = None]
  /\ total' = [total EXCEPT ![a] = 0]
  /\ done' = [done EXCEPT ![a] = FALSE]
  /\ UNCHANGED <<entry, handlerList, todo, handle, calls, clientVars>>

-----------------------------------------------------------------------------
(* Clients: Server::handleData between acquiring and releasing.            *)

(* Mutation: handles under removal can be acquired.                        *)
AcquirableAlways(s) == TRUE

(* Only an Active handle is handed out.                                    *)
Acquirable(s) == entry[s].state = "Active"

(* fetch_add on the counters of the acquired handles.                      *)
Use(c, S) ==
  /\ entry' = [s \in Slots |-> IF s \in S THEN [entry[s] EXCEPT !.inUse = Plus(@, 1)]
                                          ELSE entry[s]]
  /\ held' = [held EXCEPT ![c] = S]
  /\ cpc' = [cpc EXCEPT ![c] = "handling"]

(* aquireHandler on the id of a new message.                               *)
AquireHandler(c, i) ==
  /\ cpc[c] = "idle"
  /\ LockShared
  /\ \/ /\ \/ EntriesOf(i) = {}                                  \* ErrorNoSuchHandler
           \/ \E s \in EntriesOf(i) : EntriesOf(i) = {s} /\ ~Acquirable(s)
                                                                 \* ErrorNotAvailible
        /\ UNCHANGED <<entry, cpc, id, held>>
     \/ /\ \E s, t \in EntriesOf(i) : s # t                      \* ErrorMoreEntires
        /\ cpc' = [cpc EXCEPT ![c] = "moreEntries"]
        /\ id' = [id EXCEPT ![c] = i]
        /\ UNCHANGED <<entry, held>>
     \/ \E s \in EntriesOf(i) :
          /\ EntriesOf(i) = {s}
          /\ Acquirable(s)
          /\ Use(c, {s})
          /\ UNCHANGED id
  /\ UNCHANGED <<inMap, listVars, adminVars, cur, last, target>>

(* Mutation: what was added before the vector failed to grow stays added.  *)
AquireHandlersLeak(c) ==
  /\ cpc[c] = "moreEntries"
  /\ LockShared
  /\ \E S \in SUBSET {s \in EntriesOf(id[c]) : Acquirable(s)} :
       \/ Use(c, S) /\ S # {}
       \/ /\ entry' = [s \in Slots |-> IF s \in S THEN [entry[s] EXCEPT !.inUse = Plus(@, 1)]
                                               ELSE entry[s]]
          /\ cpc' = [cpc EXCEPT ![c] = "idle"]
          /\ UNCHANGED held
  /\ id' = [id EXCEPT ![c] = None]
  /\ UNCHANGED <<inMap, listVars, adminVars, cur, last, target>>

(* aquireHandlers, a second call with the mutex locked anew: the entries   *)
(* may no longer be those aquireHandler saw.  When the vector of handles   *)
(* cannot grow, the counters it has added to are restored before the       *)
(* mutex is unlocked.                                                      *)
AquireHandlers(c) ==
  /\ cpc[c] = "moreEntries"
  /\ LockShared
  /\ LET available == {s \in EntriesOf(id[c]) : Acquirable(s)} IN
       \/ /\ available # {}
          /\ Use(c, available)
       \/ /\ cpc' = [cpc EXCEPT ![c] = "idle"]                   \* an error status
          /\ UNCHANGED <<entry, held>>
  /\ id' = [id EXCEPT ![c] = None]
  /\ UNCHANGED <<inMap, listVars, adminVars, cur, last, target>>

AfterRelease(c) == IF held'[c] = {} THEN "idle" ELSE "handling"

(* releaseHandler has returned.                                            *)
Return(c) ==
  /\ cpc' = [cpc EXCEPT ![c] = AfterRelease(c)]
  /\ cur' = [cur EXCEPT ![c] = None]
  /\ last' = [last EXCEPT ![c] = FALSE]
  /\ target' = [target EXCEPT ![c] = None]

(* Mutation: every user, not the last one, opens the latch.                *)
ReleaseBranchEach(state, n) ==
  CASE state = "ServiceRemove" -> "service"
    [] state = "HandlerRemove" -> "handler"
    [] OTHER                   -> "return"

(* Mutation: the counter is compared after the fetch_sub as if before it.  *)
ReleaseBranchZero(state, n) ==
  CASE state = "ServiceRemove"          -> "service"
    [] state = "HandlerRemove" /\ n = 0 -> "handler"
    [] OTHER                            -> "return"

(* Mutation: the switch has no default.                                    *)
ReleaseBranchOther(state, n) == IF state = "Active" THEN "return" ELSE state

(* Where releaseHandler goes after its first fetch_sub, by the state of    *)
(* the handle; n is the counter before it.                                 *)
ReleaseBranch(state, n) ==
  CASE state = "ServiceRemove"             -> "service"
    [] state = "HandlerRemove" /\ n = 1    -> "handler"
    [] OTHER                               -> "return"

(* handleDataCommon is over: releaseHandler locks shared, takes one from   *)
(* the handle's counter and switches on its state.                         *)
ReleaseHandler(c) ==
  /\ cpc[c] = "handling"
  /\ LockShared
  /\ \E s \in held[c] :
       LET next == ReleaseBranch(entry[s].state, entry[s].inUse) IN
       /\ entry' = SetInUse(s, Minus1(entry[s].inUse))
       /\ held' = [held EXCEPT ![c] = @ \ {s}]
       /\ \/ /\ next = "return"
             /\ Return(c)
          \/ /\ next # "return"
             /\ cpc' = [cpc EXCEPT ![c] = next]
             /\ cur' = [cur EXCEPT ![c] = s]
             /\ last' = [last EXCEPT ![c] = (entry[s].inUse = 1)]
             /\ UNCHANGED target
  /\ UNCHANGED <<inMap, listVars, adminVars, id>>

(* The end of the ServiceRemove case has no break: it falls through to the *)
(* HandlerRemove case, which does something for the last user of a handle. *)
FallThrough(c, pc) ==
  \/ /\ last[c]
     /\ cpc' = [cpc EXCEPT ![c] = pc]
     /\ UNCHANGED <<cur, last, target>>
  \/ ~last[c] /\ Return(c)

(* case ServiceRemove: the first node of the same service loses one from   *)
(* its counter, and the client that takes the last one unlocks.            *)
ReleaseService(c) ==
  /\ cpc[c] = "service"
  /\ UNCHANGED held
  /\ LET nodes == FirstOf(serviceList,
                          {a \in Admins : arg[a] = ServiceOf[entry[cur[c]].handler]}) IN
       \/ /\ nodes = {}
          /\ FallThrough(c, "handler")
          /\ UNCHANGED total
       \/ \E a \in nodes :
            /\ total' = [total EXCEPT ![a] = Minus1(@)]
            /\ \/ /\ total[a] = 1
                  /\ cpc' = [cpc EXCEPT ![c] = "serviceLatch"]
                  /\ target' = [target EXCEPT ![c] = a]
                  /\ UNCHANGED <<cur, last>>
               \/ total[a] # 1 /\ FallThrough(c, "handler")
  /\ UNCHANGED <<mapVars, listVars, apc, arg, todo, handle, done, calls, id>>

(* done.count_down() of that node, without the mutex; the fall through     *)
(* then goes on without the mutex too.                                     *)
CountDownService(c) ==
  /\ cpc[c] = "serviceLatch"
  /\ UNCHANGED held
  /\ done' = [done EXCEPT ![target[c]] = TRUE]
  /\ FallThrough(c, "handlerUnlocked")
  /\ UNCHANGED <<mapVars, listVars, apc, arg, todo, total, handle, calls, id>>

(* case HandlerRemove for the last user: the first node whose entry has    *)
(* the handler of the client's own handle.                                 *)
ReleaseLast(c) ==
  /\ cpc[c] \in {"handler", "handlerUnlocked"}
  /\ UNCHANGED held
  /\ LET nodes == FirstOf(handlerList,
                          {a \in Admins : /\ handle[a] \in Slots
                                          /\ entry[handle[a]].handler = entry[cur[c]].handler})
     IN
       \/ /\ nodes = {}
          /\ Return(c)
       \/ \E a \in nodes :
            /\ cpc' = [cpc EXCEPT ![c] = "handlerLatch"]
            /\ target' = [target EXCEPT ![c] = a]
            /\ UNCHANGED <<cur, last>>
  /\ UNCHANGED <<mapVars, listVars, adminVars, id>>

(* done.count_down() of that node, without the mutex.                      *)
CountDownHandler(c) ==
  /\ cpc[c] = "handlerLatch"
  /\ UNCHANGED held
  /\ done' = [done EXCEPT ![target[c]] = TRUE]
  /\ Return(c)
  /\ UNCHANGED <<mapVars, listVars, apc, arg, todo, total, handle, calls, id>>

-----------------------------------------------------------------------------

AdminStep(a) ==
  \/ \E h \in Registers[a] : RegisterHandler(a, h)
  \/ \E h \in Unregisters[a] : UnregisterHandler(a, h)
  \/ UnregisterHandlerAwake(a)
  \/ \E p \in Withdraws[a] : UnregisterService(a, p)
  \/ MarkEntry(a)
  \/ AwaitService(a)
  \/ EraseService(a)

ClientStep(c) ==
  \/ \E i \in Ids : AquireHandler(c, i)
  \/ AquireHandlers(c)
  \/ ReleaseHandler(c)
  \/ ReleaseService(c)
  \/ CountDownService(c)
  \/ ReleaseLast(c)
  \/ CountDownHandler(c)

Next ==
  \/ \E a \in Admins : AdminStep(a)
  \/ \E c \in Clients : ClientStep(c)

Spec == Init /\ [][Next]_vars

(* A thread inside a call goes on, and a handler that runs ends.  Nobody   *)
(* has to start a call.                                                    *)
Fairness ==
  /\ \A a \in Admins :
       /\ WF_vars(UnregisterHandlerAwake(a))
       /\ WF_vars(MarkEntry(a))
       /\ WF_vars(AwaitService(a))
       /\ WF_vars(EraseService(a))
  /\ \A c \in Clients :
       /\ WF_vars(AquireHandlers(c))
       /\ WF_vars(ReleaseHandler(c))
       /\ WF_vars(ReleaseService(c))
       /\ WF_vars(CountDownService(c))
       /\ WF_vars(ReleaseLast(c))
       /\ WF_vars(CountDownHandler(c))

FairSpec == Spec /\ Fairness

-----------------------------------------------------------------------------
(* Properties.                                                             *)

MapTypeOK ==
  /\ entry \in [Slots -> SdhHandle]
  /\ inMap \subseteq Slots
  /\ \A s \in inMap : entry[s].handler \in Handlers

ListTypeOK ==
  /\ serviceList \in Seq(Admins)
  /\ handlerList \in Seq(Admins)

AdminTypeOK ==
  /\ apc \in [Admins -> AdminPc]
  /\ arg \in [Admins -> Handlers \cup Services \cup {None}]
  /\ todo \in [Admins -> SUBSET Slots]
  /\ total \in [Admins -> 0..CounterMax]
  /\ handle \in [Admins -> Slots \cup {None}]
  /\ done \in [Admins -> BOOLEAN]
  /\ calls \in [Admins -> Nat]
  /\ \A a \in Admins : calls[a] <= MaxCalls[a]

ClientTypeOK ==
  /\ cpc \in [Clients -> ClientPc]
  /\ id \in [Clients -> Ids \cup {None}]
  /\ held \in [Clients -> SUBSET Slots]
  /\ cur \in [Clients -> Slots \cup {None}]
  /\ last \in [Clients -> BOOLEAN]
  /\ target \in [Clients -> Admins \cup {None}]

(* Every variable has the type of the member, local or mutex state it      *)
(* stands for; in particular every node of the map has a handler, which is *)
(* what the lookups of the registrar dereference.                          *)
TypeOK == MapTypeOK /\ ListTypeOK /\ AdminTypeOK /\ ClientTypeOK

UsersOf(s) == {c \in Clients : s \in held[c]}

(* A handle that a client holds is an entry of the map: no unregister call *)
(* erases a node, or returns to a caller that may then destroy the         *)
(* handler, while handleDataCommon can be running on it.                   *)
HeldHandlersStay == \A c \in Clients : held[c] \subseteq inMap

(* The in-use counter of every entry is the number of clients that hold    *)
(* it, whatever the order of aquireHandler, aquireHandlers,                *)
(* releaseHandler and the re-use of nodes.                                 *)
CountersExact == \A s \in inMap : entry[s].inUse = Cardinality(UsersOf(s))

(* A client about to call count_down on a latch finds the node still in    *)
(* its list and the latch still closed: the node does not die between the  *)
(* unlock and the count_down, and the latch goes below zero never.         *)
LatchCountedOnce ==
  \A c \in Clients :
    LET a == target[c] IN
    /\ cpc[c] = "serviceLatch" => a \in Range(serviceList) /\ ~done[a]
    /\ cpc[c] = "handlerLatch" => a \in Range(handlerList) /\ ~done[a]
    /\ cpc[c] \in {"serviceLatch", "handlerLatch"} =>
         \A b \in Clients \ {c} :
           cpc[b] \in {"serviceLatch", "handlerLatch"} => target[b] # a

(* releaseHandler reads its handle only while the node is in the map.  The *)
(* loop over m_unregisterHandlerList reads it once for each node.          *)
ReleaseReadsLiveEntry ==
  \A c \in Clients :
    \/ cpc[c] \in {"service", "handler"}
    \/ cpc[c] = "handlerUnlocked" /\ handlerList # <<>>
    => cur[c] \in inMap

(* What an acquire hands out for a message: handlers of one id, no two of  *)
(* them unicast, however handlers were registered and removed between the  *)
(* ErrorMoreEntires of aquireHandler and aquireHandlers, and nodes used    *)
(* again while they run.  This is what Server::handleData loops over.      *)
AcquiredTogether ==
  \A c \in Clients : \A s, t \in held[c] :
    s # t => /\ InputId[entry[s].handler] = InputId[entry[t].handler]
             /\ entry[s].handler \in Multicast \/ entry[t].handler \in Multicast

(* The registrar implements the draining registry: Acquire on an entry     *)
(* being removed, or Remove of one in use, would be a step that registry   *)
(* does not have.                                                          *)
Registry == INSTANCE DrainingRegistry WITH
  Users   <- Clients,
  Entries <- Slots,
  live    <- inMap,
  closing <- {s \in inMap : entry[s].state # "Active"},
  using   <- [s \in Slots |-> UsersOf(s)]

ImplementsDrainingRegistry == Registry!Spec

(* Every unregister call returns.                                          *)
UnregisterReturns == \A a \in Admins : apc[a] # "idle" ~> apc[a] = "idle"
=============================================================================
