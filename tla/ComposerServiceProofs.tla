------------------------- MODULE ComposerServiceProofs -------------------------
(***************************************************************************)
(* Proofs about ComposerService, for any number of clients, displays and    *)
(* layers, any vendor libraries and any number of binds.                    *)
(*                                                                          *)
(* BoundInv: the read lock keeps Release and Bind away from requests.        *)
(* LayerInv: a layer id belongs to one client and one display, a cached     *)
(* layer is owned, and a layer between the two halves of CreateLayer is      *)
(* known to the VDI only.  CallbackInv: what the VDI was told is at most as  *)
(* young as the bound service, and a callback precedes or is about to follow *)
(* it.  PointerInv: the function table is complete, and the one vblank       *)
(* callback of a first service is kept alive.                               *)
(***************************************************************************)
EXTENDS ComposerService, TLAPS

CreateCalls   == [op : {"create"}, gen : Nat, step : {1, 2}, d : Displays, l : Nat]
DestroyCalls  == [op : {"destroy"}, gen : Nat, step : {1, 2}, d : Displays, l : Nat]
RegisterCalls == [op : {"register"}, gen : Nat, step : {1, 2}, k : Kinds]
VBlankCalls   == [op : {"vblank"}, gen : Nat, step : {1, 2}, d : Displays, p : Nat]

Calls ==
    {NoCall} \cup [op : {"query"}, gen : Nat] \cup CreateCalls \cup DestroyCalls
        \cup RegisterCalls \cup VBlankCalls

Events ==
    {NoEvent} \cup [kind : {"hotplug"}, d : Displays, on : BOOLEAN, step : {1, 2}]
        \cup [kind : Kinds \ {"hotplug"}, step : {2}] \cup [kind : {"vblank"}, p : Nat]

\* The driver's variables.
DriverType ==
    /\ stop \in BOOLEAN /\ host \in {"none", "live", "freed"}
    /\ gen \in Nat /\ binds \in Nat
    /\ adapter \in {"null", "unset", "set"}
    /\ call \in [Clients -> Calls]

LayerType ==
    /\ DOMAIN cache \subseteq Displays
    /\ cache \in [DOMAIN cache -> SUBSET Nat]
    /\ vdiLayers \in [Displays -> SUBSET Nat]
    /\ nextLayer \in Nat
    /\ owned \in [Clients -> SUBSET (Displays \X Nat)]
    /\ uncached \in SUBSET Nat

EventType ==
    /\ connected \in SUBSET Displays /\ reports \in SUBSET Displays
    /\ cb \in [Kinds -> Clients \cup {"null"}]
    /\ vdiCb \in [Kinds -> Nat]
    /\ event \in Events
    /\ vdiVBlank \in [Displays -> Nat] /\ vBlankCb \in Nat /\ nextVBlank \in Nat

TypeInv == DriverType /\ LayerType /\ EventType

--------------------------------------------------------------------------------
BoundInv ==
    /\ ~ stop => host = "live" /\ gen > 0
    /\ \A c \in Clients : Inside(c) => ~ stop /\ call[c].gen = gen

\* A layer a client has is in a cache, or was in one that went.
OwnedAreCached ==
    \A c \in Clients : \A o \in owned[c] :
        /\ o[2] < nextLayer
        /\ o[2] \in uncached \/ (o[1] \in DOMAIN cache /\ o[2] \in cache[o[1]])

\* A layer has one owner and one display.
OwnersDiffer ==
    \A c1, c2 \in Clients : \A o1 \in owned[c1], o2 \in owned[c2] :
        o1[2] = o2[2] => c1 = c2 /\ o1 = o2

CachedAreOwned ==
    \A d \in DOMAIN cache : \A l \in cache[d] : \E c \in Clients : <<d, l>> \in owned[c]

DestroyedAreOwned ==
    \A c \in Clients : call[c].op = "destroy" => <<call[c].d, call[c].l>> \in owned[c]

\* Between its two halves CreateLayer has a layer that nobody else has.
CreatedAreNew ==
    \A c \in Clients : call[c].op = "create" /\ call[c].step = 2 =>
        /\ call[c].l < nextLayer /\ call[c].l \in vdiLayers[call[c].d]
        /\ \A c2 \in Clients : \A o \in owned[c2] : o[2] # call[c].l
        /\ \A c2 \in Clients : call[c2].op = "create" /\ call[c2].step = 2
                               /\ call[c2].l = call[c].l => c2 = c

\* The second half of LayersAreCached.
CachedAreKnown ==
    \A d \in DOMAIN cache : \A l \in cache[d] \ vdiLayers[d] :
        \E c \in Clients : call[c].op = "destroy" /\ call[c].step = 2 /\ call[c].l = l

LayerInv ==
    /\ OwnedAreCached /\ OwnersDiffer /\ CachedAreOwned /\ DestroyedAreOwned
    /\ CreatedAreNew /\ CachedAreKnown

CallbackInv ==
    /\ \A k \in Kinds : vdiCb[k] <= gen
    /\ reports # {} => "hotplug" \in Kinds /\ vdiCb["hotplug"] # 0
    /\ event.kind \in Kinds => vdiCb[event.kind] # 0
    /\ \A c \in Clients : call[c].op = "register" /\ call[c].step = 2 /\ call[c].k \in Early =>
          cb[call[c].k] # "null" /\ adapter = "set" /\ Registers[call[c].k] \in offered
    /\ \A k \in Kinds : vdiCb[k] # 0 /\ vdiCb[k] = gen /\ cb[k] = "null" =>
          /\ k \in Late
          /\ \E c \in Clients : call[c].op = "register" /\ call[c].k = k /\ call[c].step = 2

VBlankOf(c) == call[c].op = "vblank"

PointerInv ==
    /\ adapter = "set" => Required \subseteq offered
    /\ gen = 0 => nextVBlank = 1
    /\ nextVBlank > 0
    /\ \A d \in Displays : vdiVBlank[d] < nextVBlank
    /\ event.kind = "vblank" => 0 < event.p /\ event.p < nextVBlank
    /\ \A c \in Clients : VBlankOf(c) => 0 < call[c].p /\ call[c].p < nextVBlank
    /\ \A c1, c2 \in Clients : VBlankOf(c1) /\ VBlankOf(c2) /\ call[c1].p = call[c2].p => c1 = c2
    /\ gen <= 1 /\ nextVBlank <= 2 /\ ((\E d \in Displays : vdiVBlank[d] # 0) \/ event.kind = "vblank") =>
          vBlankCb = 1 \/ \E c \in Clients : VBlankOf(c) /\ call[c].step = 2 /\ call[c].p = 1

ComposerInv == TypeInv /\ BoundInv /\ LayerInv /\ CallbackInv /\ PointerInv

--------------------------------------------------------------------------------
(* The steps, as the invariants tell them apart. *)

\* Nothing but, perhaps, the end of the process.
Frozen == UNCHANGED <<driver, call, layers, events, vblank>>

\* A request is refused before it has changed anything that has to be followed up.
Ends(c) ==
    /\ \/ call[c].op \in {"query", "create"}
       \/ call[c].op \in {"destroy", "register", "vblank"} /\ call[c].step = 1
       \/ call[c].op = "register" /\ call[c].k \in Early
    /\ Refused(c)

VdiCreates(c) ==
    /\ call[c].op = "create" /\ call[c].step = 1
    /\ vdiLayers' = [vdiLayers EXCEPT ![call[c].d] = @ \cup {nextLayer}]
    /\ nextLayer' = nextLayer + 1
    /\ call' = [call EXCEPT ![c].step = 2, ![c].l = nextLayer]
    /\ UNCHANGED <<driver, cache, owned, uncached, events, vblank, crash>>

CacheKeeps(c) ==
    /\ call[c].op = "create" /\ call[c].step = 2 /\ call[c].d \in DOMAIN cache
    /\ cache' = [cache EXCEPT ![call[c].d] = @ \cup {call[c].l}]
    /\ owned' = [owned EXCEPT ![c] = @ \cup {<<call[c].d, call[c].l>>}]
    /\ Return(c)
    /\ UNCHANGED <<driver, vdiLayers, nextLayer, uncached, events, vblank, crash>>

VdiDestroys(c) ==
    /\ call[c].op = "destroy" /\ call[c].step = 1
    /\ vdiLayers' = [vdiLayers EXCEPT ![call[c].d] = @ \ {call[c].l}]
    /\ call' = [call EXCEPT ![c].step = 2]
    /\ UNCHANGED <<driver, cache, nextLayer, owned, uncached, events, vblank, crash>>

TellsEarly(c, k) ==
    /\ call[c].op = "register" /\ call[c].step = 2 /\ call[c].k = k /\ k \in Early
    /\ Registered(c, k)
    /\ Return(c)
    /\ UNCHANGED <<driver, layers, connected, cb, event, vblank, crash>>

TellsVBlank(c) ==
    /\ call[c].op = "vblank" /\ call[c].step = 1
    /\ vdiVBlank' = [vdiVBlank EXCEPT ![call[c].d] = call[c].p]
    /\ call' = [call EXCEPT ![c].step = 2]
    /\ UNCHANGED <<driver, layers, events, vBlankCb, nextVBlank, crash>>

KeepsVBlank(c) ==
    /\ call[c].op = "vblank" /\ call[c].step = 2
    /\ vBlankCb' = call[c].p
    /\ Return(c)
    /\ UNCHANGED <<driver, layers, events, vdiVBlank, nextVBlank, crash>>

EventEnds ==
    /\ event' = NoEvent
    /\ UNCHANGED <<driver, call, layers, connected, cb, vdiCb, reports, vblank, crash>>

ClientStep(c) ==
    \/ Ends(c) \/ Dispatch(c) \/ VdiCreates(c) \/ CacheKeeps(c) \/ VdiDestroys(c)
    \/ DestroyLayerCache(c) \/ TellsVBlank(c) \/ KeepsVBlank(c)
    \/ \E k \in Kinds : KeepEarly(c, k) \/ TellsEarly(c, k) \/ RegisterLate(c, k) \/ KeepLate(c, k)

\* Every step is one of these.
LEMMA Steps ==
  ASSUME [Next]_vars
  PROVE  \/ Frozen \/ BindFails \/ Bind \/ Release
         \/ \E c \in Clients : ClientStep(c)
         \/ \E d \in Displays : Plug(d)
         \/ Report \/ OnHotPlugCache \/ EventEnds
<1>1. CASE BindFreed \/ OnStale \/ Crashed \/ UNCHANGED vars
  BY <1>1 DEF BindFreed, OnStale, Crashes, Crashed, Frozen, vars
<1>2. ASSUME NEW c \in Clients, Query(c) \/ Clear(c) PROVE Frozen \/ Ends(c)
  BY <1>2 DEF Query, Clear, Ends, Crashes, Frozen
<1>3. ASSUME NEW c \in Clients, CreateLayerVdi(c) PROVE Frozen \/ Ends(c) \/ VdiCreates(c)
  BY <1>3 DEF CreateLayerVdi, At, Ends, Crashes, Frozen, VdiCreates
<1>4. ASSUME NEW c \in Clients, CreateLayerCache(c) PROVE Ends(c) \/ CacheKeeps(c)
  BY <1>4 DEF CreateLayerCache, At, Ends, CacheKeeps
<1>5. ASSUME NEW c \in Clients, DestroyLayerVdi(c) PROVE Frozen \/ Ends(c) \/ VdiDestroys(c)
  BY <1>5 DEF DestroyLayerVdi, At, Ends, Crashes, Frozen, VdiDestroys
<1>6. ASSUME NEW c \in Clients, NEW k \in Kinds, RegisterEarly(c, k) \/ RegisterRefused(c, k)
      PROVE  Frozen \/ Ends(c) \/ TellsEarly(c, k)
  BY <1>6 DEF RegisterEarly, RegisterRefused, At, Ends, Crashes, Frozen, TellsEarly
<1>7. ASSUME NEW c \in Clients, RegDisplayVBlankCallback(c)
      PROVE  Frozen \/ Ends(c) \/ TellsVBlank(c) \/ KeepsVBlank(c)
  BY <1>7 DEF RegDisplayVBlankCallback, At, Ends, Crashes, Frozen, TellsVBlank, KeepsVBlank
<1>8. CASE OnEvent \/ OnVBlank
  BY <1>8 DEF OnEvent, OnVBlank, Crashes, Frozen, EventEnds
<1>9. QED
  BY <1>1, <1>2, <1>3, <1>4, <1>5, <1>6, <1>7, <1>8 DEF Next, ClientStep

\* A request is well-formed.
LEMMA RequestType ==
  ASSUME TypeInv, NEW c \in Clients, NEW r \in Requests(c)
  PROVE  r \in Calls
<1> USE ComposerAssumption DEF TypeInv, DriverType, LayerType, EventType, Calls, CreateCalls, DestroyCalls, RegisterCalls, VBlankCalls, NoCall
<1>1. CASE r \in {[op |-> "destroy", gen |-> gen, step |-> 1, d |-> o[1], l |-> o[2]] : o \in owned[c]}
  <2>1. PICK o \in owned[c] : r = [op |-> "destroy", gen |-> gen, step |-> 1, d |-> o[1], l |-> o[2]]
    BY <1>1
  <2>2. o \in Displays \X Nat
    BY <2>1
  <2>3. QED
    BY <2>1, <2>2
<1>2. CASE r \in [op : {"query"}, gen : {gen}]
  BY <1>2
<1>3. CASE r \in [op : {"create"}, gen : {gen}, step : {1}, d : Displays, l : {0}]
  BY <1>3
<1>4. CASE r \in [op : {"register"}, gen : {gen}, step : {1}, k : Kinds]
  BY <1>4
<1>5. CASE r \in [op : {"vblank"}, gen : {gen}, step : {1}, d : Displays, p : {nextVBlank}]
  BY <1>5
<1>6. QED
  BY <1>1, <1>2, <1>3, <1>4, <1>5 DEF Requests

\* The types of the driver and of the requests.
LEMMA DriverTypeNext ==
  ASSUME TypeInv, [Next]_vars
  PROVE  DriverType'
<1> USE ComposerAssumption DEF TypeInv, DriverType, Calls, CreateCalls, DestroyCalls, RegisterCalls, VBlankCalls, NoCall, driver, layers, events, vblank
<1>1. CASE Frozen
  BY <1>1 DEF Frozen
<1>2. CASE BindFails
  BY <1>2 DEF BindFails, MayBind
<1>3. CASE Bind
  <2>1. adapter' \in {"null", "unset", "set"}
    BY <1>3 DEF Bind, DisplayComposerService, LoadVdiSoFails, LoadVdiAdapterFails, CreateResponserFails, Loaded
  <2> HIDE DEF Calls
  <2>2. gen' = gen + 1 /\ binds' = binds + 1 /\ host' = "live" /\ stop' = FALSE /\ call' = call
    BY <1>3 DEF Bind
  <2>3. stop' \in BOOLEAN
    BY <2>2, Zenon
  <2>4. gen' \in Nat /\ binds' \in Nat
    BY <2>2
  <2>5. QED
    BY <2>1, <2>2, <2>3, <2>4
<1>4. CASE Release
  BY <1>4 DEF Release
<1>5. ASSUME NEW c \in Clients, ClientStep(c) PROVE DriverType'
  <2>1. CASE Ends(c)
    BY <2>1 DEF Ends, Refused, Return
  <2>2. CASE Dispatch(c)
    <3> PICK r \in Requests(c) : call' = [call EXCEPT ![c] = r]
      BY <2>2 DEF Dispatch
    <3>1. r \in Calls
      BY RequestType
    <3> HIDE DEF Calls
    <3>2. QED
      BY <2>2, <3>1 DEF Dispatch
  <2>3. CASE VdiCreates(c)
    <3>1. call[c] \in CreateCalls /\ nextLayer \in Nat
      BY <2>3 DEF VdiCreates, LayerType
    <3>2. [call[c] EXCEPT !.step = 2, !.l = nextLayer] \in CreateCalls
      BY <3>1
    <3> HIDE DEF CreateCalls
    <3>3. QED
      BY <2>3, <3>1, <3>2 DEF VdiCreates
  <2>4. CASE CacheKeeps(c)
    BY <2>4 DEF CacheKeeps, Return
  <2>5. CASE VdiDestroys(c)
    BY <2>5 DEF VdiDestroys
  <2>6. CASE DestroyLayerCache(c)
    BY <2>6 DEF DestroyLayerCache, At, Return
  <2>7. CASE TellsVBlank(c)
    BY <2>7 DEF TellsVBlank
  <2>8. CASE KeepsVBlank(c)
    BY <2>8 DEF KeepsVBlank, Return
  <2>9. ASSUME NEW k \in Kinds, KeepEarly(c, k) PROVE DriverType'
    BY <2>9 DEF KeepEarly, MayRegister, At
  <2>10. ASSUME NEW k \in Kinds, TellsEarly(c, k) PROVE DriverType'
    BY <2>10 DEF TellsEarly, Registered, Return
  <2>11. ASSUME NEW k \in Kinds, RegisterLate(c, k) PROVE DriverType'
    BY <2>11 DEF RegisterLate, MayRegister, Registered, At
  <2>12. ASSUME NEW k \in Kinds, KeepLate(c, k) PROVE DriverType'
    BY <2>12 DEF KeepLate, At, Return
  <2>13. QED
    BY <1>5, <2>1, <2>2, <2>3, <2>4, <2>5, <2>6, <2>7, <2>8, <2>9, <2>10, <2>11, <2>12 DEF ClientStep
<1>6. ASSUME NEW d \in Displays, Plug(d) PROVE DriverType'
  BY <1>6 DEF Plug
<1>7. CASE Report
  BY <1>7 DEF Report
<1>8. CASE OnHotPlugCache
  BY <1>8 DEF OnHotPlugCache
<1>9. CASE EventEnds
  BY <1>9 DEF EventEnds
<1>10. QED
  BY Steps, <1>1, <1>2, <1>3, <1>4, <1>5, <1>6, <1>7, <1>8, <1>9

\* The types of layers and caches.
LEMMA LayerTypeNext ==
  ASSUME TypeInv, [Next]_vars
  PROVE  LayerType'
<1> USE ComposerAssumption DEF TypeInv, DriverType, LayerType, Calls, CreateCalls, DestroyCalls, RegisterCalls, VBlankCalls, NoCall, driver, layers, events, vblank
<1>1. CASE Frozen
  BY <1>1 DEF Frozen
<1>2. CASE BindFails
  BY <1>2 DEF BindFails, MayBind
<1>3. CASE Bind
  BY <1>3 DEF Bind, MayBind, DisplayComposerService, LoadVdiSoFails, LoadVdiAdapterFails, CreateResponserFails, Loaded
<1>4. CASE Release
  BY <1>4 DEF Release
<1>5. ASSUME NEW c \in Clients, ClientStep(c) PROVE LayerType'
  <2>1. CASE Ends(c)
    BY <2>1 DEF Ends, Refused, Return
  <2>2. CASE Dispatch(c)
    BY <2>2 DEF Dispatch, Requests, Inside
  <2>3. CASE VdiCreates(c)
    BY <2>3 DEF VdiCreates
  <2>4. CASE CacheKeeps(c)
    BY <2>4 DEF CacheKeeps, Return
  <2>5. CASE VdiDestroys(c)
    BY <2>5 DEF VdiDestroys
  <2>6. CASE DestroyLayerCache(c)
    BY <2>6 DEF DestroyLayerCache, At, Return
  <2>7. CASE TellsVBlank(c)
    BY <2>7 DEF TellsVBlank
  <2>8. CASE KeepsVBlank(c)
    BY <2>8 DEF KeepsVBlank, Return
  <2>9. ASSUME NEW k \in Kinds, KeepEarly(c, k) PROVE LayerType'
    BY <2>9 DEF KeepEarly, MayRegister, At
  <2>10. ASSUME NEW k \in Kinds, TellsEarly(c, k) PROVE LayerType'
    BY <2>10 DEF TellsEarly, Registered, Return
  <2>11. ASSUME NEW k \in Kinds, RegisterLate(c, k) PROVE LayerType'
    BY <2>11 DEF RegisterLate, MayRegister, Registered, At
  <2>12. ASSUME NEW k \in Kinds, KeepLate(c, k) PROVE LayerType'
    BY <2>12 DEF KeepLate, At, Return
  <2>13. QED
    BY <1>5, <2>1, <2>2, <2>3, <2>4, <2>5, <2>6, <2>7, <2>8, <2>9, <2>10, <2>11, <2>12 DEF ClientStep
<1>6. ASSUME NEW d \in Displays, Plug(d) PROVE LayerType'
  BY <1>6 DEF Plug
<1>7. CASE Report
  BY <1>7 DEF Report
<1>8. CASE OnHotPlugCache
  <2>1. event.d \in Displays
    BY <1>8 DEF OnHotPlugCache, EventType, Events, NoEvent
  <2>2. QED
    BY <1>8, <2>1 DEF OnHotPlugCache
<1>9. CASE EventEnds
  BY <1>9 DEF EventEnds
<1>10. QED
  BY Steps, <1>1, <1>2, <1>3, <1>4, <1>5, <1>6, <1>7, <1>8, <1>9

\* The types of callbacks and events.
LEMMA EventTypeNext ==
  ASSUME TypeInv, [Next]_vars
  PROVE  EventType'
<1> USE ComposerAssumption DEF TypeInv, DriverType, EventType, Events, NoEvent, Calls, CreateCalls, DestroyCalls, RegisterCalls, VBlankCalls, NoCall, driver, layers, events, vblank
<1>1. CASE Frozen
  BY <1>1 DEF Frozen
<1>2. CASE BindFails
  BY <1>2 DEF BindFails, MayBind
<1>3. CASE Bind
  BY <1>3 DEF Bind, MayBind, DisplayComposerService, LoadVdiSoFails, LoadVdiAdapterFails, CreateResponserFails, Loaded
<1>4. CASE Release
  BY <1>4 DEF Release
<1>5. ASSUME NEW c \in Clients, ClientStep(c) PROVE EventType'
  <2>1. CASE Ends(c)
    BY <2>1 DEF Ends, Refused, Return
  <2>2. CASE Dispatch(c)
    BY <2>2 DEF Dispatch, Requests, Inside
  <2>3. CASE VdiCreates(c)
    BY <2>3 DEF VdiCreates
  <2>4. CASE CacheKeeps(c)
    BY <2>4 DEF CacheKeeps, Return
  <2>5. CASE VdiDestroys(c)
    BY <2>5 DEF VdiDestroys
  <2>6. CASE DestroyLayerCache(c)
    BY <2>6 DEF DestroyLayerCache, At, Return
  <2>7. CASE TellsVBlank(c)
    BY <2>7 DEF TellsVBlank
  <2>8. CASE KeepsVBlank(c)
    BY <2>8 DEF KeepsVBlank, Return
  <2>9. ASSUME NEW k \in Kinds, KeepEarly(c, k) PROVE EventType'
    BY <2>9 DEF KeepEarly, MayRegister, At
  <2>10. ASSUME NEW k \in Kinds, TellsEarly(c, k) PROVE EventType'
    BY <2>10 DEF TellsEarly, Registered, Return
  <2>11. ASSUME NEW k \in Kinds, RegisterLate(c, k) PROVE EventType'
    BY <2>11 DEF RegisterLate, MayRegister, Registered, At
  <2>12. ASSUME NEW k \in Kinds, KeepLate(c, k) PROVE EventType'
    BY <2>12 DEF KeepLate, At, Return
  <2>13. QED
    BY <1>5, <2>1, <2>2, <2>3, <2>4, <2>5, <2>6, <2>7, <2>8, <2>9, <2>10, <2>11, <2>12 DEF ClientStep
<1>6. ASSUME NEW d \in Displays, Plug(d) PROVE EventType'
  BY <1>6 DEF Plug
<1>7. CASE Report
  <2>1. reports' \in SUBSET Displays /\ UNCHANGED <<connected, cb, vdiCb, vblank>>
    BY <1>7 DEF Report
  <2>2. ASSUME NEW d \in reports, event' = [kind |-> "hotplug", d |-> d, on |-> d \in connected, step |-> 1]
        PROVE  event' \in Events
    <3>1. (d \in connected) \in BOOLEAN
      OBVIOUS
    <3>2. QED
      BY <2>2, <3>1
  <2>3. ASSUME NEW k \in Kinds \ {"hotplug"}, event' = [kind |-> k, step |-> 2]
        PROVE  event' \in Events
    BY <2>3
  <2>4. ASSUME NEW d \in Displays, event' = [kind |-> "vblank", p |-> vdiVBlank[d]]
        PROVE  event' \in Events
    BY <2>4
  <2> HIDE DEF Events
  <2>5. event' \in Events
    BY <1>7, <2>2, <2>3, <2>4 DEF Report
  <2>6. QED
    BY <2>1, <2>5
<1>8. CASE OnHotPlugCache
  BY <1>8 DEF OnHotPlugCache
<1>9. CASE EventEnds
  BY <1>9 DEF EventEnds
<1>10. QED
  BY Steps, <1>1, <1>2, <1>3, <1>4, <1>5, <1>6, <1>7, <1>8, <1>9

\* Requests stay in the service that is bound.
LEMMA BoundNext ==
  ASSUME TypeInv, BoundInv, [Next]_vars
  PROVE  BoundInv'
<1> USE ComposerAssumption DEF TypeInv, DriverType, BoundInv, Inside, Calls, CreateCalls, DestroyCalls, RegisterCalls, VBlankCalls, NoCall, driver, layers, events, vblank
<1>1. CASE Frozen
  BY <1>1 DEF Frozen
<1>2. CASE BindFails
  BY <1>2 DEF BindFails, MayBind
<1>3. CASE Bind
  BY <1>3 DEF Bind, MayBind, DisplayComposerService, LoadVdiSoFails, LoadVdiAdapterFails, CreateResponserFails, Loaded
<1>4. CASE Release
  BY <1>4 DEF Release
<1>5. ASSUME NEW c \in Clients, ClientStep(c) PROVE BoundInv'
  <2>1. CASE Ends(c)
    BY <2>1 DEF Ends, Refused, Return
  <2>2. CASE Dispatch(c)
    BY <2>2 DEF Dispatch, Requests, Inside
  <2>3. CASE VdiCreates(c)
    BY <2>3 DEF VdiCreates
  <2>4. CASE CacheKeeps(c)
    BY <2>4 DEF CacheKeeps, Return
  <2>5. CASE VdiDestroys(c)
    BY <2>5 DEF VdiDestroys
  <2>6. CASE DestroyLayerCache(c)
    BY <2>6 DEF DestroyLayerCache, At, Return
  <2>7. CASE TellsVBlank(c)
    BY <2>7 DEF TellsVBlank
  <2>8. CASE KeepsVBlank(c)
    BY <2>8 DEF KeepsVBlank, Return
  <2>9. ASSUME NEW k \in Kinds, KeepEarly(c, k) PROVE BoundInv'
    BY <2>9 DEF KeepEarly, MayRegister, At
  <2>10. ASSUME NEW k \in Kinds, TellsEarly(c, k) PROVE BoundInv'
    BY <2>10 DEF TellsEarly, Registered, Return
  <2>11. ASSUME NEW k \in Kinds, RegisterLate(c, k) PROVE BoundInv'
    BY <2>11 DEF RegisterLate, MayRegister, Registered, At
  <2>12. ASSUME NEW k \in Kinds, KeepLate(c, k) PROVE BoundInv'
    BY <2>12 DEF KeepLate, At, Return
  <2>13. QED
    BY <1>5, <2>1, <2>2, <2>3, <2>4, <2>5, <2>6, <2>7, <2>8, <2>9, <2>10, <2>11, <2>12 DEF ClientStep
<1>6. ASSUME NEW d \in Displays, Plug(d) PROVE BoundInv'
  BY <1>6 DEF Plug
<1>7. CASE Report
  BY <1>7 DEF Report
<1>8. CASE OnHotPlugCache
  BY <1>8 DEF OnHotPlugCache
<1>9. CASE EventEnds
  BY <1>9 DEF EventEnds
<1>10. QED
  BY Steps, <1>1, <1>2, <1>3, <1>4, <1>5, <1>6, <1>7, <1>8, <1>9

\* Layers, caches and owners.
LEMMA LayerNext ==
  ASSUME TypeInv, BoundInv, LayerInv, [Next]_vars
  PROVE  LayerInv'
<1> USE ComposerAssumption DEF TypeInv, DriverType, LayerType, LayerInv, OwnedAreCached, OwnersDiffer, CachedAreOwned, DestroyedAreOwned, CreatedAreNew, CachedAreKnown, Calls, CreateCalls, DestroyCalls, RegisterCalls, VBlankCalls, NoCall, driver, layers, events, vblank
<1>1. CASE Frozen
  BY <1>1 DEF Frozen
<1>2. CASE BindFails
  BY <1>2 DEF BindFails, MayBind
<1>3. CASE Bind
  BY <1>3 DEF Bind, MayBind, DisplayComposerService, LoadVdiSoFails, LoadVdiAdapterFails, CreateResponserFails, Loaded
<1>4. CASE Release
  BY <1>4 DEF Release
<1>5. ASSUME NEW c \in Clients, ClientStep(c) PROVE LayerInv'
  <2>1. CASE Ends(c)
    BY <2>1 DEF Ends, Refused, Return
  <2>2. CASE Dispatch(c)
    BY <2>2 DEF Dispatch, Requests, Inside
  <2>3. CASE VdiCreates(c)
    <3>1. /\ call[c].op = "create" /\ call[c].step = 1 /\ call[c].d \in Displays
          /\ nextLayer \in Nat /\ nextLayer' = nextLayer + 1
      BY <2>3 DEF VdiCreates
    <3>2. /\ call'[c].op = "create" /\ call'[c].step = 2 /\ call'[c].d = call[c].d
          /\ call'[c].l = nextLayer
          /\ \A c2 \in Clients \ {c} : call'[c2] = call[c2]
      BY <2>3, <3>1 DEF VdiCreates
    <3>3. UNCHANGED <<cache, owned, uncached>>
      BY <2>3 DEF VdiCreates
    <3>4. /\ nextLayer \in vdiLayers'[call[c].d]
          /\ \A x \in Displays : vdiLayers[x] \subseteq vdiLayers'[x]
      BY <2>3, <3>1 DEF VdiCreates
    <3> HIDE DEF Calls
    <3>5. \A c2 \in Clients : \A o \in owned[c2] : o[2] \in Nat /\ o[2] < nextLayer /\ o[2] < nextLayer'
      BY <3>1
    <3>6. (OwnedAreCached /\ OwnersDiffer /\ CachedAreOwned)'
      BY <3>3, <3>5
    <3>7. DestroyedAreOwned'
      BY <3>2, <3>3
    <3>8. CreatedAreNew'
      <4> SUFFICES ASSUME NEW c1 \in Clients, (call[c1].op = "create" /\ call[c1].step = 2)'
                   PROVE  /\ (call[c1].l < nextLayer /\ call[c1].l \in vdiLayers[call[c1].d])'
                          /\ \A c2 \in Clients : \A o \in owned'[c2] : o[2] # call'[c1].l
                          /\ \A c2 \in Clients : call'[c2].op = "create" /\ call'[c2].step = 2
                                                 /\ call'[c2].l = call'[c1].l => c2 = c1
        OBVIOUS
      <4>1. CASE c1 = c
        BY <3>1, <3>2, <3>3, <3>4, <3>5, <4>1
      <4>2. CASE c1 # c
        <5>1. call'[c1] = call[c1] /\ call[c1].d \in Displays /\ call[c1].l \in Nat
          BY <3>2, <4>2 DEF Calls
        <5>2. call[c1].l < nextLayer
          BY <5>1
        <5>3. QED
          BY <3>1, <3>2, <3>3, <3>4, <5>1, <5>2
      <4>3. QED
        BY <4>1, <4>2
    <3>9. CachedAreKnown'
      BY <3>1, <3>2, <3>3, <3>4
    <3>10. QED
      BY <3>6, <3>7, <3>8, <3>9
  <2>4. CASE CacheKeeps(c)
    BY <2>4 DEF CacheKeeps, Return
  <2>5. CASE VdiDestroys(c)
    <3> DEFINE dd == call[c].d  ll == call[c].l
    <3>1. dd \in Displays /\ ll \in Nat /\ <<dd, ll>> \in owned[c]
      BY <2>5 DEF VdiDestroys
    <3>2. call' = [call EXCEPT ![c].step = 2] /\ call[c].op = "destroy" /\ call[c].step = 1
      BY <2>5 DEF VdiDestroys
    <3>3. /\ call'[c].op = "destroy" /\ call'[c].step = 2 /\ call'[c].d = dd /\ call'[c].l = ll
          /\ \A c2 \in Clients \ {c} : call'[c2] = call[c2]
      BY <3>2
    <3>4. /\ UNCHANGED <<cache, owned, uncached, nextLayer>>
          /\ \A d \in Displays, l \in Nat \ {ll} : l \in vdiLayers[d] => l \in vdiLayers'[d]
      <4>1. UNCHANGED <<cache, owned, uncached, nextLayer>>
        BY <2>5 DEF VdiDestroys
      <4>2. vdiLayers' = [vdiLayers EXCEPT ![dd] = vdiLayers[dd] \ {ll}]
        BY <2>5 DEF VdiDestroys
      <4>3. vdiLayers \in [Displays -> SUBSET Nat]
        OBVIOUS
      <4> HIDE DEF Calls, dd, ll, LayerInv, LayerType, DriverType, TypeInv
      <4>4. QED
        BY <4>1, <4>2, <4>3, <3>1
    <3> HIDE DEF Calls, dd, ll
    <3>5. (OwnedAreCached /\ OwnersDiffer /\ CachedAreOwned)'
      BY <3>4
    <3>6. DestroyedAreOwned'
      BY <3>1, <3>3, <3>4
    <3>7. CreatedAreNew'
      <4> SUFFICES ASSUME NEW c1 \in Clients, (call[c1].op = "create" /\ call[c1].step = 2)'
                   PROVE  /\ (call[c1].l < nextLayer /\ call[c1].l \in vdiLayers[call[c1].d])'
                          /\ \A c2 \in Clients : \A o \in owned'[c2] : o[2] # call'[c1].l
                          /\ \A c2 \in Clients : call'[c2].op = "create" /\ call'[c2].step = 2
                                                 /\ call'[c2].l = call'[c1].l => c2 = c1
        OBVIOUS
      <4>1. c1 # c /\ call'[c1] = call[c1]
        BY <3>3
      <4>2. call[c1].l # ll
        BY <3>1, <4>1
      <4>3. call[c1].d \in Displays /\ call[c1].l \in Nat
        BY <4>1 DEF Calls
      <4>4. call[c1].l < nextLayer /\ call[c1].l \in vdiLayers[call[c1].d]
        BY <4>1
      <4>5. (call[c1].l < nextLayer /\ call[c1].l \in vdiLayers[call[c1].d])'
        BY <3>1, <3>4, <4>1, <4>2, <4>3, <4>4
      <4>6. \A c2 \in Clients : \A o \in owned'[c2] : o[2] # call'[c1].l
        BY <3>4, <4>1
      <4>7. ASSUME NEW c2 \in Clients, (call[c2].op = "create" /\ call[c2].step = 2)',
                   call'[c2].l = call'[c1].l
            PROVE  c2 = c1
        BY <3>3, <4>1, <4>7
      <4>8. QED
        BY <4>5, <4>6, <4>7
    <3>8. CachedAreKnown'
      <4> SUFFICES ASSUME NEW x \in DOMAIN cache', NEW l \in cache'[x] \ vdiLayers'[x]
                   PROVE  \E c2 \in Clients : (call[c2].op = "destroy" /\ call[c2].step = 2 /\ call[c2].l = l)'
        OBVIOUS
      <4>1. CASE l = ll
        BY <3>3, <4>1
      <4>2. CASE l # ll
        <5>1. x \in DOMAIN cache /\ x \in Displays /\ l \in cache[x] /\ l \in Nat
          BY <3>4
        <5>2. l \notin vdiLayers[x]
          BY <3>4, <4>2, <5>1
        <5>3. PICK c2 \in Clients : call[c2].op = "destroy" /\ call[c2].step = 2 /\ call[c2].l = l
          BY <5>1, <5>2
        <5>4. c2 # c
          BY <3>2, <5>3
        <5>5. QED
          BY <3>3, <5>3, <5>4
      <4>3. QED
        BY <4>1, <4>2
    <3>9. QED
      BY <3>5, <3>6, <3>7, <3>8
  <2>6. CASE DestroyLayerCache(c)
    <3> DEFINE dd == call[c].d  ll == call[c].l
    <3>1. dd \in Displays /\ ll \in Nat /\ <<dd, ll>> \in owned[c]
      BY <2>6 DEF DestroyLayerCache, At
    <3>2. call'[c].op = "none" /\ \A c2 \in Clients \ {c} : call'[c2] = call[c2]
      BY <2>6 DEF DestroyLayerCache, Return
    <3>3. /\ DOMAIN cache' = DOMAIN cache
          /\ \A x \in DOMAIN cache : cache'[x] = IF x = dd THEN cache[x] \ {ll} ELSE cache[x]
      BY <2>6 DEF DestroyLayerCache
    <3>4. /\ owned'[c] = owned[c] \ {<<dd, ll>>}
          /\ \A c2 \in Clients \ {c} : owned'[c2] = owned[c2]
      BY <2>6 DEF DestroyLayerCache
    <3>5. UNCHANGED <<vdiLayers, uncached, nextLayer>>
      BY <2>6 DEF DestroyLayerCache
    <3>6. \A c2 \in Clients : \A o \in owned'[c2] : o \in owned[c2] /\ o[2] # ll
      BY <3>1, <3>4
    <3> HIDE DEF Calls, dd, ll
    <3>7. OwnedAreCached'
      BY <3>3, <3>5, <3>6
    <3>8. OwnersDiffer'
      BY <3>6
    <3>9. CachedAreOwned'
      BY <3>1, <3>3, <3>4, <3>6
    <3>10. DestroyedAreOwned'
      BY <3>2, <3>4
    <3>11. CreatedAreNew'
      BY <3>2, <3>5, <3>6
    <3>12. CachedAreKnown'
      <4> SUFFICES ASSUME NEW x \in DOMAIN cache', NEW l \in cache'[x] \ vdiLayers'[x]
                   PROVE  \E c2 \in Clients : (call[c2].op = "destroy" /\ call[c2].step = 2 /\ call[c2].l = l)'
        OBVIOUS
      <4>1. l \in cache[x] \ vdiLayers[x] /\ x \in DOMAIN cache
        BY <3>3, <3>5
      <4>2. PICK c2 \in Clients : call[c2].op = "destroy" /\ call[c2].step = 2 /\ call[c2].l = l
        BY <4>1
      <4>3. PICK c3 \in Clients : <<x, l>> \in owned'[c3]
        BY <3>9
      <4>4. c2 # c
        BY <3>6, <4>2, <4>3 DEF ll
      <4>5. QED
        BY <3>2, <4>2, <4>4
    <3>13. QED
      BY <3>7, <3>8, <3>9, <3>10, <3>11, <3>12
  <2>7. CASE TellsVBlank(c)
    BY <2>7 DEF TellsVBlank
  <2>8. CASE KeepsVBlank(c)
    BY <2>8 DEF KeepsVBlank, Return
  <2>9. ASSUME NEW k \in Kinds, KeepEarly(c, k) PROVE LayerInv'
    BY <2>9 DEF KeepEarly, MayRegister, At
  <2>10. ASSUME NEW k \in Kinds, TellsEarly(c, k) PROVE LayerInv'
    BY <2>10 DEF TellsEarly, Registered, Return
  <2>11. ASSUME NEW k \in Kinds, RegisterLate(c, k) PROVE LayerInv'
    BY <2>11 DEF RegisterLate, MayRegister, Registered, At
  <2>12. ASSUME NEW k \in Kinds, KeepLate(c, k) PROVE LayerInv'
    BY <2>12 DEF KeepLate, At, Return
  <2>13. QED
    BY <1>5, <2>1, <2>2, <2>3, <2>4, <2>5, <2>6, <2>7, <2>8, <2>9, <2>10, <2>11, <2>12 DEF ClientStep
<1>6. ASSUME NEW d \in Displays, Plug(d) PROVE LayerInv'
  BY <1>6 DEF Plug
<1>7. CASE Report
  BY <1>7 DEF Report
<1>8. CASE OnHotPlugCache
  BY <1>8 DEF OnHotPlugCache
<1>9. CASE EventEnds
  BY <1>9 DEF EventEnds
<1>10. QED
  BY Steps, <1>1, <1>2, <1>3, <1>4, <1>5, <1>6, <1>7, <1>8, <1>9

\* Callbacks kept and callbacks told.
LEMMA CallbackNext ==
  ASSUME TypeInv, BoundInv, PointerInv, CallbackInv, [Next]_vars
  PROVE  CallbackInv'
<1> USE ComposerAssumption DEF TypeInv, DriverType, EventType, Events, NoEvent, BoundInv, Inside, CallbackInv, Early, Late, Calls, CreateCalls, DestroyCalls, RegisterCalls, VBlankCalls, NoCall, driver, layers, events, vblank
<1>1. CASE Frozen
  BY <1>1 DEF Frozen
<1>2. CASE BindFails
  BY <1>2 DEF BindFails, MayBind
<1>3. CASE Bind
  BY <1>3 DEF Bind, MayBind, DisplayComposerService, LoadVdiSoFails, LoadVdiAdapterFails, CreateResponserFails, Loaded
<1>4. CASE Release
  BY <1>4 DEF Release
<1>5. ASSUME NEW c \in Clients, ClientStep(c) PROVE CallbackInv'
  <2>1. CASE Ends(c)
    BY <2>1 DEF Ends, Refused, Return
  <2>2. CASE Dispatch(c)
    BY <2>2 DEF Dispatch, Requests, Inside
  <2>3. CASE VdiCreates(c)
    BY <2>3 DEF VdiCreates
  <2>4. CASE CacheKeeps(c)
    BY <2>4 DEF CacheKeeps, Return
  <2>5. CASE VdiDestroys(c)
    BY <2>5 DEF VdiDestroys
  <2>6. CASE DestroyLayerCache(c)
    BY <2>6 DEF DestroyLayerCache, At, Return
  <2>7. CASE TellsVBlank(c)
    BY <2>7 DEF TellsVBlank
  <2>8. CASE KeepsVBlank(c)
    BY <2>8 DEF KeepsVBlank, Return
  <2>9. ASSUME NEW k \in Kinds, KeepEarly(c, k) PROVE CallbackInv'
    <3>1. /\ call[c].op = "register" /\ call[c].step = 1 /\ call[c].k = k /\ k \in Early
          /\ adapter = "set" /\ (k = "hotplug" \/ Registers[k] \in offered)
      BY <2>9 DEF KeepEarly, MayRegister, At
    <3>2. Registers[k] \in offered
      BY <3>1 DEF PointerInv, Registers, Required
    <3>3. /\ call'[c].op = "register" /\ call'[c].step = 2 /\ call'[c].k = k
          /\ \A c2 \in Clients \ {c} : call'[c2] = call[c2]
      BY <2>9, <3>1 DEF KeepEarly
    <3>4. cb'[k] = c /\ \A k2 \in Kinds \ {k} : cb'[k2] = cb[k2]
      BY <2>9 DEF KeepEarly
    <3>5. UNCHANGED <<gen, adapter, offered, vdiCb, reports, event>>
      BY <2>9 DEF KeepEarly
    <3>6. c # "null"
      OBVIOUS
    <3> HIDE DEF Calls, Events
    <3>7. \A c2 \in Clients : (call[c2].op = "register" /\ call[c2].step = 2 /\ call[c2].k \in Early =>
            cb[call[c2].k] # "null" /\ adapter = "set" /\ Registers[call[c2].k] \in offered)'
      <4> SUFFICES ASSUME NEW c2 \in Clients,
                          (call[c2].op = "register" /\ call[c2].step = 2 /\ call[c2].k \in Early)'
                   PROVE  (cb[call[c2].k] # "null" /\ adapter = "set" /\ Registers[call[c2].k] \in offered)'
        OBVIOUS
      <4>1. CASE c2 = c
        BY <3>1, <3>2, <3>3, <3>4, <3>5, <3>6, <4>1
      <4>2. CASE c2 # c
        <5>1. call'[c2] = call[c2] /\ call[c2].k \in Kinds
          BY <3>3, <4>2 DEF Calls
        <5>2. QED
          BY <3>1, <3>4, <3>5, <3>6, <5>1
      <4>3. QED
        BY <4>1, <4>2
    <3>8. \A k2 \in Kinds : vdiCb[k2] # 0 /\ vdiCb[k2] = gen /\ cb'[k2] = "null" =>
            /\ k2 \in Late
            /\ \E c2 \in Clients : (call[c2].op = "register" /\ call[c2].k = k2 /\ call[c2].step = 2)'
      <4> SUFFICES ASSUME NEW k2 \in Kinds, vdiCb[k2] # 0, vdiCb[k2] = gen, cb'[k2] = "null"
                   PROVE  /\ k2 \in Late
                          /\ \E c2 \in Clients :
                                (call[c2].op = "register" /\ call[c2].k = k2 /\ call[c2].step = 2)'
        OBVIOUS
      <4>1. k2 # k /\ cb[k2] = "null"
        BY <3>4, <3>6
      <4>2. PICK c2 \in Clients : call[c2].op = "register" /\ call[c2].k = k2 /\ call[c2].step = 2
        BY <4>1
      <4>3. c2 # c
        BY <3>1, <4>2
      <4>4. QED
        BY <3>3, <4>1, <4>2, <4>3
    <3>9. QED
      BY <3>5, <3>7, <3>8
  <2>10. ASSUME NEW k \in Kinds, TellsEarly(c, k) PROVE CallbackInv'
    BY <2>10 DEF TellsEarly, Registered, Return
  <2>11. ASSUME NEW k \in Kinds, RegisterLate(c, k) PROVE CallbackInv'
    BY <2>11 DEF RegisterLate, MayRegister, Registered, At
  <2>12. ASSUME NEW k \in Kinds, KeepLate(c, k) PROVE CallbackInv'
    BY <2>12 DEF KeepLate, At, Return
  <2>13. QED
    BY <1>5, <2>1, <2>2, <2>3, <2>4, <2>5, <2>6, <2>7, <2>8, <2>9, <2>10, <2>11, <2>12 DEF ClientStep
<1>6. ASSUME NEW d \in Displays, Plug(d) PROVE CallbackInv'
  BY <1>6 DEF Plug
<1>7. CASE Report
  BY <1>7 DEF Report
<1>8. CASE OnHotPlugCache
  BY <1>8 DEF OnHotPlugCache
<1>9. CASE EventEnds
  <2>1. event'.kind \notin Kinds /\ UNCHANGED <<gen, adapter, offered, call, cb, vdiCb, reports>>
    BY <1>9 DEF EventEnds
  <2> HIDE DEF Calls, Events
  <2>2. QED
    BY <2>1
<1>10. QED
  BY Steps, <1>1, <1>2, <1>3, <1>4, <1>5, <1>6, <1>7, <1>8, <1>9

\* The function table and the vblank callback.
LEMMA PointerNext ==
  ASSUME TypeInv, BoundInv, PointerInv, [Next]_vars
  PROVE  PointerInv'
<1> USE ComposerAssumption DEF TypeInv, DriverType, EventType, Events, NoEvent, BoundInv, Inside, PointerInv, VBlankOf, Calls, CreateCalls, DestroyCalls, RegisterCalls, VBlankCalls, NoCall, driver, layers, events, vblank
<1>1. CASE Frozen
  BY <1>1 DEF Frozen
<1>2. CASE BindFails
  BY <1>2 DEF BindFails, MayBind
<1>3. CASE Bind
  BY <1>3 DEF Bind, MayBind, DisplayComposerService, LoadVdiSoFails, LoadVdiAdapterFails, CreateResponserFails, Loaded
<1>4. CASE Release
  BY <1>4 DEF Release
<1>5. ASSUME NEW c \in Clients, ClientStep(c) PROVE PointerInv'
  <2>1. CASE Ends(c)
    BY <2>1 DEF Ends, Refused, Return
  <2>2. CASE Dispatch(c)
    BY <2>2 DEF Dispatch, Requests, Inside
  <2>3. CASE VdiCreates(c)
    BY <2>3 DEF VdiCreates
  <2>4. CASE CacheKeeps(c)
    BY <2>4 DEF CacheKeeps, Return
  <2>5. CASE VdiDestroys(c)
    BY <2>5 DEF VdiDestroys
  <2>6. CASE DestroyLayerCache(c)
    BY <2>6 DEF DestroyLayerCache, At, Return
  <2>7. CASE TellsVBlank(c)
    <3>1. /\ call[c].op = "vblank" /\ call[c].step = 1 /\ call[c].d \in Displays /\ call[c].p \in Nat
          /\ 0 < call[c].p /\ call[c].p < nextVBlank
      BY <2>7 DEF TellsVBlank
    <3>2. /\ call'[c].op = "vblank" /\ call'[c].step = 2 /\ call'[c].p = call[c].p
          /\ \A c2 \in Clients \ {c} : call'[c2] = call[c2]
      BY <2>7, <3>1 DEF TellsVBlank
    <3>3. \A d \in Displays : vdiVBlank'[d] = IF d = call[c].d THEN call[c].p ELSE vdiVBlank[d]
      BY <2>7 DEF TellsVBlank
    <3>4. UNCHANGED <<gen, adapter, offered, nextVBlank, event, vBlankCb>>
      BY <2>7 DEF TellsVBlank
    <3> HIDE DEF Calls, Events
    <3>5. \A d \in Displays : vdiVBlank'[d] < nextVBlank
      BY <3>1, <3>3
    <3>6. \A c2 \in Clients : VBlankOf(c2)' => VBlankOf(c2) /\ call'[c2].p = call[c2].p
      BY <3>1, <3>2
    <3>7. ASSUME nextVBlank <= 2
          PROVE  \E c2 \in Clients : (VBlankOf(c2) /\ call[c2].step = 2 /\ call[c2].p = 1)'
      BY <3>1, <3>2, <3>7
    <3>8. QED
      BY <3>4, <3>5, <3>6, <3>7
  <2>8. CASE KeepsVBlank(c)
    BY <2>8 DEF KeepsVBlank, Return
  <2>9. ASSUME NEW k \in Kinds, KeepEarly(c, k) PROVE PointerInv'
    BY <2>9 DEF KeepEarly, MayRegister, At
  <2>10. ASSUME NEW k \in Kinds, TellsEarly(c, k) PROVE PointerInv'
    BY <2>10 DEF TellsEarly, Registered, Return
  <2>11. ASSUME NEW k \in Kinds, RegisterLate(c, k) PROVE PointerInv'
    BY <2>11 DEF RegisterLate, MayRegister, Registered, At
  <2>12. ASSUME NEW k \in Kinds, KeepLate(c, k) PROVE PointerInv'
    BY <2>12 DEF KeepLate, At, Return
  <2>13. QED
    BY <1>5, <2>1, <2>2, <2>3, <2>4, <2>5, <2>6, <2>7, <2>8, <2>9, <2>10, <2>11, <2>12 DEF ClientStep
<1>6. ASSUME NEW d \in Displays, Plug(d) PROVE PointerInv'
  BY <1>6 DEF Plug
<1>7. CASE Report
  BY <1>7 DEF Report
<1>8. CASE OnHotPlugCache
  BY <1>8 DEF OnHotPlugCache
<1>9. CASE EventEnds
  BY <1>9 DEF EventEnds
<1>10. QED
  BY Steps, <1>1, <1>2, <1>3, <1>4, <1>5, <1>6, <1>7, <1>8, <1>9

(* The theorems. *)

\* The first state satisfies the invariant.
LEMMA ComposerInit == Init => ComposerInv
<1> SUFFICES ASSUME Init PROVE ComposerInv
  OBVIOUS
<1> USE ComposerAssumption DEF Init
<1>1. DriverType
  <2>1. stop \in BOOLEAN
    BY Zenon
  <2>2. QED
    BY <2>1 DEF DriverType, Calls, NoCall
<1>2. LayerType /\ EventType
  BY DEF LayerType, EventType, Events
<1>3. BoundInv
  BY DEF BoundInv, Inside, NoCall
<1>4. LayerInv
  BY DEF LayerInv, OwnedAreCached, OwnersDiffer, CachedAreOwned, DestroyedAreOwned,
         CreatedAreNew, CachedAreKnown, NoCall
<1>5. CallbackInv
  BY DEF CallbackInv, NoCall, NoEvent
<1>6. PointerInv
  BY DEF PointerInv, VBlankOf, NoCall, NoEvent
<1>7. QED
  BY <1>1, <1>2, <1>3, <1>4, <1>5, <1>6 DEF ComposerInv, TypeInv

\* The invariant of the composer: it holds of every reachable state.
THEOREM ComposerInvariant == Spec => []ComposerInv
<1>1. ComposerInv /\ [Next]_vars => ComposerInv'
  BY DriverTypeNext, LayerTypeNext, EventTypeNext, BoundNext, LayerNext, CallbackNext,
     PointerNext DEF ComposerInv, TypeInv
<1>2. QED
  BY ComposerInit, <1>1, PTL DEF Spec

\* A request is dispatched in the service that is bound, and neither Release
\* nor a new Bind takes the service from under it.
THEOREM RequestsAreBound == Spec => []RequestsRunInBoundService
<1>1. ComposerInv => RequestsRunInBoundService
  BY DEF ComposerInv, BoundInv, RequestsRunInBoundService
<1>2. QED
  BY ComposerInvariant, <1>1, PTL

\* CreateLayer, DestroyLayer and OnHotPlug keep the device caches and the
\* layers of the VDI together, whatever comes between their halves.
THEOREM CachesFollow == Spec => []LayersAreCached
<1>1. ComposerInv => LayersAreCached
  BY DEF ComposerInv, LayerInv, OwnedAreCached, CachedAreKnown, LayersAreCached
<1>2. QED
  BY ComposerInvariant, <1>1, PTL

\* No hot-plug or idle event finds the service without the client's callback.
THEOREM NoEventLost == Spec => []EventsReachClient
<1>1. ComposerInv => EventsReachClient
  BY DEF ComposerInv, CallbackInv, EventsReachClient
<1>2. QED
  BY ComposerInvariant, <1>1, PTL

\* The VDI knows a service that is not the bound one: there were two.
LEMMA StaleNeedsRebind ==
  ASSUME ComposerInv, event.kind \in Kinds, vdiCb[event.kind] # gen
  PROVE  gen > 1
<1>1. vdiCb[event.kind] # 0 /\ vdiCb[event.kind] <= gen
  BY DEF ComposerInv, CallbackInv
<1>2. vdiCb[event.kind] \in Nat /\ gen \in Nat
  BY DEF ComposerInv, TypeInv, DriverType, EventType
<1>3. \A m, n \in Nat : m # 0 /\ m <= n /\ m # n => n > 1
  OBVIOUS
<1>4. QED
  BY <1>1, <1>2, <1>3, Zenon

\* The VDI calls a vblank callback that is gone: another one was registered,
\* or another service bound.
LEMMA FreedNeedsAnother ==
  ASSUME ComposerInv, event.kind = "vblank", ~ Alive(event.p)
  PROVE  gen > 1 \/ nextVBlank > 2
<1>1. event \in Events /\ "vblank" \notin Kinds
  BY ComposerAssumption DEF ComposerInv, TypeInv, EventType
<1>2. event.p \in Nat
  BY <1>1 DEF Events, NoEvent
<1>3. gen \in Nat /\ nextVBlank \in Nat
  BY DEF ComposerInv, TypeInv, DriverType, EventType
<1>4. 0 < event.p /\ event.p < nextVBlank
  BY DEF ComposerInv, PointerInv
<1>5. ASSUME ~ (gen > 1 \/ nextVBlank > 2) PROVE FALSE
  <2>1. event.p = 1 /\ gen <= 1 /\ nextVBlank <= 2
    BY <1>2, <1>3, <1>4, <1>5
  <2>2. QED
    BY <2>1 DEF ComposerInv, PointerInv, VBlankOf, Alive
<1>6. QED
  BY <1>5

\* Each way the process can end at a bad pointer has the cause that
\* CrashesAreExplained names; in particular no request calls a function that
\* the vendor library lacks.
THEOREM OnlyTheseCrashes == Spec => []CrashesAreExplained
<1>1. Init => CrashesAreExplained
  BY DEF Init, CrashesAreExplained
<1>2. ASSUME ComposerInv, CrashesAreExplained, [Next]_vars
      PROVE  CrashesAreExplained'
  <2> USE <1>2 DEF CrashesAreExplained, driver, layers, events, vblank
  <2>1. CASE BindFreed
    BY <2>1 DEF BindFreed
  <2>2. ASSUME NEW f, Unset(f), f \in Required \/ f \in offered, Crashes("unset")
        PROVE  CrashesAreExplained'
    BY <2>2 DEF Unset, Crashes, ComposerInv, PointerInv
  <2>3. CASE OnStale
    BY <2>3, StaleNeedsRebind DEF OnStale, Crashes
  <2>4. ASSUME event.kind = "vblank", ~ Alive(event.p), Crashes("freed callback")
        PROVE  CrashesAreExplained'
    BY <2>4, FreedNeedsAnother DEF Crashes
  <2>5. ASSUME NEW c \in Clients, Query(c) PROVE CrashesAreExplained'
    <3>1. UncheckedCalls \subseteq Required
      BY DEF UncheckedCalls, DisplayCalls, CropCalls, BufferCalls, Required
    <3>2. QED
      BY <2>2, <2>5, <3>1 DEF Query, Crashes, Refused
  <2>6. CASE \E c \in Clients : Dispatch(c) \/ Clear(c)
    BY <2>6 DEF Dispatch, Clear, Refused
  <2>7. ASSUME NEW c \in Clients,
               CreateLayerVdi(c) \/ CreateLayerCache(c) \/ DestroyLayerVdi(c) \/ DestroyLayerCache(c)
        PROVE  CrashesAreExplained'
    <3>1. "CreateLayer" \in Required /\ "DestroyLayer" \in Required
      BY DEF Required
    <3>2. QED
      BY <2>2, <2>7, <3>1 DEF CreateLayerVdi, CreateLayerCache, DestroyLayerVdi, DestroyLayerCache, Refused
  <2>8. ASSUME NEW c \in Clients, NEW k \in Kinds,
               KeepEarly(c, k) \/ RegisterLate(c, k) \/ KeepLate(c, k) \/ RegisterRefused(c, k)
        PROVE  CrashesAreExplained'
    BY <2>8 DEF KeepEarly, RegisterLate, KeepLate, RegisterRefused, Refused, Crashes
  <2>9. ASSUME NEW c \in Clients, NEW k \in Kinds, RegisterEarly(c, k)
        PROVE  CrashesAreExplained'
    <3>1. Registers[k] \in offered
      BY <2>9 DEF RegisterEarly, At, ComposerInv, CallbackInv
    <3>2. QED
      BY <2>2, <2>9, <3>1 DEF RegisterEarly, Refused
  <2>10. ASSUME NEW c \in Clients, RegDisplayVBlankCallback(c) PROVE CrashesAreExplained'
    <3>1. "RegDisplayVBlankCallback" \in Required
      BY DEF Required
    <3>2. CASE nextVBlank' = nextVBlank /\ crash' = crash /\ UNCHANGED driver
      BY <3>2
    <3>3. QED
      BY <2>2, <2>10, <3>1, <3>2 DEF RegDisplayVBlankCallback, Refused
  <2>11. CASE \E d \in Displays : Plug(d)
    BY <2>11 DEF Plug
  <2>12. CASE Report \/ OnHotPlugCache \/ OnEvent
    BY <2>12 DEF Report, OnHotPlugCache, OnEvent
  <2>13. CASE OnVBlank
    BY <2>4, <2>13 DEF OnVBlank
  <2>14. CASE BindFails \/ Bind \/ Release
    BY <2>14 DEF BindFails, Bind, Release, MayBind
  <2>15. CASE Crashed \/ UNCHANGED vars
    BY <2>15 DEF Crashed, vars
  <2>16. QED
    BY <2>1, <2>3, <2>5, <2>6, <2>7, <2>8, <2>9, <2>10, <2>11, <2>12, <2>13, <2>14, <2>15 DEF Next
<1>3. QED
  BY ComposerInvariant, <1>1, <1>2, PTL DEF Spec

================================================================================
