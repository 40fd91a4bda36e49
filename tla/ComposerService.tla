---------------------------- MODULE ComposerService ----------------------------
(***************************************************************************)
(* The display composer driver and the service behind it                    *)
(* (display_composer_driver.cpp, display_composer_service.cpp): the driver   *)
(* binds and releases the service while binder threads dispatch requests to  *)
(* it, and the vendor library (VDI) reports events from a thread of its own. *)
(*                                                                          *)
(* The vendor library, the device caches and the binder stub are outside the *)
(* repository.  They appear as the code uses them: a VDI call succeeds,      *)
(* fails or is not supported; layer ids are not reused; one event is         *)
(* reported at a time; a device cache is the set of the layers it holds.     *)
(***************************************************************************)
EXTENDS Naturals, FiniteSets

CONSTANTS
    Clients,      \* the binder threads that dispatch requests
    Displays,     \* the display ids, physical and virtual
    Libraries,    \* the sets of functions a vendor library may offer
    Kinds,        \* the events whose callbacks the clients register
    MaxBinds,     \* bound: calls of Bind
    MaxLayers,    \* bound: layers the VDI creates
    MaxVBlankCbs  \* bound: vblank callback objects registered

ASSUME ComposerAssumption ==
    /\ MaxBinds \in Nat /\ MaxLayers \in Nat /\ MaxVBlankCbs \in Nat
    /\ Kinds \subseteq {"hotplug", "idle", "mode", "seamless", "refresh"}
    /\ "null" \notin Clients

VARIABLES
    stop,      \* g_stop
    host,      \* the static HdfDisplayComposerHost: "none", "live", "freed"
    gen,       \* the services made so far; the last one is the one bound
    binds,     \* calls of Bind
    adapter,   \* vdiAdapter_: "null", "unset" (allocated, never filled), "set"
    offered,   \* the functions dlsym found
    call,      \* per client, the request it is dispatching
    connected, \* the displays plugged in
    cache,     \* the layers of each device cache, for the displays that have one
    vdiLayers, \* per display, the layers the VDI has
    nextLayer, \* the layer id the VDI gives next
    owned,     \* per client, the layers it was given and has not given back
    uncached,  \* the layers whose device cache went with an unplugged display
    cb,        \* per kind, the client whose callback the service keeps
    vdiCb,     \* per kind, the service the VDI calls back, 0 if none
    reports,   \* the displays whose state the VDI has yet to report
    event,     \* the event the VDI is reporting
    vdiVBlank, \* per display, the vblank callback the VDI calls, 0 if none
    vBlankCb,  \* vBlankCb_, the vblank callback the service keeps alive
    nextVBlank,
    crash      \* how the process ended

driver == <<stop, host, gen, binds, adapter, offered>>
layers == <<cache, vdiLayers, nextLayer, owned, uncached>>
events == <<connected, cb, vdiCb, reports, event>>
vblank == <<vdiVBlank, vBlankCb, nextVBlank>>
vars   == <<driver, call, layers, events, vblank, crash>>

NoCall  == [op |-> "none"]
NoEvent == [kind |-> "none"]

Inside(c) == call[c].op # "none"

--------------------------------------------------------------------------------
(* The function table *)

\* Mutant of Required: only what the first requests of a client use is checked.
RequiredAtStart ==
    {"RegHotPlugCallback", "GetDisplayCapability", "RegDisplayVBlankCallback"}

\* The functions without which LoadVdiAdapter refuses the library.
Required ==
    {"RegHotPlugCallback", "GetDisplayCapability", "GetDisplaySupportedModes",
     "GetDisplayMode", "SetDisplayMode", "GetDisplayPowerStatus",
     "SetDisplayPowerStatus", "GetDisplayBacklight", "SetDisplayBacklight",
     "GetDisplayProperty", "GetDisplayCompChange", "SetDisplayClientCrop",
     "SetDisplayClientBuffer", "SetDisplayClientDamage", "SetDisplayVsyncEnabled",
     "RegDisplayVBlankCallback", "GetDisplayReleaseFence", "CreateVirtualDisplay",
     "DestroyVirtualDisplay", "SetVirtualDisplayBuffer", "SetDisplayProperty",
     "Commit", "CreateLayer", "DestroyLayer", "PrepareDisplayLayers",
     "SetLayerAlpha", "SetLayerRegion", "SetLayerCrop", "SetLayerZorder",
     "SetLayerPreMulti", "SetLayerTransformMode", "SetLayerDirtyRegion",
     "SetLayerVisibleRegion", "SetLayerBuffer", "SetLayerCompositionType",
     "SetLayerBlendType", "SetLayerMaskInfo", "SetLayerColor"}

\* The functions the service looks up and does without.
Optional ==
    {"RegSeamlessChangeCallback", "GetDisplaySupportedModesExt",
     "SetDisplayModeAsync", "GetDisplayVBlankPeriod", "SetLayerPerFrameParameter",
     "GetSupportedLayerPerFrameParameterKey", "SetDisplayOverlayResolution",
     "RegRefreshCallback", "GetDisplaySupportedColorGamuts",
     "GetHDRCapabilityInfos", "RegDisplayVBlankIdleCallback",
     "SetDisplayConstraint", "SetHardwareCursorPosition",
     "EnableHardwareCursorStats", "GetHardwareCursorStats",
     "SetDisplayActiveRegion"}

\* The requests the service passes on without looking at the pointer.
DisplayCalls ==
    {"GetDisplayCapability", "GetDisplaySupportedModes", "GetDisplayMode",
     "SetDisplayMode", "GetDisplayPowerStatus", "SetDisplayPowerStatus",
     "GetDisplayBacklight", "SetDisplayBacklight", "GetDisplayProperty"}
CropCalls == {"SetDisplayClientCrop", "SetDisplayVsyncEnabled"}
BufferCalls ==
    {"GetDisplayReleaseFence", "CreateVirtualDisplay", "DestroyVirtualDisplay",
     "SetVirtualDisplayBuffer", "SetDisplayProperty"}
UncheckedCalls == DisplayCalls \cup CropCalls \cup BufferCalls

\* The requests that answer HDF_ERR_NOT_SUPPORT when the pointer is null.
CursorCalls ==
    {"SetHardwareCursorPosition", "EnableHardwareCursorStats",
     "GetHardwareCursorStats"}
ModeCalls == {"GetDisplaySupportedModesExt"}
PeriodCalls == {"GetDisplayVBlankPeriod"}
ParameterCalls ==
    {"SetLayerPerFrameParameter", "GetSupportedLayerPerFrameParameterKey",
     "SetDisplayOverlayResolution"}
GamutCalls == {"GetDisplaySupportedColorGamuts", "GetHDRCapabilityInfos"}
RegionCalls == {"SetDisplayActiveRegion"}
CheckedCalls ==
    UNION {CursorCalls, ModeCalls, PeriodCalls, ParameterCalls, GamutCalls, RegionCalls}

\* The function that registers a callback of each kind.
Registers ==
    [hotplug |-> "RegHotPlugCallback", idle |-> "RegDisplayVBlankIdleCallback",
     mode |-> "SetDisplayModeAsync", seamless |-> "RegSeamlessChangeCallback",
     refresh |-> "RegRefreshCallback"]

\* Mutant of Early: the hot-plug callback is kept after it was registered.
EarlyButHotPlug == {"idle"}

\* The callbacks the service keeps before the VDI knows it is to call back.
Early == {"hotplug", "idle"}

\* The callbacks it keeps once the VDI has agreed.
Late == {"mode", "seamless", "refresh"}

--------------------------------------------------------------------------------
Init ==
    /\ stop = TRUE /\ host = "none" /\ gen = 0 /\ binds = 0
    /\ adapter = "null" /\ offered = {}
    /\ call = [c \in Clients |-> NoCall]
    /\ connected \in SUBSET Displays
    /\ cache = [d \in {} |-> {}]
    /\ vdiLayers = [d \in Displays |-> {}]
    /\ nextLayer = 1
    /\ owned = [c \in Clients |-> {}]
    /\ uncached = {}
    /\ cb = [k \in Kinds |-> "null"]
    /\ vdiCb = [k \in Kinds |-> 0]
    /\ reports = {} /\ event = NoEvent
    /\ vdiVBlank = [d \in Displays |-> 0] /\ vBlankCb = 0 /\ nextVBlank = 1
    /\ crash = "none"

(* The constructor *)

\* dlopen of the library failed: the adapter stays, allocated and not filled.
LoadVdiSoFails == adapter' = "unset" /\ offered' = {}

\* A required function is missing: ExitService drops the adapter.
LoadVdiAdapterFails(lib) ==
    ~ (Required \subseteq lib) /\ adapter' = "null" /\ offered' = {}

\* The responser could not be made: ExitService drops the adapter.
CreateResponserFails(lib) ==
    Required \subseteq lib /\ adapter' = "null" /\ offered' = {}

Loaded(lib) == Required \subseteq lib /\ adapter' = "set" /\ offered' = lib

DisplayComposerService ==
    \/ LoadVdiSoFails
    \/ \E lib \in Libraries : \/ LoadVdiAdapterFails(lib)
                              \/ CreateResponserFails(lib)
                              \/ Loaded(lib)

(* The driver *)

\* HDF binds a device it has not bound, or has released.
MayBind == crash = "none" /\ stop /\ binds < MaxBinds

\* The static host of an earlier Bind that failed is used although deleted.
BindFreed ==
    /\ MayBind /\ host = "freed"
    /\ crash' = "freed host"
    /\ UNCHANGED <<driver, call, layers, events, vblank>>

\* The implementation or its stub is not to be had: the static host is deleted.
BindFails ==
    /\ MayBind /\ host # "freed"
    /\ host' = "freed" /\ binds' = binds + 1
    /\ UNCHANGED <<stop, gen, adapter, offered, call, layers, events, vblank, crash>>

\* The new service takes the place of the old one, which is destroyed; g_stop
\* is cleared last.  What the old one registered with the VDI stays there.
Bind ==
    /\ MayBind /\ host # "freed"
    /\ host' = "live" /\ binds' = binds + 1 /\ gen' = gen + 1
    /\ DisplayComposerService
    /\ cb' = [k \in Kinds |-> "null"] /\ vBlankCb' = 0
    /\ stop' = FALSE
    /\ UNCHANGED <<call, layers, connected, vdiCb, reports, event, vdiVBlank,
                   nextVBlank, crash>>

\* Mutant of Release: g_stop is set without the lock.
ReleaseUnlocked ==
    /\ crash = "none" /\ ~ stop
    /\ stop' = TRUE
    /\ UNCHANGED <<host, gen, binds, adapter, offered, call, layers, events,
                   vblank, crash>>

\* The write lock is given when no dispatch holds the read lock.
Release ==
    /\ crash = "none" /\ ~ stop
    /\ \A c \in Clients : ~ Inside(c)
    /\ stop' = TRUE
    /\ UNCHANGED <<host, gen, binds, adapter, offered, call, layers, events,
                   vblank, crash>>

\* What a client may ask for: a call that the service only passes on, a look at
\* a device cache, a layer made or given back, a callback registered.
Requests(c) ==
    [op : {"query"}, gen : {gen}]
        \cup [op : {"create"}, gen : {gen}, step : {1}, d : Displays, l : {0}]
        \cup {[op |-> "destroy", gen |-> gen, step |-> 1, d |-> o[1], l |-> o[2]]
                 : o \in owned[c]}
        \cup [op : {"register"}, gen : {gen}, step : {1}, k : Kinds]
        \cup {r \in [op : {"vblank"}, gen : {gen}, step : {1}, d : Displays,
                     p : {nextVBlank}] : r.p <= MaxVBlankCbs}

\* DisplayComposerDriverDispatch up to SendRequest, the read lock held.  While
\* g_stop is set the request is refused and nothing changes.
Dispatch(c) ==
    /\ crash = "none" /\ ~ Inside(c) /\ ~ stop
    /\ \E r \in Requests(c) : call' = [call EXCEPT ![c] = r]
    /\ nextVBlank' = IF call'[c].op = "vblank" THEN nextVBlank + 1 ELSE nextVBlank
    /\ UNCHANGED <<driver, layers, events, vdiVBlank, vBlankCb, crash>>

\* The answer goes back and the read lock is released.
Return(c) == call' = [call EXCEPT ![c] = NoCall]

--------------------------------------------------------------------------------
(* Requests: the first test of each is that vdiAdapter_ is not null *)

At(c, op, n) == crash = "none" /\ call[c].op = op /\ call[c].step = n

\* A call through a pointer that was never set ends the process.
Unset(f) == adapter = "unset" \/ (adapter = "set" /\ f \notin offered)

Reached(f) == adapter = "set" /\ f \in offered

Crashes(how) ==
    /\ crash' = how
    /\ UNCHANGED <<driver, call, layers, events, vblank>>

\* The adapter is gone, the VDI answers with an error, or it does not support
\* the request: the request ends with nothing changed.
Refused(c) ==
    /\ Return(c)
    /\ UNCHANGED <<driver, layers, events, vblank, crash>>

\* A request passed on: display and buffer calls use the pointer as it is, the
\* others answer HDF_ERR_NOT_SUPPORT when it is null.
Query(c) ==
    /\ crash = "none" /\ call[c].op = "query"
    /\ \/ \E f \in UncheckedCalls : Unset(f) /\ Crashes("unset")
       \/ \E f \in CheckedCalls : adapter = "unset" /\ Crashes("unset")
       \/ adapter # "unset" /\ Refused(c)

\* ClearClientBuffer, ClearLayerBuffer, SetClientBufferCacheCount, and the
\* command queue of the responser need no function of the VDI: they end as a
\* refused request does, the buffers of a cache being left out.
Clear(c) == crash = "none" /\ call[c].op = "query" /\ Refused(c)

\* CreateLayer, the VDI's part.
CreateLayerVdi(c) ==
    /\ At(c, "create", 1)
    /\ \/ Unset("CreateLayer") /\ Crashes("unset")
       \/ adapter # "unset" /\ Refused(c)
       \/ /\ Reached("CreateLayer") /\ nextLayer <= MaxLayers
          /\ vdiLayers' = [vdiLayers EXCEPT ![call[c].d] = @ \cup {nextLayer}]
          /\ nextLayer' = nextLayer + 1
          /\ call' = [call EXCEPT ![c].step = 2, ![c].l = nextLayer]
          /\ UNCHANGED <<driver, cache, owned, uncached, events, vblank, crash>>

\* CreateLayer under the cache mutex.  A display without a device cache (one
\* that was unplugged meanwhile, or a virtual one) makes the request fail
\* although the VDI has the layer.
CreateLayerCache(c) ==
    LET d == call[c].d
        l == call[c].l
    IN  /\ At(c, "create", 2)
        /\ \/ Refused(c)
           \/ /\ d \in DOMAIN cache
              /\ cache' = [cache EXCEPT ![d] = @ \cup {l}]
              /\ owned' = [owned EXCEPT ![c] = @ \cup {<<d, l>>}]
              /\ Return(c)
              /\ UNCHANGED <<driver, vdiLayers, nextLayer, uncached, events,
                             vblank, crash>>

\* DestroyLayer, the VDI's part.
DestroyLayerVdi(c) ==
    /\ At(c, "destroy", 1)
    /\ \/ Unset("DestroyLayer") /\ Crashes("unset")
       \/ adapter # "unset" /\ Refused(c)
       \/ /\ Reached("DestroyLayer")
          /\ vdiLayers' = [vdiLayers EXCEPT ![call[c].d] = @ \ {call[c].l}]
          /\ call' = [call EXCEPT ![c].step = 2]
          /\ UNCHANGED <<driver, cache, nextLayer, owned, uncached, events,
                         vblank, crash>>

\* Mutant of DestroyLayerCache: the layer's cache stays behind.
DestroyLayerKeepsCache(c) ==
    /\ At(c, "destroy", 2)
    /\ owned' = [owned EXCEPT ![c] = @ \ {<<call[c].d, call[c].l>>}]
    /\ Return(c)
    /\ UNCHANGED <<driver, cache, vdiLayers, nextLayer, uncached, events, vblank,
                   crash>>

\* DestroyLayer under the cache mutex.  Whatever the answer, the layer is gone.
DestroyLayerCache(c) ==
    LET d == call[c].d
        l == call[c].l
    IN  /\ At(c, "destroy", 2)
        /\ cache' = [x \in DOMAIN cache |-> IF x = d THEN cache[x] \ {l} ELSE cache[x]]
        /\ owned' = [owned EXCEPT ![c] = @ \ {<<d, l>>}]
        /\ Return(c)
        /\ UNCHANGED <<driver, vdiLayers, nextLayer, uncached, events, vblank,
                       crash>>

--------------------------------------------------------------------------------
(* Callbacks *)

\* The pointer is looked at before it is used, but that of RegHotPlugCallback.
MayRegister(c, k) ==
    /\ At(c, "register", 1) /\ call[c].k = k
    /\ adapter = "set"
    /\ k = "hotplug" \/ Registers[k] \in offered

\* The VDI keeps the service as the callback's data.  A hot-plug callback is
\* told of the displays that are there already.
Registered(c, k) ==
    /\ Reached(Registers[k])
    /\ vdiCb' = [vdiCb EXCEPT ![k] = call[c].gen]
    /\ reports' = IF k = "hotplug" THEN reports \cup connected ELSE reports

\* The early kinds keep the client's callback first.
KeepEarly(c, k) ==
    /\ MayRegister(c, k) /\ k \in Early
    /\ cb' = [cb EXCEPT ![k] = c]
    /\ call' = [call EXCEPT ![c].step = 2]
    /\ UNCHANGED <<driver, layers, connected, vdiCb, reports, event, vblank, crash>>

RegisterEarly(c, k) ==
    /\ At(c, "register", 2) /\ call[c].k = k /\ k \in Early
    /\ \/ Unset(Registers[k]) /\ Crashes("unset")
       \/ adapter # "unset" /\ Refused(c)
       \/ /\ Registered(c, k)
          /\ Return(c)
          /\ UNCHANGED <<driver, layers, connected, cb, event, vblank, crash>>

\* The late kinds keep it when the VDI has agreed.
RegisterLate(c, k) ==
    /\ MayRegister(c, k) /\ k \notin Early
    /\ Registered(c, k)
    /\ call' = [call EXCEPT ![c].step = 2]
    /\ UNCHANGED <<driver, layers, connected, cb, event, vblank, crash>>

KeepLate(c, k) ==
    /\ At(c, "register", 2) /\ call[c].k = k /\ k \notin Early
    /\ cb' = [cb EXCEPT ![k] = c]
    /\ Return(c)
    /\ UNCHANGED <<driver, layers, connected, vdiCb, reports, event, vblank, crash>>

RegisterRefused(c, k) ==
    /\ At(c, "register", 1) /\ call[c].k = k
    /\ \/ adapter = "unset" /\ Crashes("unset")
       \/ adapter # "unset" /\ Refused(c)

\* RegDisplayVBlankCallback: the VDI is given the bare pointer of the callback,
\* which the request keeps alive until the service does.
RegDisplayVBlankCallback(c) ==
    \/ /\ At(c, "vblank", 1)
       /\ \/ Unset("RegDisplayVBlankCallback") /\ Crashes("unset")
          \/ adapter # "unset" /\ Refused(c)
          \/ /\ Reached("RegDisplayVBlankCallback")
             /\ vdiVBlank' = [vdiVBlank EXCEPT ![call[c].d] = call[c].p]
             /\ call' = [call EXCEPT ![c].step = 2]
             /\ UNCHANGED <<driver, layers, events, vBlankCb, nextVBlank, crash>>
    \/ /\ At(c, "vblank", 2)
       /\ vBlankCb' = call[c].p
       /\ Return(c)
       /\ UNCHANGED <<driver, layers, events, vdiVBlank, nextVBlank, crash>>

--------------------------------------------------------------------------------
(* Events: the VDI's thread *)

\* A display is plugged in or pulled out.
Plug(d) ==
    /\ crash = "none" /\ d \notin reports
    /\ connected' = IF d \in connected THEN connected \ {d} ELSE connected \cup {d}
    /\ reports' = IF "hotplug" \in Kinds /\ vdiCb["hotplug"] # 0
                  THEN reports \cup {d} ELSE reports
    /\ UNCHANGED <<driver, call, layers, cb, vdiCb, event, vblank, crash>>

\* The VDI begins to report an event to what registered for it.
Report ==
    /\ crash = "none" /\ event = NoEvent
    /\ \/ \E d \in reports :
            /\ event' = [kind |-> "hotplug", d |-> d, on |-> d \in connected, step |-> 1]
            /\ reports' = reports \ {d}
       \/ /\ \E k \in Kinds \ {"hotplug"} :
               vdiCb[k] # 0 /\ event' = [kind |-> k, step |-> 2]
          /\ UNCHANGED reports
       \/ /\ \E d \in Displays :
               vdiVBlank[d] # 0 /\ event' = [kind |-> "vblank", p |-> vdiVBlank[d]]
          /\ UNCHANGED reports
    /\ UNCHANGED <<driver, call, layers, connected, cb, vdiCb, vblank, crash>>

\* OnHotPlug under the cache mutex: the display's device cache is made, or goes
\* with every layer in it.
OnHotPlugCache ==
    LET d == event.d
    IN  /\ crash = "none" /\ event.kind = "hotplug" /\ event.step = 1
        /\ vdiCb["hotplug"] = gen
        /\ cache' = IF event.on
                    THEN [x \in DOMAIN cache \cup {d} |->
                             IF x \in DOMAIN cache THEN cache[x] ELSE {}]
                    ELSE [x \in DOMAIN cache \ {d} |-> cache[x]]
        /\ uncached' = IF d \in DOMAIN cache /\ ~ event.on THEN uncached \cup cache[d]
                       ELSE uncached
        /\ event' = [event EXCEPT !.step = 2]
        /\ UNCHANGED <<driver, call, vdiLayers, nextLayer, owned, connected, cb,
                       vdiCb, reports, vblank, crash>>

\* The callback that is kept now, if any, is called.
OnEvent ==
    /\ crash = "none" /\ event.kind \in Kinds /\ event.step = 2
    /\ vdiCb[event.kind] = gen
    /\ event' = NoEvent
    /\ UNCHANGED <<driver, call, layers, connected, cb, vdiCb, reports, vblank, crash>>

\* The VDI still calls back a service that was destroyed.
OnStale ==
    /\ crash = "none" /\ event.kind \in Kinds /\ vdiCb[event.kind] # gen
    /\ Crashes("stale service")

\* OnVBlank: the bare pointer is used.
Alive(p) == p = vBlankCb \/ \E c \in Clients : call[c].op = "vblank" /\ call[c].p = p

OnVBlank ==
    /\ crash = "none" /\ event.kind = "vblank"
    /\ \/ ~ Alive(event.p) /\ Crashes("freed callback")
       \/ /\ Alive(event.p)
          /\ event' = NoEvent
          /\ UNCHANGED <<driver, call, layers, connected, cb, vdiCb, reports,
                         vblank, crash>>

Crashed == crash # "none" /\ UNCHANGED vars

Next ==
    \/ BindFreed \/ BindFails \/ Bind \/ Release
    \/ \E c \in Clients :
          \/ Dispatch(c) \/ Query(c) \/ Clear(c)
          \/ CreateLayerVdi(c) \/ CreateLayerCache(c)
          \/ DestroyLayerVdi(c) \/ DestroyLayerCache(c)
          \/ \E k \in Kinds : KeepEarly(c, k) \/ RegisterEarly(c, k)
                              \/ RegisterLate(c, k) \/ KeepLate(c, k)
                              \/ RegisterRefused(c, k)
          \/ RegDisplayVBlankCallback(c)
    \/ \E d \in Displays : Plug(d)
    \/ Report \/ OnHotPlugCache \/ OnEvent \/ OnStale \/ OnVBlank
    \/ Crashed

Spec == Init /\ [][Next]_vars

--------------------------------------------------------------------------------
(* Properties *)

\* A request runs inside the service that is bound now: Release waits for the
\* requests under way and Bind replaces the service only when there is none, so
\* no request is left in a service that was released or destroyed.
RequestsRunInBoundService ==
    \A c \in Clients :
        Inside(c) => ~ stop /\ host = "live" /\ call[c].gen = gen

\* The device caches follow the VDI.  A layer a client was given is in its
\* display's cache unless the display was unplugged since, and a layer in a
\* cache is one the VDI still has, or one that is just being destroyed: the
\* two halves of CreateLayer and DestroyLayer keep them together although the
\* VDI is called outside the cache mutex and hot-plug events come in between.
LayersAreCached ==
    /\ \A c \in Clients : \A o \in owned[c] :
          o[2] \in uncached \/ (o[1] \in DOMAIN cache /\ o[2] \in cache[o[1]])
    /\ \A d \in DOMAIN cache : \A l \in cache[d] \ vdiLayers[d] :
          \E c \in Clients : call[c].op = "destroy" /\ call[c].step = 2
                             /\ call[c].l = l

\* An event the VDI reports to the service finds a client's callback, but for
\* a late kind whose first registration is between the VDI's answer and the
\* assignment: nothing is lost of the hot-plug events, the first of which come
\* while RegHotPlugCallback is still running.
EventsReachClient ==
    event.kind \in Kinds /\ vdiCb[event.kind] = gen /\ cb[event.kind] = "null" =>
        /\ event.kind \in Late
        /\ \E c \in Clients : call[c].op = "register" /\ call[c].k = event.kind
                              /\ call[c].step = 2

\* The process ends by a bad pointer only in these ways: the library could not
\* be opened and the adapter was left unfilled; a service was bound anew while
\* the VDI had the old one's callbacks; a Bind followed a failed one; a second
\* vblank callback was registered, or the service bound anew, while the VDI
\* had the first.  No request ever calls a function an open library lacks.
CrashesAreExplained ==
    /\ crash = "unset" => adapter = "unset"
    /\ crash = "stale service" => gen > 1
    /\ crash = "freed host" => host = "freed"
    /\ crash = "freed callback" => gen > 1 \/ nextVBlank > 2
================================================================================
