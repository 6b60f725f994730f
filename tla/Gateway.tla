------------------------------- MODULE Gateway -------------------------------
(***************************************************************************)
(* The gateway of core/src/gateway*.c: the registry of modules and links   *)
(* of a GATEWAY_HANDLE, its calls, and Gateway_UpdateFromJson, which adds  *)
(* a list of modules and links to a running gateway, one entry after the   *)
(* other, and undoes what it did when an entry fails.                      *)
(*                                                                         *)
(* The broker appears with the routing state that gateway calls change:    *)
(* Broker and ThreadLinks say what it does with it.  A call of the API is  *)
(* one step; an update is one step per entry.  Calls do not overlap: the   *)
(* code has no lock for the registry and relies on its callers.            *)
(***************************************************************************)
EXTENDS Naturals, Sequences, FiniteSets, SequencesExt

CONSTANTS
    Names,        \* module names
    OutProcess,   \* names of modules of the out-of-process loader
    Handles,      \* MODULE_HANDLE values; one that was freed may be used again
    Versions,     \* versions of module libraries
    NoVersion,    \* no version recorded; the library the gateway came with
    AnySource,          \* GATEWAY_ALL, "*"
    Creations,    \* what the gateway may be created from
    Updates,      \* the JSON documents Gateway_UpdateFromJson may be given
    LinkEntries,  \* the GATEWAY_LINK_ENTRY values callers add and remove
    Api,          \* whether callers change the gateway between updates
    Faults,       \* whether loading, creating and attaching modules may fail
    Downloads,    \* the outcomes of HTTP downloads: a subset of BOOLEAN
    MaxUpdates    \* bound: calls of Gateway_UpdateFromJson

ModuleEntry == [name : Names, version : Versions]
LinkEntry   == [source : Names \cup {AnySource}, sink : Names, type : {"default", "thread"}]
Config      == [modules : Seq(ModuleEntry), links : Seq(LinkEntry), deploy : BOOLEAN]

ASSUME GatewayAssumption ==
    /\ OutProcess \subseteq Names
    /\ AnySource \notin Names \cup Handles
    /\ {"none", "failed"} \cap (Handles \cup {AnySource}) = {}   \* NoVector and ListFails are no handles
    /\ NoVersion \notin Versions
    /\ Creations \cup Updates \subseteq Config
    /\ LinkEntries \subseteq LinkEntry
    /\ Api \in BOOLEAN /\ Faults \in BOOLEAN
    /\ Downloads \subseteq BOOLEAN /\ Downloads # {}
    /\ MaxUpdates \in Nat

VARIABLES
    status,    \* runtime_status; "none": no gateway
    gw,        \* GATEWAY_HANDLE_DATA and the routing state of its broker
    work,      \* the creation or update in progress
    recorded,  \* version of each module in the deploy-path file
    disk,      \* version of the library file of each module
    deploy,    \* gw->deployConfig: "null", "live" or "freed"
    misread,   \* a call went through the freed gw->deployConfig
    updates    \* number of updates so far

vars == <<status, gw, work, recorded, disk, deploy, misread, updates>>

Pairs      == Handles \X Handles
ModuleData == [name : Names, handle : Handles, code : Versions \cup {NoVersion}]
LinkData   == [source : Handles \cup {AnySource}, sink : Handles]
GatewayData ==
    [modules  : SUBSET ModuleData,   \* modules: MODULE_DATA, code is what the library runs
     links    : SUBSET LinkData,     \* links: LINK_DATA; source AnySource is from_any_source
     refs     : Nat,                 \* reference count of the broker
     attached : SUBSET Handles,      \* modules attached to the broker
     subs     : SUBSET Pairs,        \* <<s, k>>: the socket of k is subscribed to s
     nodes    : [Pairs -> Nat],      \* thread links from s to k
     threaded : SUBSET Handles,      \* modules with a senderThMsg
     started  : SUBSET Handles]      \* modules whose Module_Start was called

NoConfig == [modules |-> <<>>, links |-> <<>>, deploy |-> FALSE]
NoWork == [op |-> "none", modules |-> <<>>, links |-> <<>>, added |-> <<>>, linked |-> <<>>,
           failed |-> FALSE, config |-> NoConfig, names |-> {}, edges |-> {}, touched |-> {}]

TypeOK ==
    /\ status \in {"none", "initializing", "running", "updating", "updated", "destroyed"}
    /\ gw \in GatewayData
    /\ work.op \in {"none", "create", "update"}
    /\ work.modules \in Seq(ModuleEntry) /\ work.links \in Seq(LinkEntry)
    /\ work.added \in Seq(Names) /\ work.linked \in Seq(LinkEntry)
    /\ work.failed \in BOOLEAN
    /\ work.names \in SUBSET Names /\ work.touched \in SUBSET Names
    /\ recorded \in [Names -> Versions \cup {NoVersion}]
    /\ disk \in [Names -> Versions \cup {NoVersion}]
    /\ deploy \in {"null", "live", "freed"}
    /\ misread \in BOOLEAN
    /\ updates \in Nat
    /\ (work.op = "update") = (status = "updating")

NoGateway ==
    [modules |-> {}, links |-> {}, refs |-> 0, attached |-> {}, subs |-> {},
     nodes |-> [p \in Pairs |-> 0], threaded |-> {}, started |-> {}]

Init ==
    /\ status = "none" /\ gw = NoGateway /\ work = NoWork
    /\ recorded = [n \in Names |-> NoVersion]
    /\ disk = [n \in Names |-> NoVersion]
    /\ deploy = "null" /\ misread = FALSE /\ updates = 0
-----------------------------------------------------------------------------
(* The broker's part, as calls of the gateway change it.                    *)
Count(b) == IF b THEN 1 ELSE 0

Live(g) == {m.handle : m \in g.modules}
Registered(g, n) == \E m \in g.modules : m.name = n
ModuleOf(g, n) == CHOOSE m \in g.modules : m.name = n
HandleOf(g, n) == ModuleOf(g, n).handle

\* Both ends are in-process modules and the link is of the thread type.
Threaded(g, p, type) ==
    type = "thread" /\ \A m \in g.modules : m.handle \in {p[1], p[2]} => m.name \notin OutProcess

\* Broker_AddLink for each of the pairs P
BrokerAddLinks(g, P, type) ==
    LET T == {p \in P : Threaded(g, p, type)} IN
    [g EXCEPT !.subs = @ \cup (P \ T),
              !.nodes = [p \in Pairs |-> @[p] + Count(p \in T)],
              !.threaded = @ \cup {p[1] : p \in T}]

\* Broker_RemoveLink, times[p] times for each pair p: a thread link is removed if
\* there is one; no subscription ever is.
BrokerRemoveLinks(g, times) ==
    [g EXCEPT !.nodes = [p \in Pairs |-> IF @[p] > times[p] THEN @[p] - times[p] ELSE 0]]

\* Broker_RemoveModule: the module's socket is closed, its senderThMsg freed.
BrokerRemoveModule(g, h) ==
    [g EXCEPT !.attached = @ \ {h},
              !.subs = {p \in @ : p[2] # h},
              !.threaded = @ \ {h}]
-----------------------------------------------------------------------------
(* Links                                                                     *)
LinkOf(s, k) == [source |-> s, sink |-> k]
AnySinks(g) == {k \in Handles : LinkOf(AnySource, k) \in g.links}

\* The pairs a link of the gateway stands for.
Routes(g, s, k) == IF s = AnySource THEN {<<h, k>> : h \in Live(g) \ {k}} ELSE {<<s, k>>}

\* Mutation of RemoveLink: the link is only taken from the gateway's list.
RemoveLinkKeepsRoutes(g, s, k) == [g EXCEPT !.links = @ \ {LinkOf(s, k)}]

\* gateway_removelink_internal: every route is taken from the broker.
RemoveLink(g, s, k) ==
    [BrokerRemoveLinks(g, [p \in Pairs |-> Count(p \in Routes(g, s, k))]) EXCEPT !.links = @ \ {LinkOf(s, k)}]

\* The ends of a link entry, as handles.
SourceOf(g, e) == IF e.source = AnySource THEN AnySource ELSE HandleOf(g, e.source)
SinkOf(g, e) == HandleOf(g, e.sink)
EndsExist(g, e) == Registered(g, e.sink) /\ (e.source = AnySource \/ Registered(g, e.source))

\* check_if_link_exists
LinkExists(g, e) == EndsExist(g, e) /\ LinkOf(SourceOf(g, e), SinkOf(g, e)) \in g.links

\* add_regular_link and add_any_source_link, everything in them succeeding
AddLink(g, e) ==
    LET s == SourceOf(g, e)  k == SinkOf(g, e) IN
    [BrokerAddLinks(g, Routes(g, s, k), e.type) EXCEPT !.links = @ \cup {LinkOf(s, k)}]

\* A call of Broker_AddLink that fails: the source of a thread link may have got a
\* senderThMsg for it.
BrokerAddFails(g, P, type) ==
    {[g EXCEPT !.threaded = @ \cup {p[1] : p \in T}] :
        T \in {{}} \cup {{p} : p \in {x \in P : Threaded(g, x, type)}}}

\* A failure when some of the routes were made: all of them are removed again, and
\* with them a thread link of the same modules that was there before.
AddLinkFails(g, e, made) ==
    LET s == SourceOf(g, e)  k == SinkOf(g, e) IN
    BrokerRemoveLinks(BrokerAddLinks(g, made, e.type), [p \in Pairs |-> Count(p \in Routes(g, s, k))])

\* gateway_addlink_internal
Addable(e) == EndsExist(gw, e) /\ ~LinkExists(gw, e)

LinkAdded(e) == Addable(e) /\ gw' = AddLink(gw, e)

\* VECTOR_push_back may fail before any route is made ("*") or after the only one
\* is; Broker_AddLink may fail for any of the routes.
LinkNotAdded(e) ==
    IF Addable(e)
    THEN /\ Faults
         /\ LET routes == Routes(gw, SourceOf(gw, e), SinkOf(gw, e)) IN
            \/ gw' \in BrokerAddFails(gw, routes, e.type)
            \/ \E made \in SUBSET routes :
                    /\ IF e.source = AnySource THEN made # routes ELSE made = routes
                    /\ gw' \in BrokerAddFails(AddLinkFails(gw, e, made), routes \ made, e.type)
    ELSE gw' = gw
-----------------------------------------------------------------------------
(* Modules                                                                   *)
\* Mutation of Withdrawn: the module stays a source of the "*" links.
WithdrawnOfOwnLinks(g, h, p) ==
    Count(h \in {p[1], p[2]} /\ LinkOf(p[1], p[2]) \in g.links)
  + Count(p[2] = h /\ p[1] \in Live(g) \ {h} /\ h \in AnySinks(g))

\* The module leaves every "*" link, then each of its links is removed; how often
\* Broker_RemoveLink is called for pair p.
Withdrawn(g, h, p) ==
    Count(p[1] = h /\ p[2] \in AnySinks(g))
  + Count(h \in {p[1], p[2]} /\ LinkOf(p[1], p[2]) \in g.links)
  + Count(p[2] = h /\ p[1] \in Live(g) \ {h} /\ h \in AnySinks(g))

\* Mutations of RemoveModule: the "*" links to the module are left ...
RemoveModuleKeepsAny(g, m) ==
    LET h == m.handle
        w == BrokerRemoveLinks(g, [p \in Pairs |-> Withdrawn(g, h, p)])
    IN  [BrokerRemoveModule(w, h) EXCEPT !.links = {l \in @ : l.source # h /\ (l.source = AnySource \/ l.sink # h)},
                                         !.refs = @ - 1,
                                         !.modules = @ \ {m},
                                         !.started = @ \ {h}]

\* ... or every "*" link goes with it.
RemoveModuleDropsAny(g, m) ==
    LET h == m.handle
        w == BrokerRemoveLinks(g, [p \in Pairs |-> Withdrawn(g, h, p)])
    IN  [BrokerRemoveModule(w, h) EXCEPT !.links = {l \in @ : {h, AnySource} \cap {l.source, l.sink} = {}},
                                         !.refs = @ - 1,
                                         !.modules = @ \ {m},
                                         !.started = @ \ {h}]

\* gateway_removemodule_internal
RemoveModule(g, m) ==
    LET h == m.handle
        w == BrokerRemoveLinks(g, [p \in Pairs |-> Withdrawn(g, h, p)])
    IN  [BrokerRemoveModule(w, h) EXCEPT !.links = {l \in @ : h \notin {l.source, l.sink}},
                                         !.refs = @ - 1,
                                         !.modules = @ \ {m},
                                         !.started = @ \ {h}]

\* gateway_get_current_module_version
KnownVersion(n) == IF deploy = "live" THEN recorded[n] ELSE NoVersion

\* A module of that name exists: it is removed, unless its recorded version is the
\* one of the new entry, which is then refused.
Duplicate(n, v) == Registered(gw, n) /\ KnownVersion(n) # NoVersion /\ KnownVersion(n) = v
\* Mutation of Cleared: the old module is kept.
ClearedKeeps(n) == gw

Cleared(n) == IF Registered(gw, n) THEN RemoveModule(gw, ModuleOf(gw, n)) ELSE gw

\* set_module_version, before the library is loaded
RecordVersion(n, v) ==
    recorded' = IF deploy = "live" /\ ~Duplicate(n, v) THEN [recorded EXCEPT ![n] = v] ELSE recorded

\* Mutation of AddModule: the module is no source of the "*" links.
AddModuleUnlinked(g, n, h) ==
    [g EXCEPT !.attached = @ \cup {h},
              !.modules = @ \cup {[name |-> n, handle |-> h, code |-> disk[n]]},
              !.refs = @ + 1]

\* The rest of gateway_addmodule_internal, everything in it succeeding: the module
\* becomes a source of every "*" link, always of the default type.
AddModule(g, n, h) ==
    [BrokerAddLinks([g EXCEPT !.attached = @ \cup {h}], {h} \X AnySinks(g), "default")
        EXCEPT !.modules = @ \cup {[name |-> n, handle |-> h, code |-> disk[n]]},
               !.refs = @ + 1]

ModuleAdded(n, v) ==
    /\ ~Duplicate(n, v)
    /\ \E h \in Handles \ Live(Cleared(n)) : gw' = AddModule(Cleared(n), n, h)

\* Mutation of ModuleNotAdded: a reference is given back that was never taken.
ModuleNotAddedDecRefs(n, v) ==
    IF Duplicate(n, v) THEN gw' = gw
    ELSE /\ Faults
         /\ \E h \in Handles \ Live(Cleared(n)), made \in SUBSET AnySinks(Cleared(n)) :
                gw' = [Cleared(n) EXCEPT !.subs = @ \cup ({h} \X made), !.refs = @ - 1]

\* Loading, creating or attaching the module fails, or subscribing the sinks of the
\* "*" links does: the sinks in made stay subscribed to a handle that is gone.
ModuleNotAdded(n, v) ==
    IF Duplicate(n, v) THEN gw' = gw
    ELSE /\ Faults
         /\ \E h \in Handles \ Live(Cleared(n)), made \in SUBSET AnySinks(Cleared(n)) :
                gw' = [Cleared(n) EXCEPT !.subs = @ \cup ({h} \X made)]
-----------------------------------------------------------------------------
(* Creating and destroying the gateway                                       *)
\* The gateway as a graph of names.
NamedBy(g, h, n) == (h = AnySource /\ n = AnySource) \/ \E m \in g.modules : m.handle = h /\ m.name = n
NamesOf(g) == {m.name : m \in g.modules}
EdgesOf(g) == {e \in (Names \cup {AnySource}) \X Names :
                 \E l \in g.links : NamedBy(g, l.source, e[1]) /\ NamedBy(g, l.sink, e[2])}

Idle == work.op = "none" /\ status \in {"initializing", "running", "updated"}

\* names, edges and touched are not in the code: the graph before an update and the
\* names whose module the update has added or removed, for the properties.
Begin(op, cfg) ==
    work' = [op |-> op, modules |-> cfg.modules, links |-> cfg.links, added |-> <<>>,
             linked |-> <<>>, failed |-> FALSE, config |-> cfg,
             names |-> NamesOf(gw), edges |-> EdgesOf(gw), touched |-> {}]

FileVersion(cfg, n) == IF cfg.deploy THEN recorded[n] ELSE NoVersion

\* parse_loader: the library of a module is downloaded unless the deploy-path file
\* records the version wanted; a failed download is only logged.
Wanted(cfg, n) == {v \in Versions : /\ v # FileVersion(cfg, n)
                                    /\ \E i \in DOMAIN cfg.modules :
                                           cfg.modules[i] = [name |-> n, version |-> v]}

Parse(cfg) ==
    disk' \in {d \in [Names -> Versions \cup {NoVersion}] : \A n \in Names :
        \/ d[n] \in Wanted(cfg, n) /\ TRUE \in Downloads
        \/ d[n] = disk[n] /\ (Wanted(cfg, n) = {} \/ FALSE \in Downloads)}

\* gateway_create_internal with its broker and vectors in place.  Gateway_CreateFromJson
\* has parsed the document before, without a deploy-path file; Gateway_Create has none.
Create(cfg) ==
    /\ status = "none" /\ status' = "initializing"
    /\ Parse([cfg EXCEPT !.deploy = FALSE]) \/ UNCHANGED disk
    /\ gw' = [gw EXCEPT !.refs = 1]
    /\ Begin("create", cfg)
    /\ UNCHANGED <<recorded, deploy, misread, updates>>

\* How many links of the gateway stand for the pair p.
Covers(g, p) ==
    Count(LinkOf(p[1], p[2]) \in g.links) + Count(p[1] # p[2] /\ p[2] \in AnySinks(g))

\* gateway_destroy_internal: each link is removed, then each module, each giving back
\* its reference of the broker, which is freed with the last one.
Destroyed(g) ==
    [NoGateway EXCEPT !.nodes = BrokerRemoveLinks(g, [p \in Pairs |-> Covers(g, p)]).nodes,
                      !.attached = g.attached \ Live(g),
                      !.refs = g.refs - Cardinality(g.modules) - 1]

Destroy ==
    /\ Idle
    /\ gw' = Destroyed(gw) /\ status' = "destroyed"
    /\ UNCHANGED <<work, recorded, disk, deploy, misread, updates>>

\* Gateway_Start
Start ==
    /\ Idle /\ status = "initializing" /\ status' = "running"
    /\ gw' = [gw EXCEPT !.started = Live(gw)]
    /\ UNCHANGED <<work, recorded, disk, deploy, misread, updates>>
-----------------------------------------------------------------------------
(* The calls that change a gateway.  Removing what is not there does nothing. *)
\* An entry of the API has no version.
ApiAddModule(n) ==
    /\ Idle
    /\ IF deploy = "freed"
       THEN misread' = TRUE /\ UNCHANGED gw
       ELSE UNCHANGED misread /\ (ModuleAdded(n, NoVersion) \/ ModuleNotAdded(n, NoVersion))
    /\ UNCHANGED <<status, work, recorded, disk, deploy, updates>>

\* Gateway_RemoveModule and Gateway_RemoveModuleByName
RemoveByName(g, n) == IF Registered(g, n) THEN RemoveModule(g, ModuleOf(g, n)) ELSE g

ApiRemoveModule(n) ==
    /\ Idle
    /\ gw' = RemoveByName(gw, n)
    /\ UNCHANGED <<status, work, recorded, disk, deploy, misread, updates>>

ApiAddLink(e) ==
    /\ Idle
    /\ LinkAdded(e) \/ LinkNotAdded(e)
    /\ UNCHANGED <<status, work, recorded, disk, deploy, misread, updates>>

RemoveByEntry(g, e) ==
    IF LinkExists(g, e) THEN RemoveLink(g, SourceOf(g, e), SinkOf(g, e)) ELSE g

ApiRemoveLink(e) ==
    /\ Idle
    /\ gw' = RemoveByEntry(gw, e)
    /\ UNCHANGED <<status, work, recorded, disk, deploy, misread, updates>>

\* Gateway_StartModule
StartModule(n) ==
    /\ Idle /\ Registered(gw, n)
    /\ gw' = [gw EXCEPT !.started = @ \cup {HandleOf(gw, n)}]
    /\ UNCHANGED <<status, work, recorded, disk, deploy, misread, updates>>
-----------------------------------------------------------------------------
(* Gateway_GetModuleList                                                     *)
NoVector == {"none"}    \* module_sources is NULL
ListFails == {"failed"}

\* Mutation of Listed: a "*" link is put beside the others.
ListedBeside(sources, link) == sources \cup {link.source}

\* The walk over the links puts each on the vector of its sink's sources.  A "*" link
\* destroys the vector; there is then none to put another source on, and the call fails.
Listed(sources, link) ==
    CASE sources = ListFails -> ListFails
      [] link.source = AnySource /\ sources # ListFails -> NoVector
      [] link.source # AnySource /\ sources = NoVector  -> ListFails
      [] OTHER -> sources \cup {link.source}

\* What the list may have for a module, the links to it being in any order.
ListedSources(g, k) ==
    {FoldLeft(Listed, {}, walk) : walk \in SetToSeqs({l \in g.links : l.sink = k})}
-----------------------------------------------------------------------------
(* Gateway_UpdateFromJson, called for a change of the device twin, which is  *)
(* looked at once the gateway has been started.                              *)
\* The document is parsed as a whole, with the downloads, before anything is added.
Update(cfg) ==
    /\ Idle /\ status \in {"running", "updated"}
    /\ updates < MaxUpdates /\ updates' = updates + 1
    /\ Parse(cfg)
    /\ status' = "updating"
    /\ deploy' = IF cfg.deploy THEN "live" ELSE "null"
    /\ Begin("update", cfg)
    /\ UNCHANGED <<gw, recorded, misread>>

\* A document that cannot be parsed to the end changes nothing but the files.
UpdateRejected(cfg) ==
    /\ Idle /\ status \in {"running", "updated"}
    /\ Faults /\ updates < MaxUpdates /\ updates' = updates + 1
    /\ Parse(cfg)
    /\ status' = "updated"
    /\ UNCHANGED <<gw, work, recorded, deploy, misread>>

Adding == work.op # "none" /\ ~work.failed
NextModule == Head(work.modules)
NextLink == Head(work.links)

Touch(n) == IF Duplicate(n, NextModule.version) THEN work.touched ELSE work.touched \cup {n}

\* A module entry is added ...
AddModuleEntry ==
    LET e == NextModule IN
    /\ Adding /\ work.modules # <<>>
    /\ ModuleAdded(e.name, e.version)
    /\ RecordVersion(e.name, e.version)
    /\ work' = [work EXCEPT !.modules = Tail(@), !.added = Append(@, e.name), !.touched = Touch(e.name)]
    /\ UNCHANGED <<status, disk, deploy, misread, updates>>

\* ... or it fails, at the latest because it cannot be put on the list of the added
\* modules, and the rest of the document is left: a new gateway is destroyed, an
\* update undone.
ModuleEntryFails ==
    LET e == NextModule IN
    /\ Adding /\ work.modules # <<>>
    /\ RecordVersion(e.name, e.version)
    /\ work' = [work EXCEPT !.failed = TRUE, !.touched = Touch(e.name)]
    /\ \/ ModuleNotAdded(e.name, e.version)
       \/ /\ Faults /\ work.op = "update" /\ ~Duplicate(e.name, e.version)
          /\ \E h \in Handles \ Live(Cleared(e.name)) :
                gw' = RemoveByName(AddModule(Cleared(e.name), e.name, h), e.name)
    /\ UNCHANGED <<status, disk, deploy, misread, updates>>

\* ... or it is refused before anything else is done, for want of a loader or an
\* entry point, or because its name is "*".
ModuleEntryRefused ==
    /\ Faults /\ Adding /\ work.modules # <<>>
    /\ work' = [work EXCEPT !.failed = TRUE]
    /\ UNCHANGED <<status, gw, recorded, disk, deploy, misread, updates>>

\* The links follow when all modules are there.
AddLinkEntry ==
    /\ Adding /\ work.modules = <<>> /\ work.links # <<>>
    /\ LinkAdded(NextLink)
    /\ work' = [work EXCEPT !.links = Tail(@), !.linked = Append(@, NextLink)]
    /\ UNCHANGED <<status, recorded, disk, deploy, misread, updates>>

LinkEntryFails ==
    /\ Adding /\ work.modules = <<>> /\ work.links # <<>>
    /\ work' = [work EXCEPT !.failed = TRUE]
    /\ \/ LinkNotAdded(NextLink)
       \/ Faults /\ work.op = "update" /\ Addable(NextLink)
          /\ gw' = RemoveByEntry(AddLink(gw, NextLink), NextLink)
    /\ UNCHANGED <<status, recorded, disk, deploy, misread, updates>>

\* A gateway that could not be created as described is destroyed.
CreateFails ==
    /\ work.op = "create" /\ work.failed
    /\ gw' = Destroyed(gw) /\ status' = "destroyed" /\ work' = NoWork
    /\ UNCHANGED <<recorded, disk, deploy, misread, updates>>

\* An update is undone: the links it added go first, then the modules.
Undoing == work.op = "update" /\ work.failed

UndoLink ==
    /\ Undoing /\ work.linked # <<>>
    /\ gw' = RemoveByEntry(gw, Head(work.linked))
    /\ work' = [work EXCEPT !.linked = Tail(@)]
    /\ UNCHANGED <<status, recorded, disk, deploy, misread, updates>>

\* rollbackModules
UndoModule ==
    /\ Undoing /\ work.linked = <<>> /\ work.added # <<>>
    /\ gw' = RemoveByName(gw, Head(work.added))
    /\ work' = [work EXCEPT !.added = Tail(@)]
    /\ UNCHANGED <<status, recorded, disk, deploy, misread, updates>>

Created ==
    /\ work.op = "create" /\ Adding /\ work.modules = <<>> /\ work.links = <<>>
    /\ work' = NoWork
    /\ UNCHANGED <<status, gw, recorded, disk, deploy, misread, updates>>

\* The recorded versions are saved, whatever the outcome, and gw->deployConfig freed.
EndUpdate ==
    /\ status' = "updated" /\ work' = NoWork
    /\ deploy' = IF deploy = "live" THEN "freed" ELSE deploy
    /\ UNCHANGED <<gw, recorded, disk, misread, updates>>

Updated ==
    /\ work.op = "update" /\ Adding /\ work.modules = <<>> /\ work.links = <<>>
    /\ EndUpdate

\* Mutation of UpdateUndone: the modules stay.
UpdateHalfUndone ==
    /\ Undoing /\ work.linked = <<>>
    /\ EndUpdate

UpdateUndone ==
    /\ Undoing /\ work.linked = <<>> /\ work.added = <<>>
    /\ EndUpdate
-----------------------------------------------------------------------------
WorkStep ==
    \/ AddModuleEntry \/ ModuleEntryFails \/ ModuleEntryRefused \/ AddLinkEntry \/ LinkEntryFails
    \/ CreateFails \/ UndoLink \/ UndoModule \/ Created \/ Updated \/ UpdateUndone

ApiCall ==
    \/ \E n \in Names : ApiAddModule(n) \/ ApiRemoveModule(n) \/ StartModule(n)
    \/ \E e \in LinkEntries : ApiAddLink(e) \/ ApiRemoveLink(e)

Next ==
    /\ ~misread
    /\ \/ \E cfg \in Creations : Create(cfg)
       \/ \E cfg \in Updates : Update(cfg) \/ UpdateRejected(cfg)
       \/ Start \/ Destroy \/ WorkStep
       \/ Api /\ ApiCall

Spec == Init /\ [][Next]_vars
-----------------------------------------------------------------------------
\* A module name is "unique on a gateway" (gateway_internal.h), and so is a handle.
UniqueNames ==
    \A m1, m2 \in gw.modules : m1.name = m2.name \/ m1.handle = m2.handle => m1 = m2

\* Both ends of every link are modules of the gateway, as Gateway_GetModuleList
\* asserts: no link outlives a module.
LinkEndsRegistered == \A l \in gw.links : {l.source, l.sink} \subseteq Live(gw) \cup {AnySource}

\* The broker delivers to the modules of the gateway and to no other, and it lives
\* exactly as long as the gateway: every module holds one reference of it.
BrokerAgrees ==
    /\ gw.attached = Live(gw)
    /\ gw.refs = Cardinality(gw.modules) + Count(status \notin {"none", "destroyed"})

\* Every thread link of the broker stands for a link of the gateway, so that
\* Broker_RemoveModule frees nothing that another module's lists still point to.
NodesAccounted == \A p \in Pairs : gw.nodes[p] <= Covers(gw, p)
NoDanglingNode == \A p \in Pairs : gw.nodes[p] > 0 => {p[1], p[2]} \subseteq gw.attached

\* What the source of a link publishes reaches the sink.
Routed(s, k) == IF s \in gw.threaded THEN gw.nodes[<<s, k>>] > 0 ELSE <<s, k>> \in gw.subs
LinksDeliver == \A l \in gw.links : \A p \in Routes(gw, l.source, l.sink) : Routed(p[1], p[2])

\* Gateway_GetModuleList (SRS_GATEWAY_26_013 and 26_014) gives every module its sources,
\* and no vector where one is "*"; only for a module that has a link from "*" and one of its
\* own may it fail.
ListShowsGraph ==
    \A m \in gw.modules :
       LET sources == {l.source : l \in {x \in gw.links : x.sink = m.handle}}
       IN \A list \in ListedSources(gw, m.handle) :
             CASE AnySource \notin sources  -> list = sources
               [] sources = {AnySource}      -> list = NoVector
               [] OTHER                      -> list \in {NoVector, ListFails}

\* What SRS_GATEWAY_26_014 says: "*" as a link source gives no vector.
ListOfAnySource ==
    \A m \in gw.modules : m.handle \in AnySinks(gw) => ListedSources(gw, m.handle) = {NoVector}

RegistryInv == TypeOK /\ UniqueNames /\ LinkEndsRegistered /\ BrokerAgrees
NodesInv == NodesAccounted /\ NoDanglingNode

\* An update that fails leaves the gateway as it was ...
RollsBack == [][UpdateUndone => NamesOf(gw) = work.names /\ EdgesOf(gw) = work.edges]_vars

\* ... and in fact as it was but for the modules it replaced, which are gone with
\* their links.
RollsBackTheRest ==
    [][UpdateUndone =>
         /\ NamesOf(gw) = work.names \ work.touched
         /\ EdgesOf(gw) = {e \in work.edges : {e[1], e[2]} \cap work.touched = {}}]_vars

\* An update that succeeds leaves the gateway running the versions asked for ...
InstallsVersions ==
    [][Updated => \A i \in DOMAIN work.config.modules :
         \E m \in gw.modules : /\ m.name = work.config.modules[i].name
                               /\ m.code = work.config.modules[i].version]_vars

\* ... and started, as the rest of the gateway is.
StartsModules == [][Updated => gw.started = Live(gw)]_vars

\* A name that is taken is refused.
RefusesTakenNames ==
    [][\A n \in Names : Registered(gw, n) /\ ApiAddModule(n) => UNCHANGED gw]_vars

\* No call goes through the deploy configuration of an update that is over.
NoMisread == ~misread

Graph == INSTANCE GatewayGraph WITH Any <- AnySource, names <- NamesOf(gw), edges <- EdgesOf(gw)
GraphSpec == Graph!GraphSpec
=============================================================================
