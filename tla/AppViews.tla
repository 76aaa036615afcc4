------------------------------ MODULE AppViews ------------------------------
(***************************************************************************)
(* App views and their resources (apps/apps_lib.go, sdk/apps_registry.go)  *)
(* on top of the loopback server their uploads go to.                      *)
(*                                                                         *)
(* Registering a view registers its helper tools, then its resource, then  *)
(* attaches it to the tools it renders for.  A resource has a record of    *)
(* its own in the registry, changed under a mutex, and an entry in the     *)
(* MCP server's list, changed after the unlock.  The list entry carries    *)
(* the origins the view may connect to; the assembly asks the upload       *)
(* coordinator for them and bakes them in once they are known.  All of     *)
(* these calls, mints of upload URLs and the loopback server's own calls   *)
(* run next to each other.                                                 *)
(*                                                                         *)
(* External: the MCP server, whose tool and resource tables change in one  *)
(* step each; the tool registrar, which may fail; the catalog, which only  *)
(* grows; and the assembly, which bakes what ConnectOrigins answered.  One *)
(* MCP server stands for all: nothing is shared between two.               *)
(***************************************************************************)
EXTENDS Loopback, FiniteSets

CONSTANTS
  Calls,     \* calls of the interface, each made once
  Views,     \* URIs of views
  Tools,     \* names a view may be attached to
  AttachTo,  \* AttachTo[u]: the tools the view u is attached to, in order
  Helpers,   \* Helpers[u]: how many helper tools it has
  Domain     \* the deployment's origin, for a view-domain resolver

ASSUME AppViewsAssumption ==
  /\ AttachTo \in [Views -> Seq(Tools)]
  /\ Helpers \in [Views -> Nat]
  /\ Views \cap {"none", "absent", "other"} = {}

VARIABLES
  registrar,       \* whether registerToolFn is installed
  resolver,        \* what r.viewDomainResolver answers, "none" without one
  reachable,       \* whether the registry has an entry for the server at all
  record,          \* record[u]: domain and connect domains in u's appResourceReg
  listed,          \* listed[u]: the same in the server's resource list
  helper,          \* helper[u]: how many helpers of u the server has as tools
  meta,            \* meta[t]: the view t's catalog entry points at, or "none",
                   \* or "absent" while there is no such entry
  appViewsByTool,  \* appViewsByTool[t]: the view recorded for t, or "none"
  call,            \* call[c]: how far the call c has got, and with what
  overlapped       \* history: URIs whose last change did not run alone

registry == <<reachable, record, listed, overlapped>>
catalog == <<meta, appViewsByTool>>
assembly == <<registrar, resolver>>
appVars == <<loopback, assembly, registry, helper, catalog, call>>

Fresh == [pc |-> "fresh", uri |-> "none", next |-> 1, origin |-> "none",
          domain |-> "none", steady |-> TRUE, failed |-> FALSE]

(* A registration has the domain of the deployment, if that has a resolver, *)
(* and no connect domains yet.                                             *)
Entry == [domain : {Domain, "none"}, connect : Origins \cup {"static"}]

TypeOK ==
  /\ LoopbackTypeOK
  /\ registrar \in BOOLEAN /\ resolver \in {Domain, "none"}
  /\ reachable \in BOOLEAN
  /\ DOMAIN record \subseteq Views /\ record \in [DOMAIN record -> Entry]
  /\ DOMAIN listed \subseteq Views /\ listed \in [DOMAIN listed -> Entry]
  /\ overlapped \subseteq Views
  /\ \A u \in Views : helper[u] \in 0 .. Helpers[u]
  /\ meta \in [Tools -> Views \cup {"none", "absent"}]
  /\ appViewsByTool \in [Tools -> Views \cup {"none", "other"}]
  /\ call \in [Calls -> [pc : {"fresh", "minting", "minted", "asking", "asked",
                               "helpers", "adding", "baking",
                               "removing", "attaching", "noting", "returned"},
                         uri : Views \cup {"none"}, next : Nat,
                         origin : Origins \cup {"static", "none"},
                         domain : {Domain, "none"},
                         steady : BOOLEAN, failed : BOOLEAN]]

AppInit ==
  /\ LoopbackInit
  /\ registrar = FALSE
  /\ resolver = "none"
  /\ reachable = FALSE
  /\ record = <<>>
  /\ listed = <<>>
  /\ helper = [u \in Views |-> 0]
  /\ meta = [t \in Tools |-> "absent"]
  /\ appViewsByTool = [t \in Tools |-> "none"]
  /\ call = [c \in Calls |-> Fresh]
  /\ overlapped = {}

Put(f, x, v) == [y \in DOMAIN f \cup {x} |-> IF y = x THEN v ELSE f[y]]
Minus(f, x) == [y \in DOMAIN f \ {x} |-> f[y]]

Goes(c, pc) == call' = [call EXCEPT ![c].pc = pc]

(* With a result or an error; what it held is gone. *)
Returns(c) == call' = [call EXCEPT ![c] = [Fresh EXCEPT !.pc = "returned"]]

-----------------------------------------------------------------------------
(* Those who hand out URLs: the mints of the coordinators, which give up   *)
(* when the listener cannot be bound, and ConnectOrigins, which goes on.   *)
MintAnyway(c) ==
  /\ call[c].pc = "fresh"
  /\ EnsureLoopback \/ BindFails
  /\ Goes(c, "minting")
  /\ UNCHANGED <<assembly, registry, helper, catalog>>

Mint(c) ==
  /\ call[c].pc = "fresh"
  /\ \/ EnsureLoopback /\ Goes(c, "minting")
     \/ BindFails /\ Returns(c)
  /\ UNCHANGED <<assembly, registry, helper, catalog>>

Ask(c) ==
  /\ call[c].pc = "fresh"
  /\ \/ EnsureLoopback /\ Goes(c, "asking")
     \/ BindFails /\ call' = [call EXCEPT ![c].pc = "asking",
                                          ![c].failed = TRUE]
  /\ UNCHANGED <<assembly, registry, helper, catalog>>

(* URLFor and Origin. *)
HandOut(c) ==
  /\ \/ call[c].pc = "minting"
        /\ call' = [call EXCEPT ![c].pc = "minted", ![c].origin = Origin]
     \/ call[c].pc = "asking"
        /\ call' = [call EXCEPT ![c].pc = "asked", ![c].origin = Origin]
  /\ UNCHANGED <<loopback, assembly, registry, helper, catalog>>

(* The loopback server's other calls.  What was asked for before the base  *)
(* URL changed or the listener was taken need not be there any more.       *)
Unsettled ==
  call' = [c \in Calls |->
             [call[c] EXCEPT !.steady = @ /\ call[c].pc \notin
                               {"minting", "minted", "asking", "asked"}]]

ServerStep ==
  /\ \/ /\ \/ \E url \in Bases \cup {"none"} : SetBaseURL(url)
           \/ StopTakes
        /\ Unsettled
     \/ /\ \E p \in Ports : Shutdown(p)
        /\ UNCHANGED call
     \/ \E o \in Trusted, c \in Calls :
          call[c].pc = "fresh" /\ AddTrustedOrigins(o) /\ Returns(c)
  /\ UNCHANGED <<assembly, registry, helper, catalog>>

-----------------------------------------------------------------------------
(* The resource registry: the record, and after the unlock the list. *)
InFlight(u) == \E c \in Calls : /\ call[c].uri = u
                                /\ call[c].pc \in {"adding", "baking", "removing"}

Overlap(u) == overlapped' = IF InFlight(u) THEN overlapped \cup {u}
                                           ELSE overlapped \ {u}

(* RegisterAppResource, once every helper is registered. *)
RegisterResource(c) ==
  LET u == call[c].uri
  IN  /\ call[c].pc = "helpers"
      /\ call[c].next > Helpers[u]
      /\ record' = Put(record, u, [domain |-> resolver, connect |-> "static"])
      /\ reachable' = TRUE
      /\ Overlap(u)
      /\ call' = [call EXCEPT ![c].pc = "adding", ![c].next = 1,
                              ![c].domain = resolver, ![c].origin = "static"]
      /\ UNCHANGED <<loopback, assembly, listed, helper, catalog>>

(* SetAppResourceConnectDomains; one that fails still enters the server.   *)
Bake(c, u) ==
  /\ call[c].pc = "asked"
  /\ reachable' = TRUE
  /\ \/ /\ u \in DOMAIN record
        /\ record' = [record EXCEPT ![u].connect = call[c].origin]
        /\ Overlap(u)
        /\ call' = [call EXCEPT ![c].pc = "baking", ![c].uri = u,
                                ![c].domain = record[u].domain]
     \/ /\ u \notin DOMAIN record
        /\ Returns(c)
        /\ UNCHANGED <<record, overlapped>>
  /\ UNCHANGED <<loopback, assembly, listed, helper, catalog>>

(* From the n-th tool on that a view is to be attached to. *)
AttachFrom(c, n) ==
  IF n <= Len(AttachTo[call[c].uri])
    THEN call' = [call EXCEPT ![c].pc = "attaching", ![c].next = n]
    ELSE Returns(c)

AddResource(c) ==
  /\ call[c].pc \in {"adding", "baking"}
  /\ listed' = Put(listed, call[c].uri, [domain |-> call[c].domain,
                                       connect |-> call[c].origin])
  /\ \/ call[c].pc = "adding" /\ AttachFrom(c, 1)
     \/ call[c].pc = "baking" /\ Returns(c)
  /\ UNCHANGED <<loopback, assembly, reachable, record, overlapped, helper,
                 catalog>>

(* UnregisterAppResource: nothing to do for a server without an entry. *)
UnregisterAppResource(c, u) ==
  /\ call[c].pc = "fresh"
  /\ \/ /\ reachable
        /\ record' = Minus(record, u)
        /\ reachable' = (DOMAIN record # {u})
        /\ Overlap(u)
        /\ call' = [call EXCEPT ![c].pc = "removing", ![c].uri = u]
     \/ /\ ~reachable
        /\ Returns(c)
        /\ UNCHANGED <<record, reachable, overlapped>>
  /\ UNCHANGED <<loopback, assembly, listed, helper, catalog>>

RemoveRecordOnly(c) ==
  /\ call[c].pc = "removing"
  /\ Returns(c)
  /\ UNCHANGED <<loopback, assembly, registry, helper, catalog>>

RemoveResources(c) ==
  /\ call[c].pc = "removing"
  /\ listed' = Minus(listed, call[c].uri)
  /\ Returns(c)
  /\ UNCHANGED <<loopback, assembly, reachable, record, overlapped, helper,
                 catalog>>

-----------------------------------------------------------------------------
(* RegisterAppView. *)
RegisterAppView(c, u) ==
  /\ call[c].pc = "fresh"
  /\ IF \A i \in DOMAIN AttachTo[u] : meta[AttachTo[u][i]] # "absent"
       THEN call' = [call EXCEPT ![c].uri = u, ![c].pc = "helpers"]
       ELSE Returns(c)
  /\ UNCHANGED <<loopback, assembly, registry, helper, catalog>>

HasHelperOrOneMore(c) == /\ call[c].pc = "helpers"
                         /\ call[c].next <= Helpers[call[c].uri] + 1

HasHelper(c) == /\ call[c].pc = "helpers"
                /\ call[c].next <= Helpers[call[c].uri]

(* RegisterAppTool replaces a tool of that name. *)
RegisterHelper(c) ==
  LET u == call[c].uri
  IN  /\ HasHelper(c) /\ registrar
      /\ helper' = [helper EXCEPT ![u] = IF @ < call[c].next THEN call[c].next
                                                            ELSE @]
      /\ call' = [call EXCEPT ![c].next = @ + 1]
      /\ UNCHANGED <<loopback, assembly, registry, catalog>>

SkipHelper(c) ==
  /\ HasHelper(c)
  /\ call' = [call EXCEPT ![c].next = @ + 1]
  /\ UNCHANGED <<loopback, assembly, registry, helper, catalog>>

(* No registrar, or one that fails. *)
HelperFails(c) ==
  /\ HasHelper(c)
  /\ Returns(c)
  /\ UNCHANGED <<loopback, assembly, registry, helper, catalog>>

(* The catalog entry is written without a lock, the association under one. *)
AttachAppMeta(c) ==
  /\ call[c].pc = "attaching"
  /\ meta' = [meta EXCEPT ![AttachTo[call[c].uri][call[c].next]] = call[c].uri]
  /\ Goes(c, "noting")
  /\ UNCHANGED <<loopback, assembly, registry, helper, appViewsByTool>>

Associate(c) ==
  /\ call[c].pc = "noting"
  /\ appViewsByTool' = [appViewsByTool EXCEPT
                          ![AttachTo[call[c].uri][call[c].next]] = call[c].uri]
  /\ AttachFrom(c, call[c].next + 1)
  /\ UNCHANGED <<loopback, assembly, registry, helper, meta>>

-----------------------------------------------------------------------------
(* The assembly: it adds tools to the catalog, installs a tool registrar   *)
(* or takes it away, and records or deletes associations of its own.       *)
AddEntry(t) ==
  /\ meta[t] = "absent"
  /\ meta' = [meta EXCEPT ![t] = "none"]
  /\ UNCHANGED <<loopback, assembly, registry, helper, appViewsByTool, call>>

SetToolRegistrar ==
  /\ registrar' = ~registrar
  /\ UNCHANGED <<loopback, resolver, registry, helper, catalog, call>>

SetViewDomainResolver(c) ==
  /\ call[c].pc = "fresh"
  /\ \E d \in {Domain, "none"} : resolver' = d
  /\ Returns(c)
  /\ UNCHANGED <<loopback, registrar, registry, helper, catalog>>

SetAppViewInfo(c, t) ==
  /\ call[c].pc = "fresh"
  /\ appViewsByTool' = [appViewsByTool EXCEPT ![t] = "other"]
  /\ Returns(c)
  /\ UNCHANGED <<loopback, assembly, registry, helper, meta>>

DeleteAppViewInfo(c, t) ==
  /\ call[c].pc = "fresh"
  /\ appViewsByTool' = [appViewsByTool EXCEPT ![t] = "none"]
  /\ Returns(c)
  /\ UNCHANGED <<loopback, assembly, registry, helper, meta>>

AppNext ==
  \/ \E c \in Calls :
       \/ SetViewDomainResolver(c)
       \/ Mint(c) \/ Ask(c) \/ HandOut(c)
       \/ \E u \in Views : \/ Bake(c, u) \/ UnregisterAppResource(c, u)
                           \/ RegisterAppView(c, u)
       \/ RegisterHelper(c) \/ HelperFails(c) \/ RegisterResource(c)
       \/ AddResource(c) \/ RemoveResources(c)
       \/ AttachAppMeta(c) \/ Associate(c)
       \/ \E t \in Tools : SetAppViewInfo(c, t) \/ DeleteAppViewInfo(c, t)
  \/ \E t \in Tools : AddEntry(t)
  \/ SetToolRegistrar
  \/ ServerStep

AppSpec == AppInit /\ [][AppNext]_appVars

-----------------------------------------------------------------------------
(* Properties.                                                             *)

(* No port leaks: whatever listens is the server's own listener or one     *)
(* that a Stop is about to shut down, so that a later Stop closes          *)
(* everything, whoever bound it and however the calls were interleaved     *)
(* (EnsureLoopback: idempotent; Stop).                                     *)
NoOrphanListener ==
  bound = stopping \cup ({listener} \ {"none"})

(* A URL or origin that was handed out can be reached for as long as       *)
(* nobody changes the base URL or stops the server: it is the base URL, or *)
(* something listens there.  ConnectOrigins answers this only when its     *)
(* EnsureLoopback has bound a port, the mints always (Mint: the URL is     *)
(* always reachable; ConnectOrigins).                                      *)
Reachable(o) == IF baseURL # "none" THEN o = baseURL
                                   ELSE o = listener /\ o \in bound

HandedOutReachable ==
  \A c \in Calls : call[c].pc \in {"minted", "asked"} /\ call[c].steady
                     /\ ~call[c].failed => Reachable(call[c].origin)

(* A registration that fails half-way leaves no view half wired: whatever  *)
(* shows a view - the registry, the server's list, a catalog entry, an     *)
(* association - finds all of its helper tools (RegisterAppView: a failed  *)
(* registration never leaves partial wiring behind).                       *)
Shown(u) == \/ u \in DOMAIN record \cup DOMAIN listed
            \/ \E t \in Tools : meta[t] = u \/ appViewsByTool[t] = u

NoPartialWiring == \A u \in Views : Shown(u) => helper[u] = Helpers[u]

(* The server lists what the registry has on record, under the connect     *)
(* domains set last, whenever the last change of a resource ran alone,     *)
(* whatever overlaps went before it (SetAppResourceConnectDomains: the     *)
(* last write wins; UnregisterAppResource).                                *)
ListSettles ==
  \A u \in Views \ overlapped : ~InFlight(u) =>
    /\ u \in DOMAIN record <=> u \in DOMAIN listed
    /\ u \in DOMAIN record => listed[u] = record[u]

=============================================================================
