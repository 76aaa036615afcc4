--------------------------- MODULE AppViewsProofs ---------------------------
(***************************************************************************)
(* Theorems about AppViews and its loopback server, for any number of      *)
(* calls, views, tools, helpers, ports and base URLs.                      *)
(***************************************************************************)
EXTENDS AppViews, TLAPS

CallRecords ==
  [pc : {"fresh", "minting", "minted", "asking", "asked", "helpers", "adding",
         "baking", "removing", "attaching", "noting", "returned"},
   uri : Views \cup {"none"}, next : Nat,
   origin : Origins \cup {"static", "none"},
   domain : {Domain, "none"}, steady : BOOLEAN, failed : BOOLEAN]

OnView == {"helpers", "adding", "baking", "removing", "attaching", "noting"}

(* What a call has in its local variables, by how far it has got. *)
Position(k) ==
  /\ k.pc \in OnView => k.uri \in Views
  /\ k.pc \in {"asked", "adding", "baking"} => k.origin \in Origins \cup {"static"}
  /\ k.pc = "fresh" => k.next = 1
  /\ k.pc = "helpers" => k.next \in 1 .. Helpers[k.uri] + 1
  /\ k.pc \in {"attaching", "noting"} => k.next \in 1 .. Len(AttachTo[k.uri])

AssemblyType == registrar \in BOOLEAN /\ resolver \in {Domain, "none"}

RegistryType ==
  /\ reachable \in BOOLEAN
  /\ DOMAIN record \subseteq Views /\ record \in [DOMAIN record -> Entry]
  /\ DOMAIN listed \subseteq Views /\ listed \in [DOMAIN listed -> Entry]
  /\ overlapped \subseteq Views

HelperType == helper \in [Views -> Nat] /\ \A u \in Views : helper[u] <= Helpers[u]

CatalogType ==
  /\ meta \in [Tools -> Views \cup {"none", "absent"}]
  /\ appViewsByTool \in [Tools -> Views \cup {"none", "other"}]

CallsType == call \in [Calls -> CallRecords] /\ \A c \in Calls : Position(call[c])

TypeInv == /\ LoopbackTypeOK /\ AssemblyType /\ RegistryType
           /\ HelperType /\ CatalogType /\ CallsType

-----------------------------------------------------------------------------
(* Type correctness.                                                       *)

LEMMA PutType ==
  ASSUME NEW f, NEW S, NEW x \in S, NEW T, NEW v \in T,
         DOMAIN f \subseteq S, f \in [DOMAIN f -> T]
  PROVE  /\ DOMAIN Put(f, x, v) = DOMAIN f \cup {x}
         /\ DOMAIN Put(f, x, v) \subseteq S
         /\ Put(f, x, v) \in [DOMAIN Put(f, x, v) -> T]
BY DEF Put

LEMMA MinusType ==
  ASSUME NEW f, NEW S, NEW x, NEW T, DOMAIN f \subseteq S, f \in [DOMAIN f -> T]
  PROVE  /\ DOMAIN Minus(f, x) = DOMAIN f \ {x}
         /\ DOMAIN Minus(f, x) \subseteq S
         /\ Minus(f, x) \in [DOMAIN Minus(f, x) -> T]
BY DEF Minus

(* A step of the loopback server keeps its own types. *)
LEMMA LoopbackType ==
  ASSUME LoopbackTypeOK,
         \/ EnsureLoopback \/ BindFails \/ StopTakes \/ UNCHANGED loopback
         \/ \E url \in Bases \cup {"none"} : SetBaseURL(url)
         \/ \E p \in Ports : Shutdown(p)
         \/ \E o \in Trusted : AddTrustedOrigins(o)
  PROVE  LoopbackTypeOK'
<1>1. ASSUME NEW o \in Trusted, AddTrustedOrigins(o)
      PROVE  LoopbackTypeOK'
  BY <1>1 DEF LoopbackTypeOK, AddTrustedOrigins
<1>2. CASE EnsureLoopback \/ BindFails \/ UNCHANGED loopback
  BY <1>2 DEF LoopbackTypeOK, EnsureLoopback, BindFails, Bind, loopback
<1>3. CASE \/ StopTakes \/ \E url \in Bases \cup {"none"} : SetBaseURL(url)
           \/ \E p \in Ports : Shutdown(p)
  BY <1>3 DEF LoopbackTypeOK, StopTakes, SetBaseURL, Shutdown
<1>4. QED
  BY <1>1, <1>2, <1>3

(* A step that changes one call keeps the types if the new record has them. *)
LEMMA CallType ==
  ASSUME CallsType, NEW c \in Calls, NEW k \in CallRecords, Position(k),
         call' = [call EXCEPT ![c] = k]
  PROVE  CallsType'
BY DEF CallsType, CallRecords

LEMMA ReturnsType ==
  ASSUME CallsType, NEW c \in Calls, Returns(c)
  PROVE  CallsType'
<1> DEFINE k == [Fresh EXCEPT !.pc = "returned"]
<1>1. k \in CallRecords /\ Position(k)
  BY DEF Fresh, CallRecords, Position, OnView
<1>2. call' = [call EXCEPT ![c] = k]
  BY DEF Returns
<1>3. QED
  BY <1>1, <1>2, CallType

LEMMA AttachType ==
  ASSUME CallsType, NEW c \in Calls, NEW n \in Nat \ {0}, AttachFrom(c, n),
         call[c].uri \in Views
  PROVE  CallsType'
<1> DEFINE k == [call[c] EXCEPT !.pc = "attaching", !.next = n]
<1>0. call \in [Calls -> CallRecords]
  BY DEF CallsType
<1>1. CASE n <= Len(AttachTo[call[c].uri])
  <2>1. k \in CallRecords
    BY <1>0 DEF CallRecords
  <2>2. Len(AttachTo[call[c].uri]) \in Nat
    BY AppViewsAssumption
  <2>3. Position(k)
    BY <1>0, <1>1, <2>2 DEF Position, OnView, CallRecords
  <2>4. call' = [call EXCEPT ![c] = k]
    BY <1>0, <1>1 DEF AttachFrom
  <2>5. QED
    BY <2>1, <2>3, <2>4, CallType
<1>2. CASE ~(n <= Len(AttachTo[call[c].uri]))
  BY <1>2, ReturnsType DEF AttachFrom
<1>3. QED
  BY <1>1, <1>2

(* One lemma for each group of actions. *)
HandingOut(c) == Mint(c) \/ Ask(c) \/ HandOut(c)

LEMMA OriginType ==
  ASSUME LoopbackTypeOK
  PROVE  Origin \in Origins
BY DEF LoopbackTypeOK, Origin, Origins, loopbackAddr

LEMMA HandingOutType ==
  ASSUME TypeInv, NEW c \in Calls, HandingOut(c)
  PROVE  TypeInv'
<1>1. LoopbackTypeOK'
  BY LoopbackType DEF HandingOut, Mint, Ask, HandOut, TypeInv
<1>2. CallsType'
  <2>1. CASE Returns(c)
    BY <2>1, ReturnsType DEF TypeInv
  <2>2. CASE ~Returns(c)
    <3>1. Origin \in Origins /\ call \in [Calls -> CallRecords]
      BY OriginType DEF TypeInv, CallsType
    <3>2. call' \in [Calls -> CallRecords]
      BY <2>2, <3>1 DEF HandingOut, Mint, Ask, HandOut, Goes, CallRecords
    <3>3. /\ \A d \in Calls \ {c} : call'[d] = call[d]
          /\ call'[c].pc \in {"minting", "minted", "asking", "asked"}
          /\ call'[c].pc = "asked" => call'[c].origin \in Origins
      BY <2>2, <3>1 DEF HandingOut, Mint, Ask, HandOut, Goes, CallRecords
    <3>4. \A d \in Calls : Position(call'[d])
      BY <3>3 DEF TypeInv, CallsType, Position, OnView
    <3>5. QED
      BY <3>2, <3>4 DEF CallsType
  <2>3. QED
    BY <2>1, <2>2
<1>3. UNCHANGED <<assembly, registry, helper, catalog>>
  BY DEF HandingOut, Mint, Ask, HandOut
<1>4. QED
  BY <1>1, <1>2, <1>3 DEF TypeInv, AssemblyType, RegistryType, HelperType,
     CatalogType, assembly, registry, catalog

LEMMA ServerType == TypeInv /\ ServerStep => TypeInv'
<1> SUFFICES ASSUME TypeInv, ServerStep
             PROVE  TypeInv'
  OBVIOUS
<1>1. LoopbackTypeOK'
  BY LoopbackType DEF ServerStep, TypeInv
<1>2. CallsType'
  <2>1. CASE UNCHANGED call
    BY <2>1 DEF TypeInv, CallsType
  <2>2. CASE Unsettled
    <3>1. call \in [Calls -> CallRecords]
      BY DEF TypeInv, CallsType
    <3>2. /\ call' \in [Calls -> CallRecords]
          /\ \A d \in Calls :
               /\ call'[d].pc = call[d].pc /\ call'[d].uri = call[d].uri
               /\ call'[d].next = call[d].next
               /\ call'[d].origin = call[d].origin
      <4> DEFINE s(d) == call[d].steady /\ call[d].pc \notin
                           {"minting", "minted", "asking", "asked"}
      <4>1. call' = [d \in Calls |-> [call[d] EXCEPT !.steady = s(d)]]
        BY <2>2 DEF Unsettled
      <4>2. \A d \in Calls : s(d) \in BOOLEAN
        OBVIOUS
      <4> HIDE DEF s
      <4>3. QED
        BY <3>1, <4>1, <4>2 DEF CallRecords
    <3>3. \A d \in Calls : Position(call'[d])
      BY <3>2 DEF TypeInv, CallsType, Position
    <3>4. QED
      BY <3>2, <3>3 DEF CallsType
  <2>3. CASE \E c \in Calls : Returns(c)
    BY <2>3, ReturnsType DEF TypeInv
  <2>4. QED
    BY <2>1, <2>2, <2>3 DEF ServerStep
<1>3. UNCHANGED <<assembly, registry, helper, catalog>>
  BY DEF ServerStep
<1>4. QED
  BY <1>1, <1>2, <1>3 DEF TypeInv, AssemblyType, RegistryType, HelperType,
     CatalogType, assembly, registry, catalog

(* A call of the registry, by the parts it changes.                        *)
LEMMA RegistryActionType ==
  ASSUME TypeInv, RegistryType', CallsType',
         UNCHANGED <<loopback, assembly, helper, catalog>>
  PROVE  TypeInv'
BY DEF TypeInv, LoopbackTypeOK, AssemblyType, HelperType, CatalogType, loopback,
   assembly, catalog

LEMMA OverlapType ==
  ASSUME RegistryType, NEW u \in Views, Overlap(u)
  PROVE  overlapped' \subseteq Views
BY DEF RegistryType, Overlap

LEMMA RegisterResourceType ==
  ASSUME TypeInv, NEW c \in Calls, RegisterResource(c)
  PROVE  TypeInv'
<1> DEFINE u == call[c].uri
           e == [domain |-> resolver, connect |-> "static"]
<1>1. u \in Views /\ call \in [Calls -> CallRecords]
  BY DEF TypeInv, CallsType, Position, OnView, RegisterResource
<1>2. RegistryType'
  <2>1. e \in Entry
    BY DEF TypeInv, AssemblyType, Entry
  <2>2. record' = Put(record, u, e) /\ Overlap(u) /\ reachable' = TRUE
        /\ UNCHANGED listed
    BY DEF RegisterResource
  <2>3. overlapped' \subseteq Views
    BY <1>1, <2>2, OverlapType DEF TypeInv
  <2>4. DOMAIN record' \subseteq Views /\ record' \in [DOMAIN record' -> Entry]
    <3>1. DOMAIN record \subseteq Views /\ record \in [DOMAIN record -> Entry]
      BY DEF TypeInv, RegistryType
    <3> HIDE DEF u, e
    <3>2. QED
      BY <1>1, <2>1, <2>2, <3>1, PutType
  <2>5. QED
    BY <2>2, <2>3, <2>4 DEF TypeInv, RegistryType
<1>3. CallsType'
  <2>1. call' \in [Calls -> CallRecords]
    <3>1. resolver \in {Domain, "none"}
      BY DEF TypeInv, AssemblyType
    <3> DEFINE k == [call[c] EXCEPT !.pc = "adding", !.next = 1,
                                    !.domain = resolver, !.origin = "static"]
    <3>2. k \in CallRecords
      BY <1>1, <3>1 DEF CallRecords
    <3>3. call' = [call EXCEPT ![c] = k]
      BY DEF RegisterResource
    <3>4. QED
      BY <1>1, <3>2, <3>3
  <2>2. /\ \A d \in Calls \ {c} : call'[d] = call[d]
        /\ call'[c].pc = "adding" /\ call'[c].uri = u
        /\ call'[c].origin = "static"
    BY <1>1 DEF RegisterResource, CallRecords
  <2>3. \A d \in Calls : Position(call'[d])
    BY <1>1, <2>2 DEF TypeInv, CallsType, Position, OnView
  <2>4. QED
    BY <2>1, <2>3 DEF CallsType
<1>4. QED
  BY <1>2, <1>3, RegistryActionType DEF RegisterResource

LEMMA BakeType ==
  ASSUME TypeInv, NEW c \in Calls, NEW u \in Views, Bake(c, u)
  PROVE  TypeInv'
<1>0. call \in [Calls -> CallRecords] /\ call[c].origin \in Origins \cup {"static"}
  BY DEF TypeInv, CallsType, Position, Bake
<1>1. CASE u \notin DOMAIN record
  <2>1. RegistryType' /\ Returns(c)
    BY <1>1 DEF Bake, TypeInv, RegistryType
  <2>2. QED
    BY <2>1, ReturnsType, RegistryActionType DEF Bake, TypeInv
<1>2. CASE u \in DOMAIN record
  <2>1. record[u] \in Entry
    BY <1>2 DEF TypeInv, RegistryType
  <2>2. record' \in [DOMAIN record -> Entry] /\ DOMAIN record' = DOMAIN record
    BY <1>0, <1>2, <2>1 DEF Bake, TypeInv, RegistryType, Entry
  <2>3. RegistryType'
    BY <1>2, <2>2, OverlapType DEF Bake, TypeInv, RegistryType
  <2>4. CallsType'
    <3>1. call' \in [Calls -> CallRecords]
      BY <1>0, <1>2, <2>1 DEF Bake, CallRecords, Entry
    <3>2. /\ \A d \in Calls \ {c} : call'[d] = call[d]
          /\ call'[c].pc = "baking" /\ call'[c].uri = u
          /\ call'[c].origin = call[c].origin
      BY <1>0, <1>2 DEF Bake, CallRecords
    <3>3. \A d \in Calls : Position(call'[d])
      BY <1>0, <3>2 DEF TypeInv, CallsType, Position, OnView
    <3>4. QED
      BY <3>1, <3>3 DEF CallsType
  <2>5. QED
    BY <2>3, <2>4, RegistryActionType DEF Bake
<1>3. QED
  BY <1>1, <1>2

LEMMA AddResourceType ==
  ASSUME TypeInv, NEW c \in Calls, AddResource(c)
  PROVE  TypeInv'
<1> DEFINE e == [domain |-> call[c].domain, connect |-> call[c].origin]
<1>1. call[c].uri \in Views /\ e \in Entry
  BY DEF TypeInv, CallsType, CallRecords, Position, OnView, AddResource, Entry
<1>2. RegistryType'
  <2>1. DOMAIN listed' \subseteq Views /\ listed' \in [DOMAIN listed' -> Entry]
    <3>1. DOMAIN listed \subseteq Views /\ listed \in [DOMAIN listed -> Entry]
      BY DEF TypeInv, RegistryType
    <3>2. listed' = Put(listed, call[c].uri, e)
      BY DEF AddResource
    <3> HIDE DEF e
    <3>3. QED
      BY <1>1, <3>1, <3>2, PutType
  <2>2. QED
    BY <2>1 DEF TypeInv, RegistryType, AddResource
<1>3. CallsType'
  BY <1>1, AttachType, ReturnsType DEF AddResource, TypeInv
<1>4. QED
  BY <1>2, <1>3, RegistryActionType DEF AddResource

LEMMA UnregisterType ==
  ASSUME TypeInv, NEW c \in Calls,
         \/ RemoveResources(c)
         \/ \E u \in Views : UnregisterAppResource(c, u)
  PROVE  TypeInv'
<1>0. call \in [Calls -> CallRecords] /\ RegistryType /\ CallsType
  BY DEF TypeInv, CallsType
<1>1. CASE RemoveResources(c)
  <2>1. DOMAIN listed' \subseteq Views /\ listed' \in [DOMAIN listed' -> Entry]
    BY <1>0, <1>1, MinusType DEF RegistryType, RemoveResources
  <2>2. RegistryType'
    BY <1>0, <1>1, <2>1 DEF RegistryType, RemoveResources
  <2>3. QED
    BY <1>0, <1>1, <2>2, ReturnsType, RegistryActionType DEF RemoveResources
<1>2. ASSUME NEW u \in Views, UnregisterAppResource(c, u)
      PROVE  TypeInv'
  <2>1. CASE Returns(c)
    <3>1. UNCHANGED <<record, listed, reachable, overlapped>> \/ reachable
      BY <1>2 DEF UnregisterAppResource
    <3>2. CASE UNCHANGED <<record, listed, reachable, overlapped>>
      BY <1>0, <1>2, <2>1, <3>2, ReturnsType, RegistryActionType
         DEF RegistryType, UnregisterAppResource
    <3>3. CASE reachable
      <4>1. call'[c].pc = "removing"
        BY <1>0, <1>2, <3>3 DEF UnregisterAppResource, CallRecords
      <4>2. call'[c].pc = "returned"
        BY <1>0, <2>1 DEF Returns, Fresh
      <4>3. QED
        BY <4>1, <4>2
    <3>4. QED
      BY <3>1, <3>2, <3>3
  <2>2. CASE ~Returns(c)
    <3>1. DOMAIN record' \subseteq Views /\ record' \in [DOMAIN record' -> Entry]
      <4>1. record' = Minus(record, u)
        BY <1>2, <2>2 DEF UnregisterAppResource
      <4>2. DOMAIN record \subseteq Views /\ record \in [DOMAIN record -> Entry]
        BY <1>0 DEF RegistryType
      <4>3. QED
        BY <4>1, <4>2, MinusType
    <3>2. RegistryType'
      BY <1>0, <1>2, <2>2, <3>1, OverlapType
         DEF RegistryType, UnregisterAppResource
    <3>3. call' \in [Calls -> CallRecords]
      BY <1>0, <1>2, <2>2 DEF UnregisterAppResource, CallRecords
    <3>4. /\ \A d \in Calls \ {c} : call'[d] = call[d]
          /\ call'[c].pc = "removing" /\ call'[c].uri = u
      BY <1>0, <1>2, <2>2 DEF UnregisterAppResource, CallRecords
    <3>5. CallsType'
      BY <1>0, <3>3, <3>4 DEF CallsType, Position, OnView
    <3>6. QED
      BY <1>2, <3>2, <3>5, RegistryActionType DEF UnregisterAppResource
  <2>3. QED
    BY <2>1, <2>2
<1>3. QED
  BY <1>1, <1>2

LEMMA HelperActionType ==
  ASSUME TypeInv, NEW c \in Calls,
         \/ \E u \in Views : RegisterAppView(c, u)
         \/ RegisterHelper(c) \/ HelperFails(c)
  PROVE  TypeInv'
<1>0. CallsType /\ call \in [Calls -> CallRecords] /\ HelperType
  BY DEF TypeInv, CallsType
<1>1. LoopbackTypeOK' /\ AssemblyType' /\ RegistryType' /\ CatalogType'
  BY DEF TypeInv, RegisterAppView, RegisterHelper, HelperFails, loopback,
     assembly, registry, catalog, LoopbackTypeOK, AssemblyType, RegistryType,
     CatalogType
<1>2. CASE Returns(c) /\ UNCHANGED helper
  BY <1>0, <1>1, <1>2, ReturnsType DEF TypeInv, HelperType
<1>3. ASSUME NEW u \in Views, RegisterAppView(c, u), ~Returns(c)
      PROVE  TypeInv'
  <2>1. call' \in [Calls -> CallRecords]
    BY <1>0, <1>3 DEF RegisterAppView, CallRecords
  <2>2. /\ \A d \in Calls \ {c} : call'[d] = call[d]
        /\ call'[c].pc = "helpers" /\ call'[c].uri = u /\ call'[c].next = 1
    BY <1>0, <1>3 DEF RegisterAppView, CallRecords, CallsType, Position
  <2>3. Helpers[u] \in Nat
    BY AppViewsAssumption
  <2>4. CallsType'
    BY <1>0, <2>1, <2>2, <2>3 DEF CallsType, Position, OnView
  <2>5. QED
    BY <1>0, <1>1, <1>3, <2>4 DEF TypeInv, HelperType, RegisterAppView
<1>4. CASE RegisterHelper(c)
  <2> DEFINE u == call[c].uri
             n == call[c].next
  <2>1. /\ u \in Views /\ n \in Nat /\ n >= 1 /\ n <= Helpers[u]
        /\ Helpers[u] \in Nat
    BY <1>0, <1>4, AppViewsAssumption DEF RegisterHelper, HasHelper, CallsType,
       Position, OnView, CallRecords
  <2>2. helper' = [helper EXCEPT ![u] = IF helper[u] < n THEN n ELSE helper[u]]
    BY <1>4 DEF RegisterHelper
  <2>3. HelperType'
    BY <1>0, <2>1, <2>2 DEF HelperType
  <2>4. call' \in [Calls -> CallRecords]
    BY <1>0, <1>4 DEF RegisterHelper, CallRecords
  <2>5. /\ \A d \in Calls \ {c} : call'[d] = call[d]
        /\ call'[c].pc = "helpers" /\ call'[c].uri = u /\ call'[c].next = n + 1
    BY <1>0, <1>4 DEF RegisterHelper, HasHelper, CallRecords
  <2>6. CallsType'
    BY <1>0, <2>1, <2>4, <2>5 DEF CallsType, Position, OnView
  <2>7. QED
    BY <1>1, <2>3, <2>6 DEF TypeInv
<1>5. QED
  BY <1>2, <1>3, <1>4 DEF RegisterAppView, HelperFails

LEMMA CatalogActionType ==
  ASSUME TypeInv, NEW c \in Calls,
         \/ AttachAppMeta(c) \/ Associate(c)
         \/ \E t \in Tools : SetAppViewInfo(c, t) \/ DeleteAppViewInfo(c, t)
  PROVE  TypeInv'
<1>0. CallsType /\ call \in [Calls -> CallRecords] /\ CatalogType
  BY DEF TypeInv, CallsType
<1>1. LoopbackTypeOK' /\ AssemblyType' /\ RegistryType' /\ HelperType'
  BY DEF TypeInv, AttachAppMeta, Associate, SetAppViewInfo, DeleteAppViewInfo,
     loopback, assembly, registry, LoopbackTypeOK, AssemblyType, RegistryType,
     HelperType
<1>2. CASE AttachAppMeta(c) \/ Associate(c)
  <2>1. /\ call[c].uri \in Views
        /\ call[c].next \in Nat /\ call[c].next + 1 \in Nat \ {0}
    BY <1>0, <1>2 DEF AttachAppMeta, Associate, CallsType, Position, OnView,
       CallRecords
  <2>2. CatalogType'
    BY <1>0, <1>2, <2>1 DEF AttachAppMeta, Associate, CatalogType
  <2>3. CASE Associate(c)
    BY <1>0, <1>1, <2>1, <2>2, <2>3, AttachType DEF Associate, TypeInv
  <2>4. CASE AttachAppMeta(c)
    <3>1. call' \in [Calls -> CallRecords]
      BY <1>0, <2>4 DEF AttachAppMeta, Goes, CallRecords
    <3>2. /\ \A d \in Calls \ {c} : call'[d] = call[d]
          /\ call'[c].pc = "noting" /\ call[c].pc = "attaching"
          /\ call'[c].uri = call[c].uri /\ call'[c].next = call[c].next
      BY <1>0, <2>4 DEF AttachAppMeta, Goes, CallRecords
    <3>3. CallsType'
      BY <1>0, <3>1, <3>2 DEF CallsType, Position, OnView
    <3>4. QED
      BY <1>1, <2>2, <3>3 DEF TypeInv
  <2>5. QED
    BY <1>2, <2>3, <2>4
<1>3. CASE \E t \in Tools : SetAppViewInfo(c, t) \/ DeleteAppViewInfo(c, t)
  <2>1. CatalogType'
    BY <1>0, <1>3 DEF SetAppViewInfo, DeleteAppViewInfo, CatalogType
  <2>2. QED
    BY <1>0, <1>1, <1>3, <2>1, ReturnsType
       DEF SetAppViewInfo, DeleteAppViewInfo, TypeInv
<1>4. QED
  BY <1>2, <1>3

LEMMA AssemblyActionType ==
  ASSUME TypeInv,
         \/ \E t \in Tools : AddEntry(t)
         \/ SetToolRegistrar
         \/ \E c \in Calls : SetViewDomainResolver(c)
         \/ UNCHANGED appVars
  PROVE  TypeInv'
<1>0. CallsType
  BY DEF TypeInv
<1>1. LoopbackTypeOK' /\ RegistryType' /\ HelperType'
  BY DEF TypeInv, AddEntry, SetToolRegistrar, SetViewDomainResolver, appVars,
     loopback, registry, LoopbackTypeOK, RegistryType, HelperType
<1>2. AssemblyType'
  BY DEF TypeInv, AddEntry, SetToolRegistrar, SetViewDomainResolver, appVars,
     assembly, AssemblyType
<1>3. CatalogType'
  BY DEF TypeInv, AddEntry, SetToolRegistrar, SetViewDomainResolver, appVars,
     catalog, CatalogType
<1>4. CallsType'
  <2>1. CASE \E c \in Calls : Returns(c)
    BY <1>0, <2>1, ReturnsType
  <2>2. CASE UNCHANGED call
    BY <1>0, <2>2 DEF CallsType
  <2>3. QED
    BY <2>1, <2>2 DEF AddEntry, SetToolRegistrar, SetViewDomainResolver, appVars
<1>5. QED
  BY <1>1, <1>2, <1>3, <1>4 DEF TypeInv

LEMMA InitType == AppInit => TypeInv
<1> SUFFICES ASSUME AppInit
             PROVE  TypeInv
  OBVIOUS
<1>1. LoopbackTypeOK /\ AssemblyType /\ CatalogType
  <2>1. LoopbackTypeOK
    BY DEF AppInit, LoopbackInit, LoopbackTypeOK
  <2>2. AssemblyType /\ CatalogType
    BY DEF AppInit, AssemblyType, CatalogType
  <2>3. QED
    BY <2>1, <2>2
<1>2. RegistryType
  <2>1. DOMAIN record = {} /\ DOMAIN listed = {}
    BY DEF AppInit
  <2>2. record = [u \in {} |-> u] /\ listed = [u \in {} |-> u]
    BY DEF AppInit
  <2>3. QED
    BY <2>1, <2>2 DEF AppInit, RegistryType
<1>3. HelperType
  BY AppViewsAssumption DEF AppInit, HelperType
<1>4. CallsType
  BY DEF AppInit, CallsType, CallRecords, Fresh, Position, OnView
<1>5. QED
  BY <1>1, <1>2, <1>3, <1>4 DEF TypeInv

(* The disjuncts of AppNext, as the lemmas group them. *)
LEMMA Steps ==
  ASSUME [AppNext]_appVars
  PROVE  \/ \E c \in Calls :
              \/ HandingOut(c)
              \/ \E u \in Views : Bake(c, u)
              \/ RegisterResource(c) \/ AddResource(c)
              \/ RemoveResources(c)
              \/ \E u \in Views : UnregisterAppResource(c, u)
              \/ \E u \in Views : RegisterAppView(c, u)
              \/ RegisterHelper(c) \/ HelperFails(c)
              \/ AttachAppMeta(c) \/ Associate(c)
              \/ \E t \in Tools : SetAppViewInfo(c, t) \/ DeleteAppViewInfo(c, t)
         \/ ServerStep
         \/ \E t \in Tools : AddEntry(t)
         \/ SetToolRegistrar
         \/ \E c \in Calls : SetViewDomainResolver(c)
         \/ UNCHANGED appVars
BY Zenon DEF AppNext, HandingOut

LEMMA TypeStep == TypeInv /\ [AppNext]_appVars => TypeInv'
<1> SUFFICES ASSUME TypeInv, [AppNext]_appVars
             PROVE  TypeInv'
  OBVIOUS
<1>1. CASE \E c \in Calls :
             \/ HandingOut(c)
             \/ \E u \in Views : Bake(c, u)
             \/ RegisterResource(c) \/ AddResource(c)
  BY <1>1, HandingOutType, BakeType, RegisterResourceType, AddResourceType
<1>2. CASE \E c \in Calls :
             \/ RemoveResources(c)
             \/ \E u \in Views : UnregisterAppResource(c, u)
  BY <1>2, UnregisterType
<1>3. CASE \E c \in Calls : \/ \E u \in Views : RegisterAppView(c, u)
                            \/ RegisterHelper(c) \/ HelperFails(c)
  BY <1>3, HelperActionType
<1>4. CASE \E c \in Calls :
             \/ AttachAppMeta(c) \/ Associate(c)
             \/ \E t \in Tools : SetAppViewInfo(c, t) \/ DeleteAppViewInfo(c, t)
  BY <1>4, CatalogActionType
<1>5. CASE \/ \E t \in Tools : AddEntry(t)
           \/ SetToolRegistrar
           \/ \E c \in Calls : SetViewDomainResolver(c)
           \/ UNCHANGED appVars
  BY <1>5, AssemblyActionType
<1>6. QED
  BY <1>1, <1>2, <1>3, <1>4, <1>5, ServerType, Steps

(* Every variable keeps its type, for any number of concurrent calls.      *)
THEOREM TypeCorrect == AppSpec => []TypeOK
<1>1. TypeInv => TypeOK
  <2> SUFFICES ASSUME TypeInv
               PROVE  TypeOK
    OBVIOUS
  <2>1. \A u \in Views : helper[u] \in 0 .. Helpers[u]
    BY AppViewsAssumption DEF TypeInv, HelperType
  <2>2. QED
    BY <2>1 DEF TypeInv, TypeOK, AssemblyType, RegistryType, CatalogType,
       CallsType, CallRecords
<1>2. QED
  BY <1>1, InitType, TypeStep, PTL DEF AppSpec

-----------------------------------------------------------------------------
(* The loopback server and those who hand out URLs.                        *)

(* What listens is accounted for, and the listener is not being stopped.   *)
LoopbackInv == LoopbackTypeOK /\ NoOrphanListener /\ listener \notin stopping

LEMMA LoopbackStep ==
  ASSUME LoopbackInv,
         \/ EnsureLoopback \/ BindFails \/ StopTakes \/ UNCHANGED loopback
         \/ \E url \in Bases \cup {"none"} : SetBaseURL(url)
         \/ \E p \in Ports : Shutdown(p)
         \/ \E o \in Trusted : AddTrustedOrigins(o)
  PROVE  LoopbackInv'
<1>1. LoopbackTypeOK'
  BY LoopbackType DEF LoopbackInv
<1>2. NoOrphanListener' /\ (listener \notin stopping)'
  <2>1. ASSUME NEW p \in Ports, Bind(p), ~Served
        PROVE  NoOrphanListener' /\ (listener \notin stopping)'
    BY <2>1, LoopbackAssumption DEF Bind, Served, LoopbackInv, NoOrphanListener
  <2>2. CASE StopTakes
    BY <2>2, LoopbackAssumption DEF StopTakes, LoopbackInv, NoOrphanListener,
       LoopbackTypeOK
  <2>3. CASE \E p \in Ports : Shutdown(p)
    BY <2>3 DEF Shutdown, LoopbackInv, NoOrphanListener
  <2>4. CASE UNCHANGED <<listener, bound, stopping>>
    BY <2>4 DEF LoopbackInv, NoOrphanListener
  <2>5. QED
    BY <2>1, <2>2, <2>3, <2>4 DEF EnsureLoopback, BindFails, SetBaseURL,
       AddTrustedOrigins, loopback
<1>3. QED
  BY <1>1, <1>2 DEF LoopbackInv

LEMMA LoopbackInvStep == LoopbackInv /\ [AppNext]_appVars => LoopbackInv'
<1> SUFFICES ASSUME LoopbackInv, [AppNext]_appVars
             PROVE  LoopbackInv'
  OBVIOUS
<1>1. \/ EnsureLoopback \/ BindFails \/ StopTakes \/ UNCHANGED loopback
      \/ \E url \in Bases \cup {"none"} : SetBaseURL(url)
      \/ \E p \in Ports : Shutdown(p)
      \/ \E o \in Trusted : AddTrustedOrigins(o)
  BY Steps DEF HandingOut, Mint, Ask, HandOut, Bake, RegisterResource,
     AddResource, RemoveResources, UnregisterAppResource, RegisterAppView,
     RegisterHelper, HelperFails, AttachAppMeta, Associate, SetAppViewInfo,
     DeleteAppViewInfo, AddEntry, SetToolRegistrar, SetViewDomainResolver,
     ServerStep, appVars
<1>2. QED
  BY <1>1, LoopbackStep

LEMMA LoopbackInvInit == AppInit => LoopbackInv
<1> SUFFICES ASSUME AppInit
             PROVE  LoopbackInv
  OBVIOUS
<1>1. LoopbackTypeOK
  BY InitType DEF TypeInv
<1>2. QED
  BY <1>1 DEF AppInit, LoopbackInit, LoopbackInv, NoOrphanListener

(* No listener is leaked, whoever binds and stops at the same time.        *)
THEOREM ListenersAccountedFor == AppSpec => []NoOrphanListener
<1>1. LoopbackInv => NoOrphanListener
  BY DEF LoopbackInv
<1>2. QED
  BY <1>1, LoopbackInvInit, LoopbackInvStep, PTL DEF AppSpec

Promised == {"minting", "minted", "asking", "asked"}

(* A call that has been served, or has a URL that is.                      *)
Backed(k) ==
  k.steady /\ ~k.failed =>
    /\ k.pc \in {"minting", "asking"} => Served
    /\ k.pc \in {"minted", "asked"} => Reachable(k.origin)

HandInv == TypeInv /\ LoopbackInv /\ \A c \in Calls : Backed(call[c])

LEMMA ReachableFacts ==
  ASSUME LoopbackInv
  PROVE  /\ Served => Reachable(Origin)
         /\ \A o : Reachable(o) => Served
BY LoopbackAssumption DEF LoopbackInv, LoopbackTypeOK, NoOrphanListener, Served,
   Reachable, Origin, loopbackAddr

(* Only setting the base URL and stopping take away what is reachable.     *)
LEMMA ReachableKept ==
  ASSUME LoopbackInv,
         \/ EnsureLoopback \/ BindFails \/ UNCHANGED loopback
         \/ \E p \in Ports : Shutdown(p)
         \/ \E o \in Trusted : AddTrustedOrigins(o)
  PROVE  /\ Served => Served'
         /\ \A o : Reachable(o) => Reachable(o)'
<1>1. CASE Bind(listener')  /\ ~Served
  BY <1>1, ReachableFacts
<1>2. CASE \E p \in Ports : Shutdown(p)
  BY <1>2 DEF Shutdown, LoopbackInv, Served, Reachable
<1>3. CASE UNCHANGED <<baseURL, listener, bound>>
  BY <1>3 DEF Served, Reachable
<1>4. QED
  BY <1>1, <1>2, <1>3 DEF EnsureLoopback, BindFails, Bind, AddTrustedOrigins,
     loopback

LEMMA ServedAfter ==
  ASSUME EnsureLoopback
  PROVE  Served'
BY LoopbackAssumption DEF EnsureLoopback, Served, Bind, loopback

LEMMA HandStep == HandInv /\ [AppNext]_appVars => HandInv'
<1> SUFFICES ASSUME HandInv, [AppNext]_appVars
             PROVE  \A d \in Calls : Backed(call[d])'
  BY TypeStep, LoopbackInvStep DEF HandInv
<1>0. /\ LoopbackInv /\ CallsType /\ call \in [Calls -> CallRecords]
      /\ \A d \in Calls : Backed(call[d])
  BY DEF HandInv, TypeInv, CallsType
(* Whoever hands nothing out in this step keeps what he was promised.      *)
<1>1. ASSUME \/ EnsureLoopback \/ BindFails \/ UNCHANGED loopback
             \/ \E p \in Ports : Shutdown(p)
             \/ \E o \in Trusted : AddTrustedOrigins(o),
             NEW d \in Calls,
             call'[d] = call[d] \/ call'[d].pc \notin Promised
      PROVE  Backed(call[d])'
  BY <1>0, <1>1, ReachableKept DEF Backed, Promised
<1>2. ASSUME NEW c \in Calls, HandingOut(c)
      PROVE  \A d \in Calls : Backed(call[d])'
  <2>1. \/ EnsureLoopback \/ BindFails \/ UNCHANGED loopback
    BY <1>2 DEF HandingOut, Mint, Ask, HandOut
  <2>2. \A d \in Calls \ {c} : call'[d] = call[d]
    BY <1>0, <1>2 DEF HandingOut, Mint, Ask, HandOut, Goes, Returns
  <2>3. Backed(call[c])'
    <3>1. CASE Returns(c)
      BY <1>0, <3>1 DEF Returns, Fresh, Backed
    <3>2. CASE EnsureLoopback /\ (Goes(c, "minting") \/ Goes(c, "asking"))
      BY <1>0, <3>2, ServedAfter DEF Goes, CallRecords, Backed
    <3>3. CASE call' = [call EXCEPT ![c].pc = "asking", ![c].failed = TRUE]
      BY <1>0, <3>3 DEF CallRecords, Backed
    <3>4. CASE HandOut(c)
      <4>1. /\ call'[c].pc \in {"minted", "asked"} /\ call'[c].origin = Origin
            /\ call'[c].steady = call[c].steady
            /\ call'[c].failed = call[c].failed
            /\ call[c].pc \in {"minting", "asking"}
        BY <1>0, <3>4 DEF HandOut, CallRecords
      <4>2. call[c].steady /\ ~call[c].failed => Reachable(Origin)
        BY <1>0, <4>1, ReachableFacts DEF Backed
      <4>3. UNCHANGED loopback
        BY <3>4 DEF HandOut
      <4>4. QED
        BY <4>1, <4>2, <4>3 DEF Backed, Reachable, loopback
    <3>5. QED
      BY <1>2, <3>1, <3>2, <3>3, <3>4 DEF HandingOut, Mint, Ask
  <2>4. QED
    BY <1>1, <2>1, <2>2, <2>3
<1>3. CASE ServerStep
  <2>1. CASE Unsettled
    BY <1>0, <2>1 DEF Unsettled, CallRecords, Backed
  <2>2. CASE UNCHANGED call /\ \E p \in Ports : Shutdown(p)
    BY <1>1, <2>2
  <2>3. CASE \E o \in Trusted, c \in Calls : AddTrustedOrigins(o) /\ Returns(c)
    BY <1>0, <1>1, <2>3 DEF Returns, Fresh, Promised
  <2>4. QED
    BY <1>3, <2>1, <2>2, <2>3 DEF ServerStep
<1>4. ASSUME NEW c \in Calls,
             \/ \E u \in Views : Bake(c, u)
             \/ RegisterResource(c) \/ AddResource(c)
             \/ RemoveResources(c)
             \/ \E u \in Views : UnregisterAppResource(c, u)
             \/ \E u \in Views : RegisterAppView(c, u)
             \/ RegisterHelper(c) \/ HelperFails(c)
             \/ AttachAppMeta(c) \/ Associate(c)
             \/ \E t \in Tools : SetAppViewInfo(c, t) \/ DeleteAppViewInfo(c, t)
             \/ SetViewDomainResolver(c)
      PROVE  \A d \in Calls : Backed(call[d])'
  <2>1. UNCHANGED loopback
    BY <1>4 DEF Bake, RegisterResource, AddResource, RemoveResources,
       UnregisterAppResource, RegisterAppView, RegisterHelper, HelperFails,
       AttachAppMeta, Associate, SetAppViewInfo, DeleteAppViewInfo,
       SetViewDomainResolver
  <2>2. ASSUME NEW d \in Calls
        PROVE  call'[d] = call[d] \/ call'[d].pc \notin Promised
    <3>1. CASE Returns(c)
      BY <1>0, <3>1 DEF Returns, Fresh, Promised
    <3>2. CASE AddResource(c) \/ Associate(c)
      BY <1>0, <3>1, <3>2 DEF AddResource, Associate, AttachFrom, Promised,
         CallRecords
    <3>3. CASE RegisterResource(c)
      BY <1>0, <3>3 DEF RegisterResource, Promised, CallRecords
    <3>4. ASSUME NEW u \in Views, ~Returns(c),
                 Bake(c, u) \/ UnregisterAppResource(c, u) \/ RegisterAppView(c, u)
          PROVE  call'[d] = call[d] \/ call'[d].pc \notin Promised
      <4>1. /\ \A e \in Calls \ {c} : call'[e] = call[e]
            /\ call'[c].pc \in {"baking", "removing", "helpers"}
        <5>1. CASE Bake(c, u)
          BY <1>0, <3>4, <5>1 DEF Bake, CallRecords
        <5>2. CASE UnregisterAppResource(c, u)
          BY <1>0, <3>4, <5>2 DEF UnregisterAppResource, CallRecords
        <5>3. CASE RegisterAppView(c, u)
          BY <1>0, <3>4, <5>3 DEF RegisterAppView, CallRecords
        <5>4. QED
          BY <3>4, <5>1, <5>2, <5>3
      <4>2. QED
        BY <4>1 DEF Promised
    <3>5. CASE RegisterHelper(c)
      BY <1>0, <3>5 DEF RegisterHelper, HasHelper, Promised, CallRecords
    <3>6. CASE AttachAppMeta(c)
      BY <1>0, <3>6 DEF AttachAppMeta, Goes, Promised, CallRecords
    <3>7. QED
      BY <1>4, <3>1, <3>2, <3>3, <3>4, <3>5, <3>6 DEF RemoveResources,
         HelperFails, SetAppViewInfo, DeleteAppViewInfo, SetViewDomainResolver
  <2>3. QED
    BY <1>1, <2>1, <2>2
<1>5. CASE \/ \E t \in Tools : AddEntry(t)
           \/ SetToolRegistrar \/ UNCHANGED appVars
  BY <1>1, <1>5 DEF AddEntry, SetToolRegistrar, appVars
<1>6. QED
  BY <1>2, <1>3, <1>4, <1>5, Steps

(* What is handed out points at something that listens, unless the base    *)
(* URL has changed or the server was stopped meanwhile.                    *)
THEOREM HandedOutIsReachable == AppSpec => []HandedOutReachable
<1>1. AppInit => HandInv
  <2> SUFFICES ASSUME AppInit
               PROVE  HandInv
    OBVIOUS
  <2>1. \A c \in Calls : Backed(call[c])
    BY DEF AppInit, Fresh, Backed
  <2>2. QED
    BY <2>1, InitType, LoopbackInvInit DEF HandInv
<1>2. HandInv => HandedOutReachable
  BY DEF HandInv, Backed, HandedOutReachable
<1>3. QED
  BY <1>1, <1>2, HandStep, PTL DEF AppSpec

-----------------------------------------------------------------------------
(* Views are wired whole or not at all.                                    *)

Full(u) == helper[u] = Helpers[u]

(* A call shows a view only once all of its helpers are registered.        *)
Wired(k) ==
  /\ k.pc \in {"adding", "baking", "attaching", "noting"} => Full(k.uri)
  /\ k.pc = "helpers" => helper[k.uri] >= k.next - 1

WiringInv == TypeInv /\ NoPartialWiring /\ \A c \in Calls : Wired(call[c])

LEMMA HelpersGrow ==
  ASSUME TypeInv, [AppNext]_appVars, NEW u \in Views
  PROVE  /\ helper[u] <= helper'[u]
         /\ Full(u) => Full(u)'
<1>1. /\ Helpers[u] \in Nat /\ helper \in [Views -> Nat]
      /\ helper'[u] \in Nat /\ helper'[u] <= Helpers[u]
  BY TypeStep, AppViewsAssumption DEF TypeInv, HelperType
<1>2. CASE \E c \in Calls : RegisterHelper(c)
  <2>1. PICK c \in Calls : RegisterHelper(c)
    BY <1>2
  <2>2. call[c].next \in Nat
    BY DEF TypeInv, CallsType, CallRecords
  <2>3. helper' = [helper EXCEPT ![call[c].uri] =
                     IF helper[call[c].uri] < call[c].next THEN call[c].next
                                                  ELSE helper[call[c].uri]]
    BY <2>1 DEF RegisterHelper
  <2>4. helper[u] <= helper'[u]
    BY <1>1, <2>2, <2>3
  <2>5. QED
    BY <1>1, <2>4 DEF Full
<1>3. CASE ~\E c \in Calls : RegisterHelper(c)
  <2>1. UNCHANGED helper
    BY <1>3, Steps DEF HandingOut, Mint, Ask, HandOut, Bake, RegisterResource,
       AddResource, RemoveResources, UnregisterAppResource, RegisterAppView,
       HelperFails, AttachAppMeta, Associate, SetAppViewInfo,
       DeleteAppViewInfo, AddEntry, SetToolRegistrar, SetViewDomainResolver,
       ServerStep, appVars
  <2>2. QED
    BY <1>1, <2>1 DEF Full
<1>4. QED
  BY <1>2, <1>3

(* What a step may newly show.                                             *)
LEMMA NewlyShown ==
  ASSUME WiringInv, [AppNext]_appVars, NEW u \in Views, Shown(u)', ~Shown(u)
  PROVE  Full(u)
<1>0. /\ TypeInv /\ CatalogType /\ \A c \in Calls : Wired(call[c])
      /\ Views \cap {"none", "absent", "other"} = {}
  BY AppViewsAssumption DEF WiringInv, TypeInv
<1>1. ASSUME NEW c \in Calls, RegisterResource(c)
      PROVE  Full(u)
  <2>1. u = call[c].uri
    BY <1>0, <1>1, PutType DEF RegisterResource, Shown, catalog, Put
  <2>2. /\ helper[u] >= call[c].next - 1 /\ call[c].next > Helpers[u]
        /\ call[c].next \in Nat /\ helper[u] \in Nat /\ Helpers[u] \in Nat
        /\ helper[u] <= Helpers[u]
    BY <1>0, <1>1, <2>1, AppViewsAssumption DEF RegisterResource, Wired,
       TypeInv, HelperType, CallsType, CallRecords
  <2>3. QED
    BY <2>2 DEF Full
<1>2. ASSUME NEW c \in Calls, AddResource(c)
      PROVE  Full(u)
  <2>1. u = call[c].uri
    BY <1>0, <1>2 DEF AddResource, Shown, catalog, Put
  <2>2. QED
    BY <1>0, <1>2, <2>1 DEF AddResource, Wired
<1>3. ASSUME NEW c \in Calls, AttachAppMeta(c) \/ Associate(c)
      PROVE  Full(u)
  <2>1. u = call[c].uri
    BY <1>0, <1>3 DEF AttachAppMeta, Associate, Shown, registry, CatalogType
  <2>2. QED
    BY <1>0, <1>3, <2>1 DEF AttachAppMeta, Associate, Wired
<1>4. ASSUME NEW c \in Calls,
             \/ \E v \in Views : Bake(c, v)
             \/ \E v \in Views : UnregisterAppResource(c, v)
             \/ RemoveResources(c)
      PROVE  FALSE
  <2>1. /\ DOMAIN record' \subseteq DOMAIN record
        /\ DOMAIN listed' \subseteq DOMAIN listed
        /\ UNCHANGED catalog
    BY <1>4 DEF Bake, UnregisterAppResource, RemoveResources, Minus
  <2>2. QED
    BY <2>1 DEF Shown, catalog
<1>5. CASE /\ UNCHANGED <<record, listed>>
           /\ \/ UNCHANGED catalog
              \/ \E t \in Tools : AddEntry(t)
              \/ \E c \in Calls, t \in Tools :
                   SetAppViewInfo(c, t) \/ DeleteAppViewInfo(c, t)
  BY <1>0, <1>5 DEF AddEntry, SetAppViewInfo, DeleteAppViewInfo, Shown,
     CatalogType, catalog
<1>6. ASSUME NEW c \in Calls,
             \/ HandingOut(c) \/ \E v \in Views : RegisterAppView(c, v)
             \/ RegisterHelper(c) \/ HelperFails(c) \/ SetViewDomainResolver(c)
      PROVE  UNCHANGED <<record, listed, catalog>>
  BY <1>6 DEF HandingOut, Mint, Ask, HandOut, RegisterAppView, RegisterHelper,
     HelperFails, SetViewDomainResolver, registry, catalog
<1>7. ASSUME ServerStep \/ SetToolRegistrar \/ UNCHANGED appVars
      PROVE  UNCHANGED <<record, listed, catalog>>
  BY <1>7 DEF ServerStep, SetToolRegistrar, registry, appVars, catalog
<1>8. ASSUME \/ \E t \in Tools : AddEntry(t)
             \/ \E c \in Calls, t \in Tools :
                  SetAppViewInfo(c, t) \/ DeleteAppViewInfo(c, t)
      PROVE  UNCHANGED <<record, listed>>
  BY <1>8 DEF AddEntry, SetAppViewInfo, DeleteAppViewInfo, registry
<1>9. QED
  BY <1>1, <1>2, <1>3, <1>4, <1>5, <1>6, <1>7, <1>8, Steps

LEMMA WiringStep == WiringInv /\ [AppNext]_appVars => WiringInv'
<1> SUFFICES ASSUME WiringInv, [AppNext]_appVars
             PROVE  WiringInv'
  OBVIOUS
<1>0. /\ TypeInv /\ TypeInv' /\ CallsType /\ call \in [Calls -> CallRecords]
      /\ \A c \in Calls : Wired(call[c])
      /\ \A u \in Views : /\ Full(u) => Full(u)' /\ helper[u] <= helper'[u]
                          /\ helper[u] \in Nat /\ helper'[u] \in Nat
  BY TypeStep, HelpersGrow DEF WiringInv, TypeInv, CallsType, HelperType
<1>1. NoPartialWiring'
  <2>1. ASSUME NEW u \in Views, Shown(u)'
        PROVE  Full(u)
    BY <2>1, NewlyShown DEF WiringInv, NoPartialWiring, Full
  <2>2. QED
    BY <1>0, <2>1 DEF NoPartialWiring, Full
(* A call that stays where it is keeps what it has relied on.              *)
<1>2. ASSUME NEW d \in Calls,
             \/ call'[d].pc \notin OnView
             \/ /\ call'[d].pc = call[d].pc /\ call'[d].uri = call[d].uri
                /\ call'[d].next = call[d].next
      PROVE  Wired(call[d])'
  <2>1. CASE call'[d].pc \notin OnView
    BY <2>1 DEF Wired, OnView
  <2>2. CASE /\ call'[d].pc = call[d].pc /\ call'[d].uri = call[d].uri
             /\ call'[d].next = call[d].next
    <3>1. call[d].next \in Nat /\ (call[d].pc \in OnView => call[d].uri \in Views)
      BY <1>0 DEF CallsType, CallRecords, Position
    <3> DEFINE u == call[d].uri
               n == call[d].next
    <3>2. CASE call[d].pc \in {"adding", "baking", "attaching", "noting"}
      <4>1. u \in Views /\ Full(u)
        BY <1>0, <3>1, <3>2 DEF Wired, OnView
      <4>2. Full(u)'
        BY <1>0, <2>2, <4>1 DEF Full
      <4>3. QED
        BY <2>2, <3>2, <4>2 DEF Wired, Full
    <3>3. CASE call[d].pc = "helpers"
      <4>1. u \in Views /\ helper[u] >= n - 1
        BY <1>0, <3>1, <3>3 DEF Wired, OnView
      <4>2. helper[u] <= helper'[u] /\ helper[u] \in Nat /\ helper'[u] \in Nat
        BY <4>1, HelpersGrow, TypeStep DEF WiringInv, TypeInv, HelperType
      <4>3. helper'[u] >= n - 1
        BY <3>1, <4>1, <4>2
      <4>4. QED
        BY <2>2, <3>3, <4>3 DEF Wired
    <3>4. CASE call[d].pc \notin {"helpers", "adding", "baking", "attaching",
                                 "noting"}
      BY <2>2, <3>4 DEF Wired
    <3>5. QED
      BY <3>2, <3>3, <3>4
  <2>3. QED
    BY <1>2, <2>1, <2>2
<1>3. ASSUME NEW c \in Calls, HandingOut(c)
      PROVE  \A d \in Calls : Wired(call[d])'
  <2>1. \A d \in Calls : call'[d] = call[d] \/ call'[d].pc \notin OnView
    BY <1>0, <1>3 DEF HandingOut, Mint, Ask, HandOut, Goes, Returns, Fresh,
       OnView, CallRecords
  <2>2. QED
    BY <1>2, <2>1
<1>4. ASSUME ServerStep
      PROVE  \A d \in Calls : Wired(call[d])'
  <2>1. CASE Unsettled
    <3>1. \A d \in Calls : /\ call'[d].pc = call[d].pc
                           /\ call'[d].uri = call[d].uri
                           /\ call'[d].next = call[d].next
      BY <1>0, <2>1 DEF Unsettled, CallRecords
    <3>2. QED
      BY <1>2, <3>1
  <2>2. CASE UNCHANGED call
    <3>1. \A d \in Calls : call'[d] = call[d]
      BY <2>2
    <3>2. QED
      BY <1>2, <3>1
  <2>3. CASE \E c \in Calls : Returns(c)
    <3>1. \A d \in Calls : call'[d] = call[d] \/ call'[d].pc \notin OnView
      BY <1>0, <2>3 DEF Returns, Fresh, OnView
    <3>2. QED
      BY <1>2, <3>1
  <2>4. QED
    BY <1>4, <2>1, <2>2, <2>3 DEF ServerStep
<1>5. ASSUME NEW c \in Calls, RegisterResource(c)
      PROVE  \A d \in Calls : Wired(call[d])'
  <2>1. /\ \A d \in Calls \ {c} : call'[d] = call[d]
        /\ call'[c].pc = "adding" /\ call'[c].uri = call[c].uri
    BY <1>0, <1>5 DEF RegisterResource, CallRecords
  <2>2. call[c].uri \in Views /\ call[c].uri \in DOMAIN record'
    BY <1>0, <1>5 DEF RegisterResource, Put, CallsType, Position, OnView
  <2>3. helper'[call[c].uri] = Helpers[call[c].uri]
    BY <1>1, <2>2 DEF NoPartialWiring, Shown
  <2>4. QED
    BY <1>2, <2>1, <2>3 DEF Wired, Full
<1>6. ASSUME NEW c \in Calls, NEW u \in Views, Bake(c, u)
      PROVE  \A d \in Calls : Wired(call[d])'
  <2>1. CASE u \notin DOMAIN record
    BY <1>0, <1>2, <1>6, <2>1 DEF Bake, Returns, Fresh, OnView
  <2>2. CASE u \in DOMAIN record
    <3>1. /\ \A d \in Calls \ {c} : call'[d] = call[d]
          /\ call'[c].pc = "baking" /\ call'[c].uri = u
      BY <1>0, <1>6, <2>2 DEF Bake, CallRecords
    <3>2. Full(u)'
      BY <1>0, <2>2 DEF WiringInv, NoPartialWiring, Shown, Full
    <3>3. QED
      BY <1>2, <3>1, <3>2 DEF Wired, Full
  <2>3. QED
    BY <2>1, <2>2
<1>7. ASSUME NEW c \in Calls, AddResource(c) \/ Associate(c) \/ AttachAppMeta(c)
      PROVE  \A d \in Calls : Wired(call[d])'
  <2>1. /\ \A d \in Calls \ {c} : call'[d] = call[d]
        /\ \/ call'[c].pc = "returned"
           \/ /\ call'[c].pc \in {"attaching", "noting"}
              /\ call'[c].uri = call[c].uri
    BY <1>0, <1>7 DEF AddResource, Associate, AttachAppMeta, AttachFrom, Goes,
       Returns, Fresh, CallRecords
  <2>2. call[c].uri \in Views /\ Full(call[c].uri)
    BY <1>0, <1>7 DEF AddResource, Associate, AttachAppMeta, Wired, CallsType,
       Position, OnView
  <2>3. helper'[call[c].uri] = Helpers[call[c].uri]
    BY <1>0, <2>2 DEF Full
  <2>4. QED
    BY <1>2, <2>1, <2>3 DEF Wired, Full, OnView
<1>8. ASSUME NEW c \in Calls, NEW u \in Views,
             UnregisterAppResource(c, u) \/ RegisterAppView(c, u)
      PROVE  \A d \in Calls : Wired(call[d])'
  <2>1. CASE Returns(c)
    BY <1>0, <1>2, <2>1 DEF Returns, Fresh, OnView
  <2>2. CASE UnregisterAppResource(c, u) /\ ~Returns(c)
    <3>1. /\ \A d \in Calls \ {c} : call'[d] = call[d]
          /\ call'[c].pc = "removing"
      BY <1>0, <2>2 DEF UnregisterAppResource, CallRecords
    <3>2. QED
      BY <1>2, <3>1 DEF Wired
  <2>3. CASE RegisterAppView(c, u) /\ ~Returns(c)
    <3>1. /\ \A d \in Calls \ {c} : call'[d] = call[d]
          /\ call'[c].pc = "helpers" /\ call'[c].uri = u /\ call'[c].next = 1
      BY <1>0, <2>3 DEF RegisterAppView, CallRecords, CallsType, Position
    <3>2. QED
      BY <1>0, <1>2, <3>1 DEF Wired
  <2>4. QED
    BY <1>8, <2>1, <2>2, <2>3
<1>9. ASSUME NEW c \in Calls, RegisterHelper(c)
      PROVE  \A d \in Calls : Wired(call[d])'
  <2> DEFINE u == call[c].uri
             n == call[c].next
  <2>1. u \in Views /\ n \in Nat
    BY <1>0, <1>9 DEF RegisterHelper, HasHelper, CallsType, CallRecords,
       Position, OnView
  <2>2. /\ \A d \in Calls \ {c} : call'[d] = call[d]
        /\ call'[c].pc = "helpers" /\ call'[c].uri = u /\ call'[c].next = n + 1
    BY <1>0, <1>9 DEF RegisterHelper, HasHelper, CallRecords
  <2>3. helper'[u] >= n
    BY <1>0, <1>9, <2>1 DEF RegisterHelper, TypeInv, HelperType
  <2>4. Wired(call[c])'
    BY <2>1, <2>2, <2>3 DEF Wired
  <2>5. QED
    BY <1>2, <2>2, <2>4
<1>10. ASSUME NEW c \in Calls,
              \/ RemoveResources(c) \/ HelperFails(c) \/ SetViewDomainResolver(c)
              \/ \E t \in Tools : SetAppViewInfo(c, t) \/ DeleteAppViewInfo(c, t)
       PROVE  \A d \in Calls : Wired(call[d])'
  <2>1. Returns(c)
    BY <1>10 DEF RemoveResources, HelperFails, SetViewDomainResolver,
       SetAppViewInfo, DeleteAppViewInfo
  <2>2. QED
    BY <1>0, <1>2, <2>1 DEF Returns, Fresh, OnView
<1>11. ASSUME \/ \E t \in Tools : AddEntry(t)
              \/ SetToolRegistrar \/ UNCHANGED appVars
       PROVE  \A d \in Calls : Wired(call[d])'
  <2>1. \A d \in Calls : call'[d] = call[d]
    BY <1>11 DEF AddEntry, SetToolRegistrar, appVars
  <2>2. QED
    BY <1>2, <2>1
<1>12. \A d \in Calls : Wired(call[d])'
  BY <1>3, <1>4, <1>5, <1>6, <1>7, <1>8, <1>9, <1>10, <1>11, Steps
<1>13. QED
  BY <1>0, <1>1, <1>12 DEF WiringInv

(* However registrations of views, failures of helpers and changes of the  *)
(* registrar are interleaved, what shows a view finds all of its helpers.  *)
THEOREM ViewsAreWiredWhole == AppSpec => []NoPartialWiring
<1>1. AppInit => WiringInv
  <2> SUFFICES ASSUME AppInit
               PROVE  WiringInv
    OBVIOUS
  <2>1. \A u \in Views : ~Shown(u)
    BY AppViewsAssumption DEF AppInit, Shown
  <2>2. \A c \in Calls : Wired(call[c])
    BY DEF AppInit, Fresh, Wired
  <2>3. QED
    BY <2>1, <2>2, InitType DEF WiringInv, NoPartialWiring
<1>2. WiringInv => NoPartialWiring
  BY DEF WiringInv
<1>3. QED
  BY <1>1, <1>2, WiringStep, PTL DEF AppSpec
-----------------------------------------------------------------------------
(* The server's list settles on what is on record.                         *)

Pending == {"adding", "baking", "removing"}

Holds(c, u) == call[c].uri = u /\ call[c].pc \in Pending

(* What a call will do to the list is what it has done to the record.      *)
Announced(c, u) ==
  IF call[c].pc = "removing"
    THEN u \notin DOMAIN record
    ELSE /\ u \in DOMAIN record
         /\ record[u] = [domain |-> call[c].domain, connect |-> call[c].origin]

Agree(u) == /\ u \in DOMAIN record <=> u \in DOMAIN listed
            /\ u \in DOMAIN record => listed[u] = record[u]

(* As long as the last change of u ran alone, at most one call has u's      *)
(* change before it, the one the record tells of; after it the list agrees. *)
Settled(u) ==
  u \notin overlapped =>
    /\ \A c, d \in Calls : Holds(c, u) /\ Holds(d, u) => c = d
    /\ \A c \in Calls : Holds(c, u) => Announced(c, u)
    /\ (\A c \in Calls : ~Holds(c, u)) => Agree(u)

SettleInv == TypeInv /\ \A u \in Views : Settled(u)

(* A step that has nothing to do with u. *)
LEMMA Untouched ==
  ASSUME NEW u, Settled(u), u \in overlapped => u \in overlapped',
         u \in DOMAIN record' <=> u \in DOMAIN record,
         u \in DOMAIN listed' <=> u \in DOMAIN listed,
         u \in DOMAIN record => record'[u] = record[u],
         u \in DOMAIN listed => listed'[u] = listed[u],
         \A c \in Calls :
           \/ /\ call'[c].pc = call[c].pc /\ call'[c].uri = call[c].uri
              /\ call'[c].domain = call[c].domain
              /\ call'[c].origin = call[c].origin
           \/ /\ ~(call[c].uri = u /\ call[c].pc \in Pending)
              /\ ~(call'[c].uri = u /\ call'[c].pc \in Pending)
  PROVE  Settled(u)'
<1> SUFFICES ASSUME u \notin overlapped'
             PROVE  /\ \A c, d \in Calls : Holds(c, u)' /\ Holds(d, u)' => c = d
                    /\ \A c \in Calls : Holds(c, u)' => Announced(c, u)'
                    /\ (\A c \in Calls : ~Holds(c, u)') => Agree(u)'
  BY DEF Settled
<1>1. /\ \A c, d \in Calls : Holds(c, u) /\ Holds(d, u) => c = d
      /\ \A c \in Calls : Holds(c, u) => Announced(c, u)
      /\ (\A c \in Calls : ~Holds(c, u)) => Agree(u)
  BY DEF Settled
<1>2. \A c, d \in Calls : Holds(c, u)' /\ Holds(d, u)' => c = d
  BY <1>1 DEF Holds
<1>3. \A c \in Calls : Holds(c, u)' => Announced(c, u)'
  BY <1>1 DEF Holds, Announced
<1>4. (\A c \in Calls : ~Holds(c, u)') => Agree(u)'
  BY <1>1 DEF Holds, Agree
<1>5. QED
  BY <1>2, <1>3, <1>4

(* A change of the record under the registry's lock. *)
LEMMA RecordChanges ==
  ASSUME NEW v \in Views, NEW c \in Calls, \A u \in Views : Settled(u),
         Overlap(v), UNCHANGED listed,
         call[c].pc \notin Pending,
         \A d \in Calls \ {c} : call'[d] = call[d],
         call'[c].uri = v, call'[c].pc \in Pending,
         \A u \in Views \ {v} :
           /\ u \in DOMAIN record' <=> u \in DOMAIN record
           /\ u \in DOMAIN record => record'[u] = record[u],
         IF call'[c].pc = "removing"
           THEN v \notin DOMAIN record'
           ELSE /\ v \in DOMAIN record'
                /\ record'[v] = [domain |-> call'[c].domain,
                                 connect |-> call'[c].origin]
  PROVE  \A u \in Views : Settled(u)'
<1> SUFFICES ASSUME NEW u \in Views
             PROVE  Settled(u)'
  OBVIOUS
<1>1. CASE u # v
  <2>1. \A d \in Calls :
           \/ /\ call'[d].pc = call[d].pc /\ call'[d].uri = call[d].uri
              /\ call'[d].domain = call[d].domain
              /\ call'[d].origin = call[d].origin
           \/ /\ ~(call[d].uri = u /\ call[d].pc \in Pending)
              /\ ~(call'[d].uri = u /\ call'[d].pc \in Pending)
    BY <1>1
  <2>2. u \in overlapped => u \in overlapped'
    BY <1>1 DEF Overlap
  <2>3. QED
    BY <1>1, <2>1, <2>2, Untouched
<1>2. CASE u = v /\ u \notin overlapped'
  <2>1. \A d \in Calls : ~(call[d].uri = u /\ call[d].pc \in Pending)
    BY <1>2 DEF Overlap, InFlight, Pending
  <2>2. \A d \in Calls : Holds(d, u)' => d = c
    BY <2>1 DEF Holds
  <2>3. Announced(c, u)' /\ Holds(c, u)'
    BY <1>2 DEF Announced, Holds
  <2>4. QED
    BY <2>2, <2>3 DEF Settled
<1>3. CASE u \in overlapped'
  BY <1>3 DEF Settled
<1>4. QED
  BY <1>1, <1>2, <1>3

(* The list follows, after the unlock. *)
LEMMA ListFollows ==
  ASSUME NEW v \in Views, NEW c \in Calls, \A u \in Views : Settled(u),
         UNCHANGED <<record, overlapped>>,
         call[c].uri = v, call[c].pc \in Pending,
         \A d \in Calls \ {c} : call'[d] = call[d],
         call'[c].pc \notin Pending,
         \A u \in Views \ {v} :
           /\ u \in DOMAIN listed' <=> u \in DOMAIN listed
           /\ u \in DOMAIN listed => listed'[u] = listed[u],
         IF call[c].pc = "removing"
           THEN v \notin DOMAIN listed'
           ELSE /\ v \in DOMAIN listed'
                /\ listed'[v] = [domain |-> call[c].domain,
                                 connect |-> call[c].origin]
  PROVE  \A u \in Views : Settled(u)'
<1> SUFFICES ASSUME NEW u \in Views
             PROVE  Settled(u)'
  OBVIOUS
<1>1. CASE u # v
  <2>1. \A d \in Calls :
           \/ /\ call'[d].pc = call[d].pc /\ call'[d].uri = call[d].uri
              /\ call'[d].domain = call[d].domain
              /\ call'[d].origin = call[d].origin
           \/ /\ ~(call[d].uri = u /\ call[d].pc \in Pending)
              /\ ~(call'[d].uri = u /\ call'[d].pc \in Pending)
    BY <1>1
  <2>2. QED
    BY <1>1, <2>1, Untouched
<1>2. CASE u = v /\ u \notin overlapped
  <2>1. /\ \A d \in Calls : Holds(d, u) => d = c
        /\ Announced(c, u)
    BY <1>2 DEF Settled, Holds
  <2>2. \A d \in Calls : ~Holds(d, u)'
    BY <2>1 DEF Holds
  <2>3. Agree(u)'
    BY <1>2, <2>1 DEF Agree, Announced
  <2>4. QED
    BY <2>2, <2>3 DEF Settled
<1>3. CASE u \in overlapped
  BY <1>3 DEF Settled
<1>4. QED
  BY <1>1, <1>2, <1>3
LEMMA SettleStep == SettleInv /\ [AppNext]_appVars => SettleInv'
<1> SUFFICES ASSUME SettleInv, [AppNext]_appVars
             PROVE  SettleInv'
  OBVIOUS
<1>0. /\ TypeInv /\ TypeInv' /\ call \in [Calls -> CallRecords]
      /\ RegistryType /\ \A u \in Views : Settled(u)
      /\ \A c \in Calls : call[c].pc \in OnView => call[c].uri \in Views
  BY TypeStep DEF SettleInv, TypeInv, CallsType, Position
(* A step outside the registry. *)
<1>1. ASSUME UNCHANGED <<record, listed, overlapped>>,
             \A d \in Calls :
               \/ /\ call'[d].pc = call[d].pc /\ call'[d].uri = call[d].uri
                  /\ call'[d].domain = call[d].domain
                  /\ call'[d].origin = call[d].origin
               \/ call[d].pc \notin Pending /\ call'[d].pc \notin Pending
      PROVE  \A u \in Views : Settled(u)'
  BY <1>0, <1>1, Untouched
<1>2. ASSUME NEW c \in Calls,
             \/ HandingOut(c) \/ \E v \in Views : RegisterAppView(c, v)
             \/ RegisterHelper(c) \/ HelperFails(c)
             \/ AttachAppMeta(c) \/ Associate(c) \/ SetViewDomainResolver(c)
             \/ \E t \in Tools : SetAppViewInfo(c, t) \/ DeleteAppViewInfo(c, t)
      PROVE  \A u \in Views : Settled(u)'
  <2>1. UNCHANGED <<record, listed, overlapped>>
    BY <1>2 DEF HandingOut, Mint, Ask, HandOut, RegisterAppView, RegisterHelper,
       HelperFails, AttachAppMeta, Associate, SetViewDomainResolver,
       SetAppViewInfo, DeleteAppViewInfo, registry
  <2>2. /\ \A d \in Calls \ {c} : call'[d] = call[d]
        /\ call[c].pc \notin Pending /\ call'[c].pc \notin Pending
    <3>1. CASE Returns(c)
      BY <1>0, <1>2, <3>1 DEF Returns, Fresh, HandingOut, Mint, Ask, HandOut,
         RegisterAppView, RegisterHelper, HasHelper, HelperFails, AttachAppMeta,
         Associate, SetViewDomainResolver, SetAppViewInfo, DeleteAppViewInfo,
         Pending
    <3>2. CASE HandingOut(c) /\ ~Returns(c)
      BY <1>0, <3>2 DEF HandingOut, Mint, Ask, HandOut, Goes, CallRecords, Pending
    <3>3. CASE RegisterHelper(c)
      BY <1>0, <3>3 DEF RegisterHelper, HasHelper, CallRecords, Pending
    <3>4. CASE ~Returns(c) /\ \/ AttachAppMeta(c) \/ Associate(c)
                              \/ \E v \in Views : RegisterAppView(c, v)
      BY <1>0, <3>4 DEF AttachAppMeta, Associate, AttachFrom, Goes,
         RegisterAppView, CallRecords, Pending
    <3>5. QED
      BY <1>2, <3>1, <3>2, <3>3, <3>4 DEF HelperFails, SetViewDomainResolver,
         SetAppViewInfo, DeleteAppViewInfo
  <2>3. QED
    BY <1>1, <2>1, <2>2
<1>3. ASSUME ServerStep
      PROVE  \A u \in Views : Settled(u)'
  <2>1. UNCHANGED <<record, listed, overlapped>>
    BY <1>3 DEF ServerStep, registry
  <2>2. CASE Unsettled
    <3>1. \A d \in Calls :
            /\ call'[d].pc = call[d].pc /\ call'[d].uri = call[d].uri
            /\ call'[d].domain = call[d].domain
            /\ call'[d].origin = call[d].origin
      BY <1>0, <2>2 DEF Unsettled, CallRecords
    <3>2. QED
      BY <1>1, <2>1, <3>1
  <2>3. CASE UNCHANGED call
    BY <1>1, <2>1, <2>3
  <2>4. CASE \E c \in Calls : call[c].pc = "fresh" /\ Returns(c)
    <3>1. PICK c \in Calls : call[c].pc = "fresh" /\ Returns(c)
      BY <2>4
    <3>2. /\ \A d \in Calls \ {c} : call'[d] = call[d]
          /\ call[c].pc \notin Pending /\ call'[c].pc \notin Pending
      BY <1>0, <3>1 DEF Returns, Fresh, Pending
    <3>3. QED
      BY <1>1, <2>1, <3>2
  <2>5. QED
    BY <1>3, <2>2, <2>3, <2>4 DEF ServerStep
<1>4. ASSUME \/ \E t \in Tools : AddEntry(t)
             \/ SetToolRegistrar \/ UNCHANGED appVars
      PROVE  \A u \in Views : Settled(u)'
  <2>1. UNCHANGED <<record, listed, overlapped, call>>
    BY <1>4 DEF AddEntry, SetToolRegistrar, registry, appVars
  <2>2. QED
    BY <1>1, <2>1
<1>5. ASSUME NEW c \in Calls, RegisterResource(c)
      PROVE  \A u \in Views : Settled(u)'
  <2> DEFINE v == call[c].uri
             e == [domain |-> resolver, connect |-> "static"]
  <2>1. v \in Views /\ Overlap(v) /\ UNCHANGED listed /\ call[c].pc \notin Pending
    BY <1>0, <1>5 DEF RegisterResource, OnView, Pending
  <2>2. /\ \A d \in Calls \ {c} : call'[d] = call[d]
        /\ call'[c].uri = v /\ call'[c].pc = "adding"
        /\ call'[c].domain = resolver /\ call'[c].origin = "static"
    BY <1>0, <1>5 DEF RegisterResource, CallRecords
  <2>3. record' = Put(record, v, e)
    BY <1>5 DEF RegisterResource
  <2> HIDE DEF v
  <2>4. /\ v \in DOMAIN record' /\ record'[v] = e
        /\ \A u \in Views \ {v} :
             /\ u \in DOMAIN record' <=> u \in DOMAIN record
             /\ u \in DOMAIN record => record'[u] = record[u]
    BY <2>3 DEF Put
  <2>5. QED
    BY <1>0, <2>1, <2>2, <2>4, RecordChanges DEF Pending
<1>6. ASSUME NEW c \in Calls, NEW v \in Views, Bake(c, v)
      PROVE  \A u \in Views : Settled(u)'
  <2>1. CASE v \notin DOMAIN record
    <3>1. /\ \A d \in Calls \ {c} : call'[d] = call[d]
          /\ call[c].pc \notin Pending /\ call'[c].pc \notin Pending
          /\ UNCHANGED <<record, listed, overlapped>>
      BY <1>0, <1>6, <2>1 DEF Bake, Returns, Fresh, Pending
    <3>2. QED
      BY <1>1, <3>1
  <2>2. CASE v \in DOMAIN record
    <3>1. Overlap(v) /\ UNCHANGED listed /\ call[c].pc \notin Pending
      BY <1>6, <2>2 DEF Bake, Pending
    <3>2. /\ \A d \in Calls \ {c} : call'[d] = call[d]
          /\ call'[c].uri = v /\ call'[c].pc = "baking"
          /\ call'[c].domain = record[v].domain
          /\ call'[c].origin = call[c].origin
      BY <1>0, <1>6, <2>2 DEF Bake, CallRecords
    <3>3. record' = [record EXCEPT ![v].connect = call[c].origin]
      BY <1>6, <2>2 DEF Bake
    <3>4. record \in [DOMAIN record -> Entry] /\ DOMAIN record \subseteq Views
      BY <1>0 DEF RegistryType
    <3>5. /\ v \in DOMAIN record'
          /\ record'[v] = [domain |-> record[v].domain,
                           connect |-> call[c].origin]
          /\ \A u \in Views \ {v} :
               /\ u \in DOMAIN record' <=> u \in DOMAIN record
               /\ u \in DOMAIN record => record'[u] = record[u]
      BY <2>2, <3>3, <3>4 DEF Entry
    <3>6. QED
      BY <1>0, <3>1, <3>2, <3>5, RecordChanges DEF Pending
  <2>3. QED
    BY <2>1, <2>2
<1>7. ASSUME NEW c \in Calls, NEW v \in Views, UnregisterAppResource(c, v)
      PROVE  \A u \in Views : Settled(u)'
  <2>1. CASE ~reachable
    <3>1. /\ \A d \in Calls \ {c} : call'[d] = call[d]
          /\ call[c].pc \notin Pending /\ call'[c].pc \notin Pending
          /\ UNCHANGED <<record, listed, overlapped>>
      BY <1>0, <1>7, <2>1 DEF UnregisterAppResource, Returns, Fresh, Pending
    <3>2. QED
      BY <1>1, <3>1
  <2>2. CASE reachable
    <3>1. Overlap(v) /\ UNCHANGED listed /\ call[c].pc \notin Pending
      BY <1>7, <2>2 DEF UnregisterAppResource, Pending
    <3>2. /\ \A d \in Calls \ {c} : call'[d] = call[d]
          /\ call'[c].uri = v /\ call'[c].pc = "removing"
      BY <1>0, <1>7, <2>2 DEF UnregisterAppResource, CallRecords
    <3>3. record' = Minus(record, v)
      BY <1>7, <2>2 DEF UnregisterAppResource
    <3>4. /\ v \notin DOMAIN record'
          /\ \A u \in Views \ {v} :
               /\ u \in DOMAIN record' <=> u \in DOMAIN record
               /\ u \in DOMAIN record => record'[u] = record[u]
      BY <3>3 DEF Minus
    <3>5. QED
      BY <1>0, <3>1, <3>2, <3>4, RecordChanges DEF Pending
  <2>3. QED
    BY <2>1, <2>2
<1>8. ASSUME NEW c \in Calls, AddResource(c) \/ RemoveResources(c)
      PROVE  \A u \in Views : Settled(u)'
  <2> DEFINE v == call[c].uri
             e == [domain |-> call[c].domain, connect |-> call[c].origin]
  <2>1. /\ v \in Views /\ call[c].pc \in Pending
        /\ UNCHANGED <<record, overlapped>>
    BY <1>0, <1>8 DEF AddResource, RemoveResources, OnView, Pending
  <2>2. \A d \in Calls \ {c} : call'[d] = call[d]
    BY <1>0, <1>8 DEF AddResource, RemoveResources, AttachFrom, Returns,
       CallRecords
  <2>3. call'[c].pc \notin Pending
    BY <1>0, <1>8 DEF AddResource, RemoveResources, AttachFrom, Returns, Fresh,
       CallRecords, Pending
  <2>4. \/ listed' = Put(listed, v, e) /\ call[c].pc # "removing"
        \/ listed' = Minus(listed, v) /\ call[c].pc = "removing"
    BY <1>8 DEF AddResource, RemoveResources
  <2>5. /\ \A u \in Views \ {v} :
             /\ u \in DOMAIN listed' <=> u \in DOMAIN listed
             /\ u \in DOMAIN listed => listed'[u] = listed[u]
        /\ IF call[c].pc = "removing"
             THEN v \notin DOMAIN listed'
             ELSE v \in DOMAIN listed' /\ listed'[v] = e
    <3> HIDE DEF v, e
    <3>1. QED
      BY <2>4 DEF Put, Minus
  <2>6. QED
    BY <1>0, <2>1, <2>2, <2>3, <2>5, ListFollows
<1>9. \A u \in Views : Settled(u)'
  BY <1>2, <1>3, <1>4, <1>5, <1>6, <1>7, <1>8, Steps
<1>10. QED
  BY <1>0, <1>9 DEF SettleInv

(* However registrations, removals and changes of the connect domains are  *)
(* interleaved: where the last change of a resource ran alone, the server  *)
(* lists exactly what the registry has on record.                          *)
THEOREM TheListSettles == AppSpec => []ListSettles
<1>1. AppInit => SettleInv
  <2> SUFFICES ASSUME AppInit
               PROVE  SettleInv
    OBVIOUS
  <2>1. \A u \in Views : Settled(u)
    BY DEF AppInit, Fresh, Settled, Holds, Pending, Agree
  <2>2. QED
    BY <2>1, InitType DEF SettleInv
<1>2. SettleInv => ListSettles
  BY DEF SettleInv, Settled, ListSettles, Agree, Holds, InFlight, Pending
<1>3. QED
  BY <1>1, <1>2, SettleStep, PTL DEF AppSpec

=============================================================================
