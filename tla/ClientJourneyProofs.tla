------------------------ MODULE ClientJourneyProofs ------------------------
(***************************************************************************)
(* Proofs about ClientJourney, for any number of clients, delegates,       *)
(* configurations, slots and resets.  About tokens nothing need be known   *)
(* of a URL but that equal ones are trimmed alike; the second part, about  *)
(* routes and challenges, reads what the URLs reduce to.                   *)
(***************************************************************************)
EXTENDS ClientJourney, FirstUseProofs, SequenceLemmas

(* The domains of what is kept by client and by delegate. *)
Indexed ==
    /\ mounts = [m \in Mounts |-> mounts[m]]
    /\ asks = [h \in Harnesses |-> asks[h]]
    /\ form = [h \in Harnesses |-> form[h]]
    /\ code = [h \in Harnesses |-> code[h]]
    /\ refresh = [h \in Harnesses |-> refresh[h]]
    /\ token = [h \in Harnesses |-> token[h]]

(* A start that found no key has the store to itself until it ends. *)
Starting ==
    want[Host] # None =>
        /\ server = None
        /\ want[Host] = KeySlot(config)
        /\ slot[want[Host]] = None

(* Which key, of which era of the store, a gate or a token stands for. *)
KeyOf(x) == [key |-> x.key, era |-> x.era, asymmetric |-> x.asymmetric]

ServerKey == [key |-> server.key, era |-> server.era, asymmetric |-> config.asymmetric]

KeysInUse ==
    (IF server = None THEN {} ELSE {ServerKey})
    \cup {KeyOf(mounts[m]) : m \in {n \in Mounts : mounts[n] # None}}
    \cup {KeyOf(token[h]) : h \in {n \in Harnesses : token[n] # Unset}}

(* In every era there was one key for each algorithm, and the store holds  *)
(* that of its own, if anybody uses it.                                    *)
KeysAgree ==
    /\ \A s \in Slots : slot[s] # None => slot[s] \in made
    /\ \A a \in KeysInUse :
          /\ a.key \in made
          /\ a.era \in 0..era
          /\ a.era = era <=> a.key = slot[KeySlot(a)]
    /\ \A a, b \in KeysInUse :
          a.asymmetric = b.asymmetric => (a.key = b.key <=> a.era = b.era)

(* What a delegate was spawned with. *)
GatesAgree ==
    \A m \in Mounts : mounts[m] # None =>
        /\ mounts[m].iss = PublicURL(config)
        /\ mounts[m].aud = TrimRight(mounts[m].of.mounts[m])
        /\ mounts[m].asymmetric = TRUE

(* A delegate that runs was spawned by a configuration that lists it, and  *)
(* points at the metadata of what it guards.                               *)
MountsSpawned ==
    \A m \in Mounts : mounts[m] # None =>
        LET cfg == mounts[m].of
        IN  /\ cfg \in Configs /\ cfg.asymmetric /\ SitsUnder(cfg.issuer, cfg.mounts[m])
            /\ mounts[m].aud = TrimRight(cfg.mounts[m])
            /\ mounts[m].prm = MetadataURL(PublicURL(cfg), mounts[m].aud)

(* The resource that was asked for goes from the code to every token.      *)
GrantsAgree ==
    \A h \in Harnesses :
        /\ code[h] # Unset => code[h].resource = code[h].asked
        /\ refresh[h] # Unset => refresh[h].resource = refresh[h].asked
        /\ token[h] # Unset => token[h].aud = token[h].asked /\ token[h].iss = PublicURL(config)

(* Every registration was checked. *)
Registered ==
    \A i \in Ids : clients[i] # Unset => \A u \in clients[i] : ValidRedirectURI(u)
-----------------------------------------------------------------------------
(* The server uses its keys as FirstUse says: every step is one of its     *)
(* calls, or a reset, or none of its business.                             *)
LEMMA UsesSlots == \A cfg : KeySlot(cfg) \in Slots
BY AccessTokensAssumption DEF KeySlot

LEMMA FirstUseStep == [Next]_vars => [FirstUseNext]_secretStore
<1> SUFFICES ASSUME [Next]_vars PROVE [FirstUseNext]_secretStore
    OBVIOUS
<1> USE AccessTokensAssumption, UsesSlots
<1>1. CASE Boot
    BY <1>1 DEF Boot, BootFinds, BootMisses, BootStores, BootFails, FirstUseNext
<1>2. CASE Reset
    BY <1>2 DEF Reset, ResetStore, FirstUseNext
<1>3. CASE StopServer \/ \E m \in Mounts : SpawnMount(m)
    BY <1>3 DEF StopServer, Stop, SpawnMount, Spawn
<1>4. CASE Register
    BY <1>4 DEF Register, Serving
<1>5. ASSUME NEW h \in Harnesses,
             \/ \E g \in Gates : Discover(h, g)
             \/ AskForNone(h) \/ OpenForm(h) \/ Fail(h) \/ Approve(h)
             \/ Redeem(h) \/ Refresh(h) \/ Expire(h)
      PROVE  UNCHANGED secretStore
    BY <1>5 DEF Discover, AskForNone, OpenForm, Fail, Approve, Redeem, Refresh, Expire, Serving
<1>6. CASE UNCHANGED vars
    BY <1>6 DEF vars
<1> QED BY <1>1, <1>2, <1>3, <1>4, <1>5, <1>6 DEF Next

(* A composition that keeps the component's promises: what is proved about *)
(* FirstUse holds of the journey.                                          *)
THEOREM KeysAreFirstUse == Spec => FirstUseSpec
<1>1. Init => FirstUseInit
    BY DEF Init, AccessTokensInit
<1> QED BY <1>1, FirstUseStep, PTL DEF Spec, FirstUseSpec
-----------------------------------------------------------------------------
(* A client's step leaves the processes and their keys alone. *)
ByClient(h) ==
    \/ \E g \in Gates : Discover(h, g)
    \/ AskForNone(h) \/ OpenForm(h) \/ Fail(h) \/ Approve(h)
    \/ Redeem(h) \/ Refresh(h) \/ Expire(h)

LEMMA ClientsOnly ==
    ASSUME NEW h \in Harnesses, ByClient(h)
    PROVE  /\ UNCHANGED <<secretStore, config, server, mounts, era>>
           /\ UNCHANGED <<clients, issued>>
BY DEF ByClient, Discover, AskForNone, OpenForm, Fail, Approve, Redeem, Refresh, Expire,
       Serving, processes, BeginAttempt, KeepClients, RedirectWith

LEMMA IndexedKept == Indexed /\ [Next]_vars => Indexed'
<1> SUFFICES ASSUME Indexed, [Next]_vars PROVE Indexed'
    OBVIOUS
<1> USE DEF Indexed
<1>1. CASE Boot
    BY <1>1 DEF Boot, BootFinds, BootMisses, BootStores, BootFails, processes, journey
<1>2. CASE StopServer
    BY <1>2 DEF StopServer, Stop
<1>3. CASE Reset
    BY <1>3 DEF Reset, ResetStore
<1>4. ASSUME NEW m \in Mounts, SpawnMount(m)
      PROVE  Indexed'
    BY <1>4 DEF SpawnMount, Spawn, journey
<1>5. CASE Register
    BY <1>5 DEF Register, Serving, processes, journey
<1>6. ASSUME NEW h \in Harnesses, ByClient(h)
      PROVE  Indexed'
    <2>1. mounts' = mounts
        BY <1>6, ClientsOnly
    <2>2. CASE (\E g \in Gates : Discover(h, g)) \/ AskForNone(h)
        BY <2>1, <2>2 DEF Discover, AskForNone, BeginAttempt
    <2>3. CASE OpenForm(h)
        BY <2>1, <2>3 DEF OpenForm
    <2>4. CASE Fail(h)
        BY <2>1, <2>4 DEF Fail, journey
    <2>5. CASE Approve(h)
        BY <2>1, <2>5 DEF Approve
    <2>6. CASE Redeem(h) \/ Refresh(h) \/ Expire(h)
        BY <2>1, <2>6 DEF Redeem, Refresh, Expire
    <2> QED BY <1>6, <2>2, <2>3, <2>4, <2>5, <2>6 DEF ByClient
<1>7. CASE UNCHANGED vars
    BY <1>7 DEF vars, processes, journey
<1> QED BY <1>1, <1>2, <1>3, <1>4, <1>5, <1>6, <1>7 DEF Next, ByClient

LEMMA NextType == TypeOK /\ Indexed /\ [Next]_vars => TypeOK'
<1> SUFFICES ASSUME TypeOK, Indexed, [Next]_vars PROVE TypeOK'
    OBVIOUS
<1>1. FirstUseTypeOK /\ FirstUseTypeOK'
    BY FirstUseStep, TypesKept DEF TypeOK
<1> USE <1>1, AccessTokensAssumption
<1>2. CASE Boot
    <2>1. /\ config' = config /\ mounts' = mounts /\ era' = era /\ form' = form
          /\ code' = code /\ refresh' = refresh /\ clients' = clients /\ issued' = issued
        BY <1>2 DEF Boot, BootFinds, BootMisses, BootStores, BootFails, processes, journey,
                    KeepClients
    <2>2. server' # None => server'.key \in Secrets
        <3>1. CASE BootFinds
            BY <3>1, UsesSlots DEF BootFinds, Finds, FirstUseTypeOK
        <3>2. CASE BootStores
            <4>1. want[Host] \in Slots
                BY <3>2 DEF BootStores, Stores, FirstUseTypeOK
            <4>2. slot'[want[Host]] \in Secrets
                BY <3>2, <4>1 DEF BootStores, Stores, Generate, FirstUseTypeOK
            <4> QED BY <3>2, <4>2 DEF BootStores
        <3>3. CASE BootMisses \/ BootFails
            BY <3>3 DEF BootMisses, BootFails, processes, TypeOK
        <3> QED BY <1>2, <3>1, <3>2, <3>3 DEF Boot
    <2> QED BY <2>1, <2>2 DEF TypeOK
<1>3. CASE StopServer
    BY <1>3 DEF StopServer, Stop, KeepClients, TypeOK
<1>4. CASE Reset
    BY <1>4 DEF Reset, ResetStore, ForgetClients, TypeOK
<1>5. ASSUME NEW m \in Mounts, SpawnMount(m)
      PROVE  TypeOK'
    <2>1. mounts' = [mounts EXCEPT ![m] = MountGate(m)] /\ MountGate(m).key = server.key
        BY <1>5 DEF SpawnMount, Spawn, MountGate, Gate
    <2>2. server # None /\ server.key \in Secrets
        BY <1>5 DEF SpawnMount, Spawn, TypeOK
    <2>3. \A n \in Mounts : mounts'[n] # None => mounts'[n].key \in Secrets
        BY <2>1, <2>2 DEF TypeOK, Indexed
    <2> QED BY <1>5, <2>3 DEF SpawnMount, Spawn, KeepClients, journey, TypeOK
<1>6. CASE Register
    BY <1>6 DEF Register, Serving, processes, journey, HandleRegister, TypeOK
<1>7. ASSUME NEW h \in Harnesses, ByClient(h)
      PROVE  TypeOK'
    <2>1. /\ config' = config /\ server' = server /\ mounts' = mounts /\ era' = era
          /\ clients' = clients /\ issued' = issued
        BY <1>7, ClientsOnly
    <2>2. \A k \in Harnesses : form'[k] # Unset => form'[k].client \in Ids /\ form'[k].inOrder
        <3>1. CASE OpenForm(h)
            <4>1. PICK p \in Requested(h) :
                      RequestValid(p, Served(p)) /\ form' = [form EXCEPT ![h] = p]
                BY <3>1 DEF OpenForm
            <4>2. p.client \in Ids /\ p.inOrder
                BY <4>1 DEF RequestValid, ClientRedirectValid, ParamsValid
            <4> QED BY <4>1, <4>2 DEF TypeOK, Indexed
        <3>2. CASE ~OpenForm(h)
            BY <1>7, <3>2 DEF ByClient, Discover, AskForNone, Fail, Approve, Redeem, Refresh,
                              Expire, BeginAttempt, journey, TypeOK, Indexed
        <3> QED BY <3>1, <3>2
    <2>3. \A k \in Harnesses : /\ code'[k] # Unset => code'[k].resource # Nowhere
                               /\ refresh'[k] # Unset => refresh'[k].resource # Nowhere
        <3>1. CASE Approve(h)
            <4>1. code'[h].resource = ResolveResource(config, form[h].resource)
                BY <3>1 DEF Approve, Indexed
            <4>2. code'[h].resource # Nowhere
                BY <3>1, <4>1 DEF Approve, RequestValid, ParamsValid, Served
            <4> QED BY <3>1, <4>2 DEF Approve, TypeOK, Indexed
        <3>2. CASE ~Approve(h)
            BY <1>7, <3>2 DEF ByClient, Discover, AskForNone, OpenForm, Fail, Redeem, Refresh,
                              Expire, BeginAttempt, journey, TypeOK, Indexed
        <3> QED BY <3>1, <3>2
    <2> QED BY <2>1, <2>2, <2>3 DEF TypeOK
<1>8. CASE UNCHANGED vars
    BY <1>8 DEF vars, processes, registry, journey, TypeOK
<1> QED BY <1>2, <1>3, <1>4, <1>5, <1>6, <1>7, <1>8 DEF Next, ByClient

LEMMA InitType == Init => TypeOK /\ Indexed
<1> SUFFICES ASSUME Init PROVE TypeOK /\ Indexed
    OBVIOUS
<1>1. TypeOK
    BY AccessTokensAssumption
    DEF Init, AccessTokensInit, FirstUseInit, RegistrationInit, TypeOK, FirstUseTypeOK
<1>2. Indexed
    BY DEF Init, AccessTokensInit, Indexed
<1> QED BY <1>1, <1>2

(* Type correctness of the journey. *)
THEOREM JourneyTypeCorrect == Spec => []TypeOK
BY InitType, NextType, IndexedKept, PTL DEF Spec
-----------------------------------------------------------------------------
LEMMA StartingKept ==
    ASSUME TypeOK, Starting, ReturnedIsStored, [Next]_vars
    PROVE  Starting' /\ ReturnedIsStored'
<1> USE FirstUseAssumption, AccessTokensAssumption, UsesSlots
        DEF TypeOK, FirstUseTypeOK, Starting, ReturnedIsStored
<1>1. CASE BootFinds
    BY <1>1 DEF BootFinds, Finds, Begins
<1>2. CASE BootMisses
    BY <1>2 DEF BootMisses, Misses, processes
<1>3. CASE BootStores
    <2>1. PICK v \in Secrets :
             /\ Generate(want[Host], v)
             /\ told' = [told EXCEPT ![want[Host]] = @ \cup {v}]
        BY <1>3 DEF BootStores, Stores
    <2>2. want[Host] \in Slots /\ told[want[Host]] = {} /\ want'[Host] = None
        BY <1>3 DEF BootStores, Stores
    <2>3. ReturnedIsStored'
        BY <2>1, <2>2 DEF Generate
    <2> QED BY <2>2, <2>3
<1>4. CASE BootFails
    BY <1>4 DEF BootFails, GivesUp, processes
<1>5. CASE StopServer
    BY <1>5 DEF StopServer, Stop, secretStore
<1>6. CASE Reset
    BY <1>6 DEF Reset, ResetStore, DeleteAll
<1>7. ASSUME NEW m \in Mounts, SpawnMount(m)
      PROVE  Starting' /\ ReturnedIsStored'
    BY <1>7 DEF SpawnMount, Spawn, secretStore
<1>8. CASE Register
    BY <1>8 DEF Register, Serving, secretStore, processes
<1>9. ASSUME NEW h \in Harnesses, ByClient(h)
      PROVE  Starting' /\ ReturnedIsStored'
    BY <1>9, ClientsOnly DEF secretStore
<1>10. CASE UNCHANGED vars
    BY <1>10 DEF vars, secretStore, processes
<1> QED BY <1>1, <1>2, <1>3, <1>4, <1>5, <1>6, <1>7, <1>8, <1>9, <1>10
        DEF Next, Boot, ByClient

LEMMA InitStarting == Init => Starting /\ ReturnedIsStored
BY AccessTokensAssumption
DEF Init, AccessTokensInit, FirstUseInit, Starting, ReturnedIsStored

(* A server that starts, is killed between the lookup and the store of its *)
(* key, or starts after a reset, signs with the key that the next start    *)
(* will load: one server at a time needs no lock for it.                   *)
THEOREM OneServerOneKey == Spec => []ReturnedIsStored
BY InitType, NextType, IndexedKept, InitStarting, StartingKept, PTL DEF Spec
-----------------------------------------------------------------------------
LEMMA RegisteredKept ==
    ASSUME TypeOK, Registered, [Next]_vars
    PROVE  Registered'
<1>1. CASE Register
    <2>1. PICK uris \in SUBSET RedirectURIs : HandleRegister(uris)
        BY <1>1 DEF Register
    <2>2. PICK i \in Ids : clients' = [clients EXCEPT ![i] = uris]
        BY <2>1 DEF HandleRegister
    <2> QED BY <2>1, <2>2 DEF HandleRegister, Registered, TypeOK
<1>2. CASE Reset
    BY <1>2 DEF Reset, ForgetClients, Registered
<1>3. CASE clients' = clients
    BY <1>3 DEF Registered
<1>4. CASE Boot \/ StopServer \/ \E m \in Mounts : SpawnMount(m)
    BY <1>3, <1>4 DEF Boot, StopServer, SpawnMount, KeepClients
<1>5. CASE \E h \in Harnesses : ByClient(h)
    BY <1>3, <1>5, ClientsOnly
<1>6. CASE UNCHANGED vars
    BY <1>3, <1>6 DEF vars, registry
<1> QED BY <1>1, <1>2, <1>4, <1>5, <1>6 DEF Next, ByClient

(* A browser is sent only to a redirect URI that its client holds in the   *)
(* registry when the request is checked and that passed the check of its   *)
(* scheme and host, by the error redirects of every round as much as by    *)
(* the code.                                                               *)
THEOREM OnlyRegisteredRedirects == Spec => RedirectsAreRegistered
<1> DEFINE Step == sent' # Unset =>
                      /\ clients[sent'.client] # Unset
                      /\ sent'.to \in clients[sent'.client]
                      /\ ValidRedirectURI(sent'.to)
<1>1. ASSUME TypeOK, Registered, [Next]_vars
      PROVE  [Step]_registry
    <2>1. CASE \E h \in Harnesses : Fail(h) \/ Approve(h)
        <3>1. PICK h \in Harnesses : Fail(h) \/ Approve(h)
            BY <2>1
        <3>2. \E p, c : /\ ClientRedirectValid(p)
                        /\ sent' = [client |-> p.client, to |-> p.redirect, code |-> c]
            BY <3>1 DEF Fail, Approve, RedirectsError, RequestValid, RedirectWith
        <3>3. PICK p, c : /\ ClientRedirectValid(p)
                          /\ sent' = [client |-> p.client, to |-> p.redirect, code |-> c]
            BY <3>2
        <3>4. sent'.client = p.client /\ sent'.to = p.redirect
            BY <3>3
        <3> QED BY <1>1, <3>3, <3>4 DEF ClientRedirectValid, Registered
    <2>2. CASE sent' = Unset
        BY <2>2
    <2>3. CASE Boot \/ StopServer \/ Reset \/ Register \/ \E m \in Mounts : SpawnMount(m)
        BY <2>2, <2>3 DEF Boot, StopServer, Reset, Register, SpawnMount, KeepClients, NoRedirect
    <2>4. CASE \E h \in Harnesses : ByClient(h) /\ ~Fail(h) /\ ~Approve(h)
        BY <2>2, <2>4 DEF ByClient, Discover, AskForNone, OpenForm, Redeem, Refresh, Expire,
                          BeginAttempt, KeepClients, NoRedirect
    <2>5. CASE UNCHANGED vars
        BY <2>5 DEF vars
    <2> QED BY <1>1, <2>1, <2>3, <2>4, <2>5 DEF Next, ByClient
<1>2. TypeOK /\ Registered /\ [Next]_vars => [Step]_registry
    BY <1>1
<1>3. Init => Registered
    BY DEF Init, RegistrationInit, Registered
<1> QED BY <1>2, <1>3, InitType, NextType, IndexedKept, RegisteredKept, PTL
        DEF Spec, RedirectsAreRegistered
-----------------------------------------------------------------------------
(* No step but a start and a reset lets anybody use a key that nobody used.*)
LEMMA SameKeys ==
    ASSUME KeysAgree, slot' = slot, made' = made, era' = era, KeysInUse' \subseteq KeysInUse
    PROVE  KeysAgree'
BY DEF KeysAgree, KeySlot

LEMMA KeyAdded ==
    ASSUME Indexed, config' = config, mounts' = mounts, token' = token, server = None
    PROVE  KeysInUse' \subseteq KeysInUse \cup {ServerKey'}
BY DEF KeysInUse, KeyOf

LEMMA KeysAgreeKept ==
    ASSUME TypeOK, Indexed, Starting, KeysAgree, [Next]_vars
    PROVE  KeysAgree'
<1> USE FirstUseAssumption, AccessTokensAssumption, UsesSlots
<1>1. CASE BootFinds /\ UNCHANGED journey
    <2> DEFINE a == [key |-> slot[KeySlot(config)], era |-> era, asymmetric |-> config.asymmetric]
    <2>1. /\ slot' = slot /\ made' = made /\ era' = era /\ token' = token
          /\ config' = config /\ mounts' = mounts /\ server = None
          /\ slot[KeySlot(config)] # None
        BY <1>1 DEF BootFinds, Finds, journey
    <2>2. ServerKey' = a
        BY <1>1 DEF BootFinds, ServerKey
    <2>3. KeysInUse' \subseteq KeysInUse \cup {a}
        BY <2>1, <2>2, KeyAdded
    <2>4. KeySlot(a) = KeySlot(config) /\ a.key \in made /\ era \in Nat
        BY <2>1 DEF KeySlot, KeysAgree, TypeOK
    <2>5. \A b \in KeysInUse' : /\ b.key \in made
                                /\ b.era \in 0..era
                                /\ b.era = era <=> b.key = slot[KeySlot(b)]
        BY <2>3, <2>4 DEF KeysAgree
    <2>6. \A b, c \in KeysInUse' : b.asymmetric = c.asymmetric => KeySlot(b) = KeySlot(c)
        BY DEF KeySlot
    <2>7. \A b, c \in KeysInUse' :
              b.asymmetric = c.asymmetric => (b.key = c.key <=> b.era = c.era)
        <3> SUFFICES ASSUME NEW b \in KeysInUse', NEW c \in KeysInUse',
                            b.asymmetric = c.asymmetric
                     PROVE  b.key = c.key <=> b.era = c.era
            OBVIOUS
        <3>1. CASE b \in KeysInUse /\ c \in KeysInUse
            BY <3>1 DEF KeysAgree
        <3>2. CASE b = a \/ c = a
            BY <2>4, <2>5, <2>6, <3>2
        <3> QED BY <2>3, <3>1, <3>2
    <2> QED BY <2>1, <2>5, <2>7 DEF KeysAgree, KeySlot
<1>2. CASE BootStores /\ UNCHANGED journey
    <2>1. PICK v \in Secrets : Generate(want[Host], v)
        BY <1>2 DEF BootStores, Stores
    <2>2. /\ want[Host] = KeySlot(config) /\ slot[KeySlot(config)] = None
          /\ server = None /\ want[Host] \in Slots
        BY <1>2 DEF BootStores, Stores, Starting, TypeOK, FirstUseTypeOK
    <2>3. /\ v \notin made /\ made' = made \cup {v} /\ slot' = [slot EXCEPT ![KeySlot(config)] = v]
          /\ era' = era /\ token' = token /\ config' = config /\ mounts' = mounts
        BY <1>2, <2>1, <2>2 DEF Generate, BootStores, journey
    <2> DEFINE a == [key |-> v, era |-> era, asymmetric |-> config.asymmetric]
    <2>4. ServerKey' = a
        BY <1>2, <2>2, <2>3 DEF BootStores, ServerKey, TypeOK, FirstUseTypeOK
    <2>5. KeysInUse' \subseteq KeysInUse \cup {a}
        BY <2>2, <2>3, <2>4, KeyAdded
    <2>6. era \in Nat /\ KeySlot(a) = KeySlot(config)
        BY DEF TypeOK, KeySlot
    <2>7. None \notin made
        BY DEF TypeOK, FirstUseTypeOK
    <2>8. \A b \in KeysInUse : /\ b.key \in made /\ b.era \in 0..era
                               /\ b.era = era <=> b.key = slot'[KeySlot(b)]
        <3> SUFFICES ASSUME NEW b \in KeysInUse
                     PROVE  /\ b.key \in made /\ b.era \in 0..era
                            /\ b.era = era <=> b.key = slot'[KeySlot(b)]
            OBVIOUS
        <3>1. b.key \in made /\ b.era \in 0..era /\ (b.era = era <=> b.key = slot[KeySlot(b)])
            BY DEF KeysAgree
        <3>2. CASE KeySlot(b) = KeySlot(config)
            <4>1. slot'[KeySlot(b)] = v
                BY <2>2, <2>3, <3>2 DEF TypeOK, FirstUseTypeOK
            <4> QED BY <2>2, <2>3, <2>7, <3>1, <3>2, <4>1
        <3>3. CASE KeySlot(b) # KeySlot(config)
            <4>1. slot'[KeySlot(b)] = slot[KeySlot(b)]
                BY <2>3, <3>3 DEF TypeOK, FirstUseTypeOK
            <4> QED BY <3>1, <4>1
        <3> QED BY <3>2, <3>3
    <2>9. \A b \in KeysInUse : b.asymmetric = a.asymmetric => b.key # a.key /\ b.era # a.era
        <3> SUFFICES ASSUME NEW b \in KeysInUse, b.asymmetric = a.asymmetric
                     PROVE  b.key # a.key /\ b.era # a.era
            OBVIOUS
        <3>1. KeySlot(b) = KeySlot(config)
            BY DEF KeySlot
        <3>2. b.key \in made /\ (b.era = era <=> b.key = None)
            BY <2>2, <3>1 DEF KeysAgree
        <3> QED BY <2>3, <2>7, <3>2
    <2>10. slot'[KeySlot(a)] = v
        BY <2>2, <2>3, <2>6 DEF TypeOK, FirstUseTypeOK
    <2>11. \A b \in KeysInUse' : /\ b.key \in made' /\ b.era \in 0..era'
                                 /\ b.era = era' <=> b.key = slot'[KeySlot(b)]
        BY <2>3, <2>5, <2>6, <2>8, <2>10
    <2>12. \A b, c \in KeysInUse' :
              b.asymmetric = c.asymmetric => (b.key = c.key <=> b.era = c.era)
        <3> SUFFICES ASSUME NEW b \in KeysInUse', NEW c \in KeysInUse',
                            b.asymmetric = c.asymmetric
                     PROVE  b.key = c.key <=> b.era = c.era
            OBVIOUS
        <3>1. CASE b \in KeysInUse /\ c \in KeysInUse
            BY <3>1 DEF KeysAgree
        <3>2. CASE b = a \/ c = a
            BY <2>5, <2>9, <3>2
        <3> QED BY <2>5, <3>1, <3>2
    <2>13. \A s \in Slots : slot'[s] # None => slot'[s] \in made'
        BY <2>3 DEF KeysAgree, TypeOK, FirstUseTypeOK
    <2> QED BY <2>11, <2>12, <2>13 DEF KeysAgree, KeySlot
<1>3. CASE (BootMisses \/ BootFails) /\ UNCHANGED journey
    <2>1. KeysInUse' = KeysInUse
        BY <1>3 DEF BootMisses, BootFails, processes, journey, KeysInUse, KeyOf, ServerKey
    <2> QED BY <1>3, <2>1, SameKeys DEF BootMisses, BootFails, Misses, GivesUp, processes
<1>4. CASE StopServer
    <2>1. KeysInUse' \subseteq KeysInUse
        BY <1>4 DEF StopServer, Stop, KeysInUse, KeyOf
    <2> QED BY <1>4, <2>1, SameKeys DEF StopServer, Stop, secretStore
<1>5. CASE Reset
    <2>1. /\ KeysInUse' = KeysInUse /\ era' = era + 1 /\ made' = made
          /\ slot' = [s \in Slots |-> None]
        BY <1>5 DEF Reset, ResetStore, DeleteAll, KeysInUse, KeyOf, ServerKey
    <2>2. None \notin made /\ era \in Nat
        BY DEF TypeOK, FirstUseTypeOK
    <2>3. \A a : slot'[KeySlot(a)] = None
        BY <2>1
    <2>4. \A a \in KeysInUse' : /\ a.key \in made'
                                /\ a.era \in 0..era'
                                /\ a.era = era' <=> a.key = slot'[KeySlot(a)]
        BY <2>1, <2>2, <2>3 DEF KeysAgree
    <2>5. \A a, b \in KeysInUse' :
              a.asymmetric = b.asymmetric => (a.key = b.key <=> a.era = b.era)
        BY <2>1 DEF KeysAgree
    <2> QED BY <2>1, <2>4, <2>5 DEF KeysAgree, KeySlot
<1>6. ASSUME NEW m \in Mounts, SpawnMount(m)
      PROVE  KeysAgree'
    <2>1. /\ config' = config /\ server' = server /\ token' = token
          /\ UNCHANGED <<era, secretStore>>
        BY <1>6 DEF SpawnMount, Spawn, journey
    <2>2. /\ server # None /\ config.asymmetric = TRUE
          /\ mounts' = [mounts EXCEPT ![m] = MountGate(m)]
        BY <1>6 DEF SpawnMount, Spawn, TypeOK
    <2>3. KeyOf(MountGate(m)) = ServerKey
        BY <2>2 DEF KeyOf, MountGate, Gate, ServerKey
    <2>4. /\ mounts'[m] = MountGate(m)
          /\ \A n \in Mounts : n # m => mounts'[n] = mounts[n]
        BY <2>2 DEF Indexed
    <2>5. \A n \in Mounts : mounts'[n] # None => KeyOf(mounts'[n]) \in KeysInUse
        BY <2>2, <2>3, <2>4 DEF KeysInUse
    <2>6. ASSUME NEW a \in KeysInUse'
          PROVE  a \in KeysInUse
        <3>1. CASE \E n \in Mounts : mounts'[n] # None /\ a = KeyOf(mounts'[n])
            BY <2>5, <3>1
        <3>2. CASE ~\E n \in Mounts : mounts'[n] # None /\ a = KeyOf(mounts'[n])
            BY <2>1, <2>6, <3>2 DEF KeysInUse, KeyOf, ServerKey
        <3> QED BY <3>1, <3>2
    <2>7. KeysInUse' \subseteq KeysInUse
        BY <2>6
    <2> QED BY <2>1, <2>7, SameKeys DEF secretStore
<1>7. CASE Register
    <2>1. KeysInUse' = KeysInUse
        BY <1>7 DEF Register, Serving, processes, journey, KeysInUse, KeyOf, ServerKey
    <2> QED BY <1>7, <2>1, SameKeys DEF Register, Serving, processes, secretStore
<1>8. ASSUME NEW h \in Harnesses, ByClient(h)
      PROVE  KeysAgree'
    <2>1. UNCHANGED <<secretStore, config, server, mounts, era>>
        BY <1>8, ClientsOnly
    <2>2. \A k \in Harnesses : token'[k] # Unset =>
              token'[k] = token[k] \/ (server # None /\ KeyOf(token'[k]) = ServerKey)
        <3>1. CASE Redeem(h)
            <4>1. /\ server # None
                  /\ token' = [token EXCEPT ![h] = MintFor(code[h])]
                BY <3>1 DEF Redeem, Serving
            <4>2. KeyOf(MintFor(code[h])) = ServerKey
                BY DEF KeyOf, MintFor, ServerKey
            <4> QED BY <4>1, <4>2 DEF Indexed
        <3>2. CASE Refresh(h)
            <4>1. /\ server # None
                  /\ token' = [token EXCEPT ![h] = MintFor(refresh[h])]
                BY <3>2 DEF Refresh, Serving
            <4>2. KeyOf(MintFor(refresh[h])) = ServerKey
                BY DEF KeyOf, MintFor, ServerKey
            <4> QED BY <4>1, <4>2 DEF Indexed
        <3>3. CASE Expire(h)
            BY <3>3 DEF Expire, Indexed
        <3>4. CASE token' = token
            BY <3>4
        <3> QED BY <1>8, <3>1, <3>2, <3>3, <3>4
                DEF ByClient, Discover, AskForNone, OpenForm, Fail, Approve, BeginAttempt, journey
    <2>3. \A k \in Harnesses : token'[k] # Unset => KeyOf(token'[k]) \in KeysInUse
        BY <2>2 DEF KeysInUse
    <2>4. KeysInUse' \subseteq KeysInUse
        <3>1. ServerKey' = ServerKey
            BY <2>1 DEF ServerKey
        <3>2. \A k \in Harnesses : token[k]' # Unset => KeyOf(token[k])' \in KeysInUse
            BY <2>3 DEF KeyOf
        <3>3. \A m \in Mounts : mounts[m]' # None =>
                  mounts[m] # None /\ KeyOf(mounts[m])' = KeyOf(mounts[m])
            BY <2>1 DEF KeyOf
        <3>4. /\ server # None => ServerKey \in KeysInUse
              /\ \A m \in Mounts : mounts[m] # None => KeyOf(mounts[m]) \in KeysInUse
            BY DEF KeysInUse
        <3> QED BY <2>1, <3>1, <3>2, <3>3, <3>4 DEF KeysInUse
    <2> QED BY <2>1, <2>4, SameKeys DEF secretStore
<1>9. CASE UNCHANGED vars
    <2>1. KeysInUse' = KeysInUse
        BY <1>9 DEF vars, processes, journey, KeysInUse, KeyOf, ServerKey
    <2> QED BY <1>9, <2>1, SameKeys DEF vars, secretStore, processes
<1> QED BY <1>1, <1>2, <1>3, <1>4, <1>5, <1>6, <1>7, <1>8, <1>9 DEF Next, Boot, ByClient
-----------------------------------------------------------------------------
LEMMA GatesAgreeKept ==
    ASSUME TypeOK, Indexed, GatesAgree, [Next]_vars
    PROVE  GatesAgree'
<1>1. CASE mounts' = mounts /\ config' = config
    BY <1>1 DEF GatesAgree
<1>2. CASE StopServer
    <2>1. mounts' = mounts /\ PublicURL(config') = PublicURL(config)
        BY <1>2, OneSite DEF StopServer, Stop, TypeOK
    <2>2. PublicURL(config)' = PublicURL(config')
        BY DEF PublicURL
    <2> QED BY <2>1, <2>2 DEF GatesAgree
<1>3. ASSUME NEW m \in Mounts, SpawnMount(m)
      PROVE  GatesAgree'
    <2>1. /\ config.asymmetric /\ config' = config
          /\ mounts' = [mounts EXCEPT ![m] = MountGate(m)]
        BY <1>3 DEF SpawnMount, Spawn
    <2>2. /\ MountGate(m).iss = PublicURL(config)
          /\ MountGate(m).aud = TrimRight(MountGate(m).of.mounts[m])
          /\ MountGate(m).asymmetric = TRUE
        BY <2>1, OneSite DEF MountGate, Gate, TypeOK
    <2> QED BY <2>1, <2>2 DEF GatesAgree, Indexed
<1> QED BY <1>1, <1>2, <1>3, ClientsOnly
        DEF Next, Boot, BootFinds, BootMisses, BootStores, BootFails, Reset, ResetStore,
            Register, Serving, processes, vars, ByClient

(* Asking for nothing asks for the default. *)
LEMMA DefaultAsWritten == \A cfg : DefaultResource(cfg) = TrimRight(WrittenDefault(cfg))
BY DEF DefaultResource, WrittenDefault, PublicURL

LEMMA GrantsAgreeKept ==
    ASSUME TypeOK, Indexed, GrantsAgree, [Next]_vars
    PROVE  GrantsAgree'
<1>1. CASE UNCHANGED <<config, code, refresh, token>>
    BY <1>1 DEF GrantsAgree
<1>2. CASE StopServer
    <2>1. /\ PublicURL(config') = PublicURL(config)
          /\ refresh' = refresh /\ token' = token
          /\ code' = [h \in Harnesses |-> Unset]
        BY <1>2, OneSite DEF StopServer, Stop, TypeOK
    <2> QED BY <2>1 DEF GrantsAgree, PublicURL
<1>3. CASE Reset
    BY <1>3 DEF Reset, ResetStore, GrantsAgree
<1>4. CASE Boot \/ Register \/ \E m \in Mounts : SpawnMount(m)
    BY <1>1, <1>4 DEF Boot, BootFinds, BootMisses, BootStores, BootFails, Register, Serving,
                      SpawnMount, Spawn, processes, journey
<1>5. ASSUME NEW h \in Harnesses, ByClient(h)
      PROVE  GrantsAgree'
    <2> USE DEF GrantsAgree, Indexed
    <2>1. config' = config
        BY <1>5, ClientsOnly
    <2>2. CASE Approve(h)
        <3> DEFINE asked == TrimRight(IF form[h].resource = <<>> THEN WrittenDefault(config)
                                      ELSE form[h].resource)
        <3>1. /\ Served(form[h]) /\ refresh' = refresh /\ token' = token
              /\ code' = [code EXCEPT ![h] =
                    [resource |-> ResolveResource(config, form[h].resource), asked |-> asked]]
            BY <2>2 DEF Approve, RequestValid, ParamsValid
        <3>2. ResolveResource(config, form[h].resource) = asked
            BY <3>1, DefaultAsWritten DEF Served, ResolveResource
        <3> HIDE DEF asked
        <3> QED BY <2>1, <3>1, <3>2
    <2>3. CASE Redeem(h)
        BY <2>1, <2>3 DEF Redeem, MintFor
    <2>4. CASE Refresh(h)
        BY <2>1, <2>4 DEF Refresh, MintFor
    <2>5. CASE Expire(h)
        BY <2>1, <2>5 DEF Expire
    <2>6. CASE (\E g \in Gates : Discover(h, g)) \/ AskForNone(h)
        BY <2>1, <2>6 DEF Discover, AskForNone, BeginAttempt
    <2>7. CASE OpenForm(h) \/ Fail(h)
        BY <1>1, <2>1, <2>7 DEF OpenForm, Fail, journey
    <2> QED BY <1>5, <2>2, <2>3, <2>4, <2>5, <2>6, <2>7 DEF ByClient
<1>6. CASE UNCHANGED vars
    BY <1>1, <1>6 DEF vars, processes, journey
<1> QED BY <1>2, <1>3, <1>4, <1>5, <1>6 DEF Next, ByClient

LEMMA InitAgree == Init => KeysAgree /\ GatesAgree /\ GrantsAgree
<1> SUFFICES ASSUME Init PROVE KeysAgree /\ GatesAgree /\ GrantsAgree
    OBVIOUS
<1> USE DEF Init, AccessTokensInit, FirstUseInit
<1>1. KeysInUse = {}
    BY DEF KeysInUse
<1>2. KeysAgree
    BY <1>1 DEF KeysAgree
<1>3. GatesAgree /\ GrantsAgree
    BY DEF GatesAgree, GrantsAgree
<1> QED BY <1>2, <1>3

(* What a gate expects, of whichever process. *)
LEMMA GateExpects ==
    ASSUME GatesAgree, NEW g \in Gates, GateOf(g) # None
    PROVE  /\ GateOf(g).iss = PublicURL(config)
           /\ GateOf(g).aud = TrimRight(WrittenFor(g))
           /\ KeyOf(GateOf(g)) \in KeysInUse
<1> USE AccessTokensAssumption
<1>1. CASE g = Host
    <2>1. server # None /\ GateOf(g) = HostGate
        BY <1>1 DEF GateOf
    <2>2. /\ HostGate.iss = PublicURL(config) /\ HostGate.aud = DefaultResource(config)
          /\ HostGate.of = config /\ KeyOf(HostGate) = ServerKey
        BY DEF HostGate, Gate, KeyOf, ServerKey
    <2> QED BY <1>1, <2>1, <2>2, DefaultAsWritten DEF WrittenFor, KeysInUse
<1>2. CASE g # Host
    <2>1. g \in Mounts /\ GateOf(g) = mounts[g]
        BY <1>2 DEF GateOf, Gates
    <2> QED BY <1>2, <2>1 DEF GatesAgree, WrittenFor, KeysInUse
<1> QED BY <1>1, <1>2

(* A token opens the gates of the resource that was asked for, and no      *)
(* other, for as long as the store keeps the keys; after a reset, no gate  *)
(* that was opened since.  The gates of one era have one key for each      *)
(* algorithm (KeysAgree), and the resource reaches the token as it was     *)
(* asked for (GrantsAgree).                                                *)
THEOREM TokensAreForTheirResource == Spec => []TokensOpenTheirGates
<1>1. ASSUME KeysAgree, GatesAgree, GrantsAgree
      PROVE  TokensOpenTheirGates
    <2> SUFFICES ASSUME NEW h \in Harnesses, NEW g \in Gates,
                        token[h] # Unset, GateOf(g) # None
                 PROVE  Validates(GateOf(g), token[h]) <=>
                           /\ GateOf(g).era = token[h].era
                           /\ GateOf(g).asymmetric = token[h].asymmetric
                           /\ TrimRight(WrittenFor(g)) = token[h].asked
        BY DEF TokensOpenTheirGates
    <2>1. /\ GateOf(g).iss = token[h].iss
          /\ GateOf(g).aud = TrimRight(WrittenFor(g))
          /\ token[h].aud = token[h].asked
        BY <1>1, GateExpects DEF GrantsAgree
    <2>2. KeyOf(GateOf(g)) \in KeysInUse /\ KeyOf(token[h]) \in KeysInUse
        BY <1>1, GateExpects DEF KeysInUse
    <2>3. GateOf(g).asymmetric = token[h].asymmetric =>
              (GateOf(g).key = token[h].key <=> GateOf(g).era = token[h].era)
        BY <1>1, <2>2 DEF KeysAgree, KeyOf
    <2> QED BY <2>1, <2>3 DEF Validates
<1>2. KeysAgree /\ GatesAgree /\ GrantsAgree => TokensOpenTheirGates
    BY <1>1
<1> QED BY <1>2, InitType, NextType, IndexedKept, InitStarting, StartingKept, InitAgree,
           KeysAgreeKept, GatesAgreeKept, GrantsAgreeKept, PTL DEF Spec
-----------------------------------------------------------------------------
(* What URLs reduce to: the audiences that New lists, the suffix that tells*)
(* two of them apart, and the routes that are mounted for them.            *)

(* The parts of a URL; the provers do not take a string for one of STRING.  *)
Parts == STRING \cup {"/", "wellknown"}
URLs == Seq(Parts)

LEMMA TextsAreURLs == Seq(STRING) \subseteq URLs
<1> SUFFICES ASSUME NEW u \in Seq(STRING) PROVE u \in URLs
    OBVIOUS
<1>1. PICK n \in Nat : n = Len(u)
    BY LenProperties
<1>2. u \in [1..n -> STRING]
    BY <1>1, LenProperties
<1>3. u \in [1..n -> Parts]
    BY <1>2 DEF Parts
<1> QED
    BY <1>3, SeqDef DEF URLs

LEMMA ConfigTypes ==
    ASSUME NEW cfg \in Configs
    PROVE  /\ cfg.public \in URLs /\ cfg.resource \in URLs
           /\ cfg.resources \in Seq(URLs) /\ Len(cfg.resources) \in Nat
           /\ \A n \in 1..Len(cfg.resources) : cfg.resources[n] \in URLs
<1>1. /\ cfg.resources \in Seq(Seq(STRING)) /\ Len(cfg.resources) \in Nat
      /\ \A n \in 1..Len(cfg.resources) : cfg.resources[n] \in Seq(STRING)
  <2>1. cfg.resources \in Seq(Seq(STRING))
      BY ResourcesAssumption
  <2> PICK T : T = Seq(STRING)
      OBVIOUS
  <2>2. cfg.resources \in Seq(T)
      BY <2>1
  <2> QED
      BY <2>1, <2>2, LenProperties, ElementOfSeq
<1>2. \A n \in 1..Len(cfg.resources) : cfg.resources[n] \in URLs
    BY <1>1, TextsAreURLs
<1>t. PICK n \in Nat : n = Len(cfg.resources)
    BY <1>1
<1>3. PICK list : n = Len(cfg.resources) /\ list = cfg.resources
    BY <1>t
<1>4. list \in [1..n -> URLs]
  <2> PICK T : T = Seq(STRING)
      OBVIOUS
  <2>1. list \in Seq(T)
      BY <1>1, <1>3
  <2>2. list \in [1..n -> T]
      BY <1>3, <2>1, LenProperties
  <2> QED
      BY <1>2, <1>3, <2>2
<1>5. list \in Seq(URLs)
    BY <1>4, SeqDef
<1> QED
    BY <1>1, <1>2, <1>3, <1>5, ResourcesAssumption, TextsAreURLs

(* Trimmed, a URL does not end in a slash. *)
NoSlash(u) == u = <<>> \/ u[Len(u)] # Slash

LEMMA TrimEnds ==
    ASSUME NEW u \in URLs
    PROVE  TrimRight(u) \in URLs /\ NoSlash(TrimRight(u))
<1> DEFINE other == {i \in 1..Len(u) : u[i] # Slash}
<1>1. PICK n \in Nat : Len(u) = n
    BY LenProperties DEF URLs
<1>2. \A i \in 1..n : u[i] \in Parts
    BY <1>1, ElementOfSeq DEF URLs
<1>3. TrimRight(u) = SubSeq(u, 1, IF other # {} THEN Max(other) ELSE 0)
    BY DEF TrimRight, SelectLastInSeq
<1>4. CASE other = {}
  <2>1. TrimRight(u) = SubSeq(u, 1, 0)
      BY <1>3, <1>4
  <2>2. SubSeq(u, 1, 0) = <<>>
    <3>1. \A i \in 1..0 : u[i] \in Parts
        OBVIOUS
    <3>2. SubSeq(u, 1, 0) \in Seq(Parts) /\ Len(SubSeq(u, 1, 0)) = 0
        BY <3>1, SubSeqProperties
    <3> QED
        BY <3>2, EmptySeq
  <2> QED
      BY <2>1, <2>2, EmptySeq DEF NoSlash, URLs
<1>5. CASE other # {}
  <2>1. other \in SUBSET (0..n)
      BY <1>1
  <2>2. PICK a \in 1..n : a = Max(other) /\ u[a] # Slash
    <3>1. Max(other) \in other
      <4> HIDE DEF other
      <4> QED
          BY <1>1, <1>5, <2>1, MaxMember
    <3> QED
        BY <1>1, <3>1
  <2>3. TrimRight(u) = SubSeq(u, 1, a)
      BY <1>3, <1>5, <2>2
  <2>4. \A i \in 1..a : u[i] \in Parts
      BY <1>2
  <2>5. /\ SubSeq(u, 1, a) \in Seq(Parts)
        /\ Len(SubSeq(u, 1, a)) = a
        /\ \A i \in 1..a : SubSeq(u, 1, a)[i] = u[i]
      BY <2>4, SubSeqProperties
  <2> QED
      BY <2>2, <2>3, <2>5 DEF NoSlash, URLs
<1> QED
    BY <1>4, <1>5

LEMMA TrimKeeps ==
    ASSUME NEW u \in URLs, NoSlash(u)
    PROVE  TrimRight(u) = u
<1> DEFINE other == {i \in 1..Len(u) : u[i] # Slash}
<1>1. PICK n \in Nat : Len(u) = n
    BY LenProperties DEF URLs
<1>2. \A i \in 1..n : u[i] \in Parts
    BY <1>1, ElementOfSeq DEF URLs
<1>3. TrimRight(u) = SubSeq(u, 1, IF other # {} THEN Max(other) ELSE 0)
    BY DEF TrimRight, SelectLastInSeq
<1>4. (IF other # {} THEN Max(other) ELSE 0) = n
  <2>1. CASE n = 0
    <3>1. other = {}
        BY <1>1, <2>1
    <3> QED
        BY <2>1, <3>1
  <2>2. CASE n # 0
    <3>1. u[n] # Slash
      <4>1. u # <<>>
          BY <1>1, <2>2, EmptySeq
      <4> QED
          BY <1>1, <4>1 DEF NoSlash
    <3>2. n \in other /\ other \in SUBSET (0..n) /\ \A y \in other : n >= y
        BY <1>1, <2>2, <3>1
    <3>3. Max(other) = n
      <4> HIDE DEF other
      <4> QED
          BY <1>1, <3>2, MaxIs
    <3> QED
        BY <3>2, <3>3
  <2> QED
      BY <2>1, <2>2
<1>5. /\ SubSeq(u, 1, n) \in Seq(Parts)
      /\ Len(SubSeq(u, 1, n)) = n
      /\ \A i \in 1..n : SubSeq(u, 1, n)[i] = u[i]
    BY <1>2, SubSeqProperties
<1>6. SubSeq(u, 1, n) = u
  <2> PICK t : t = SubSeq(u, 1, n)
      OBVIOUS
  <2>1. t \in Seq(Parts) /\ u \in Seq(Parts) /\ Len(t) = Len(u) /\ \A i \in 1..Len(t) : t[i] = u[i]
      BY <1>1, <1>5 DEF URLs
  <2> QED
      BY <2>1, SeqEqual
<1> QED
    BY <1>3, <1>4, <1>6

-----------------------------------------------------------------------------
(* One turn of New's loop over Resources, and its list after every turn.   *)
Added(list, r) == IF r = <<>> \/ Contains(list, r) THEN list ELSE Append(list, r)

Each(list) == \A i, j \in 1..Len(list) : list[i] = list[j] => i = j

(* Lists of audiences: URLs that do not end in a slash, each once.         *)
Lists == {list \in Seq(URLs) : Len(list) >= 1 /\ Each(list) /\ \A i \in 1..Len(list) : NoSlash(list[i])}

LEMMA AddedIs ==
    ASSUME NEW list \in Lists, NEW r \in URLs, NoSlash(r)
    PROVE  /\ Added(list, r) \in Lists
           /\ Len(Added(list, r)) >= Len(list)
           /\ \A i \in 1..Len(list) : Added(list, r)[i] = list[i]
           /\ r # <<>> => \E i \in 1..Len(Added(list, r)) : Added(list, r)[i] = r
<1>1. list \in Seq(URLs) /\ Len(list) \in Nat /\ Len(list) >= 1
    BY LenProperties DEF Lists
<1>2. CASE r = <<>> \/ Contains(list, r)
  <2>1. Added(list, r) = list
      BY <1>2 DEF Added
  <2> QED
      BY <1>1, <1>2, <2>1 DEF Contains
<1>3. CASE ~(r = <<>> \/ Contains(list, r))
  <2> DEFINE new == Append(list, r)
  <2>1. Added(list, r) = new
      BY <1>3 DEF Added
  <2>2. PICK n \in Nat : n = Len(list) /\ n >= 1
      BY <1>1
  <2>3. /\ new \in Seq(URLs) /\ Len(new) = n + 1
        /\ \A i \in 1..n : new[i] = list[i]
        /\ new[n + 1] = r
      BY <1>1, <2>2, AppendProperties
  <2>4. \A i \in 1..n : list[i] # r
      BY <1>3, <2>2 DEF Contains
  <2> HIDE DEF new
  <2>5. \A i \in 1..n + 1 : i \in 1..n \/ i = n + 1
      OBVIOUS
  <2>6. Each(new)
      BY <2>2, <2>3, <2>4, <2>5 DEF Each, Lists
  <2>7. \A i \in 1..Len(new) : NoSlash(new[i])
      BY <2>2, <2>3, <2>5 DEF Lists
  <2>8. new \in Lists
      BY <2>2, <2>3, <2>6, <2>7 DEF Lists
  <2>9. n + 1 \in 1..Len(new)
      BY <2>3
  <2> QED
      BY <2>1, <2>2, <2>3, <2>8, <2>9
<1> QED
    BY <1>2, <1>3

LEMMA DefaultIs ==
    ASSUME NEW cfg \in Configs
    PROVE  /\ PublicURL(cfg) \in URLs /\ NoSlash(PublicURL(cfg))
           /\ DefaultResource(cfg) \in URLs /\ NoSlash(DefaultResource(cfg))
BY ConfigTypes, TrimEnds DEF PublicURL, DefaultResource

Entry(cfg, n) == TrimRight(cfg.resources[n])

(* The lists after every turn of the loop. *)
Turns(lists, cfg) ==
    /\ lists \in [0..Len(cfg.resources) -> Lists]
    /\ lists[0] = <<DefaultResource(cfg)>>
    /\ \A n \in 1..Len(cfg.resources) : lists[n] = Added(lists[n - 1], Entry(cfg, n))

LEMMA AudiencesTurn ==
    ASSUME NEW cfg \in Configs
    PROVE  \E lists : Turns(lists, cfg) /\ Audiences(cfg) = lists[Len(cfg.resources)]
<1>1. /\ Len(cfg.resources) \in Nat
      /\ \A n \in 1..Len(cfg.resources) : Entry(cfg, n) \in URLs /\ NoSlash(Entry(cfg, n))
    BY ConfigTypes, TrimEnds DEF Entry
<1> DEFINE top == Len(cfg.resources)
           base == <<DefaultResource(cfg)>>
           step == [p \in Lists \X (1..top) |-> Added(p[1], Entry(cfg, p[2]))]
           Right(f) == f = [n \in 0..top |->
                               IF n = 0 THEN base ELSE Added(f[n - 1], Entry(cfg, n))]
           g == CHOOSE f : Right(f)
<1>2. base \in Lists
  <2>1. base \in Seq(URLs) /\ Len(base) = 1 /\ base[1] = DefaultResource(cfg)
      BY DefaultIs, Singleton
  <2> HIDE DEF base
  <2>2. \A i \in 1..Len(base) : i = 1
      BY <2>1
  <2>3. Each(base)
      BY <2>2 DEF Each
  <2>4. \A i \in 1..Len(base) : NoSlash(base[i])
      BY <2>1, <2>2, DefaultIs
  <2>5. base \in Seq(URLs) /\ Len(base) >= 1
      BY <2>1
  <2> QED
      BY <2>3, <2>4, <2>5, Zenon DEF Lists
<1>3. step \in [Lists \X (1..top) -> Lists]
    BY <1>1, AddedIs
<1>4. PICK lists : Recursion(lists, top, Lists, base, step)
  <2> HIDE DEF base, step
  <2> QED
      BY <1>1, <1>2, <1>3, RecursionExists
<1>5. ASSUME NEW n \in 1..top
      PROVE  lists[n - 1] \in Lists /\ lists[n] = Added(lists[n - 1], Entry(cfg, n))
  <2>1. n - 1 \in 0..top
      BY <1>1
  <2>2. lists[n - 1] \in Lists /\ lists[n] = step[<<lists[n - 1], n>>]
      BY <1>4, <2>1 DEF Recursion
  <2> QED
      BY <2>2
<1>6. lists \in [0..top -> Lists] /\ lists[0] = base
    BY <1>4 DEF Recursion
<1>7. Turns(lists, cfg)
    BY <1>5, <1>6 DEF Turns
<1>8. Right(lists)
  <2> DEFINE next == [n \in 0..top |->
                         IF n = 0 THEN base ELSE Added(lists[n - 1], Entry(cfg, n))]
  <2>1. \A n \in 0..top : lists[n] = next[n]
    <3> SUFFICES ASSUME NEW n \in 0..top PROVE lists[n] = next[n]
        OBVIOUS
    <3>1. CASE n = 0
        BY <1>6, <3>1
    <3>2. CASE n # 0
      <4>1. n \in 1..top
          BY <1>1, <3>2
      <4> QED
          BY <1>5, <3>2, <4>1
    <3> QED
        BY <3>1, <3>2
  <2> HIDE DEF base
  <2> QED
      BY <1>6, <2>1
<1>9. Right(g)
  <2> HIDE DEF Right
  <2> QED
      BY <1>8
<1>10. Audiences(cfg) = g[top]
    BY DEF Audiences, AudiencesUpTo, Added, Entry
<1> HIDE DEF g
<1>11. g[0] = base /\ \A n \in 1..top : g[n] = Added(g[n - 1], Entry(cfg, n))
  <2>1. g[0] = base
    <3> 0 \in 0..top
        BY <1>1
    <3> QED
        BY <1>9
  <2>2. ASSUME NEW n \in 1..top PROVE g[n] = Added(g[n - 1], Entry(cfg, n))
    <3> n \in 0..top /\ n # 0
        BY <1>1
    <3> QED
        BY <1>9
  <2> QED
      BY <2>1, <2>2
<1>12. \A n \in 1..top : g[n - 1] \in Lists => g[n] = step[<<g[n - 1], n>>]
    BY <1>11
<1>13. \A n \in 0..top : g[n] = lists[n]
  <2> HIDE DEF base, step
  <2> QED
      BY <1>1, <1>4, <1>11, <1>12, RecursionUnique
<1>14. top \in 0..top
    BY <1>1
<1> QED
    BY <1>7, <1>10, <1>13, <1>14

(* New's list: the default first, every entry once. *)
LEMMA AudiencesAre ==
    ASSUME NEW cfg \in Configs
    PROVE  /\ Audiences(cfg) \in Lists
           /\ Audiences(cfg)[1] = DefaultResource(cfg)
           /\ \A n \in 1..Len(cfg.resources) : Entry(cfg, n) # <<>> =>
                 \E i \in 1..Len(Audiences(cfg)) : Audiences(cfg)[i] = Entry(cfg, n)
<1>1. PICK lists : Turns(lists, cfg) /\ Audiences(cfg) = lists[Len(cfg.resources)]
    BY AudiencesTurn
<1>2. PICK top \in Nat : top = Len(cfg.resources)
    BY ConfigTypes
<1> DEFINE Holds(n) ==
               /\ lists[n][1] = DefaultResource(cfg)
               /\ \A k \in 1..n : Entry(cfg, k) # <<>> =>
                     \E i \in 1..Len(lists[n]) : lists[n][i] = Entry(cfg, k)
           P == {n \in 0..top : Holds(n)}
<1>3. 0 \in P
  <2>1. lists[0][1] = DefaultResource(cfg)
      BY <1>1, Singleton DEF Turns
  <2> QED
      BY <2>1
<1>4. ASSUME NEW n \in 1..top, n - 1 \in P
      PROVE  n \in P
  <2> PICK old, new, r : old = lists[n - 1] /\ new = lists[n] /\ r = Entry(cfg, n)
      OBVIOUS
  <2>1. n - 1 \in 0..top /\ n \in 0..top
      OBVIOUS
  <2>2. old \in Lists /\ new = Added(old, r)
      BY <1>1, <1>2, <2>1 DEF Turns
  <2>3. r \in URLs /\ NoSlash(r)
      BY <1>2, ConfigTypes, TrimEnds DEF Entry
  <2>4. /\ new \in Lists /\ Len(new) >= Len(old)
        /\ \A i \in 1..Len(old) : new[i] = old[i]
        /\ r # <<>> => \E i \in 1..Len(new) : new[i] = r
    <3>1. /\ Added(old, r) \in Lists
          /\ Len(Added(old, r)) >= Len(old)
          /\ \A i \in 1..Len(old) : Added(old, r)[i] = old[i]
          /\ r # <<>> => \E i \in 1..Len(Added(old, r)) : Added(old, r)[i] = r
        BY <2>2, <2>3, AddedIs
    <3> QED
        BY <2>2, <3>1
  <2>5. Len(old) \in Nat /\ Len(new) \in Nat /\ Len(old) >= 1
      BY <2>2, <2>4, LenProperties DEF Lists
  <2>6. \A i \in 1..Len(old) : i \in 1..Len(new)
      BY <2>4, <2>5
  <2>7. new[1] = DefaultResource(cfg)
    <3>1. 1 \in 1..Len(old) /\ old[1] = DefaultResource(cfg)
        BY <1>4, <2>5
    <3> QED
        BY <2>4, <3>1
  <2>8. ASSUME NEW k \in 1..n, Entry(cfg, k) # <<>>
        PROVE  \E i \in 1..Len(new) : new[i] = Entry(cfg, k)
    <3>1. CASE k = n
        BY <2>4, <2>8, <3>1
    <3>2. CASE k # n
      <4>1. k \in 1..n - 1
          BY <3>2
      <4>2. PICK i \in 1..Len(old) : old[i] = Entry(cfg, k)
          BY <1>4, <2>8, <4>1
      <4> QED
          BY <2>4, <2>6, <4>2
    <3> QED
        BY <3>1, <3>2
  <2> QED
      BY <2>1, <2>7, <2>8
<1>5. \A n \in 0..top : n \in P
  <2> HIDE DEF P
  <2> QED
      BY <1>3, <1>4, InductionUpTo
<1>6. top \in 0..top /\ Holds(top)
    BY <1>5
<1>7. Audiences(cfg) = lists[top] /\ lists[top] \in Lists
    BY <1>1, <1>2, <1>6 DEF Turns
<1> QED
    BY <1>2, <1>6, <1>7

(* As New keeps them. *)
LEMMA ResourcesAre ==
    ASSUME NEW cfg \in Configs
    PROVE  /\ ResourcesOf[cfg] = Audiences(cfg)
           /\ ResourcesOf[cfg] \in Seq(URLs) /\ Len(ResourcesOf[cfg]) \in Nat
           /\ DOMAIN ResourcesOf[cfg] = 1..Len(ResourcesOf[cfg])
           /\ \A i \in 1..Len(ResourcesOf[cfg]) :
                 ResourcesOf[cfg][i] \in URLs /\ NoSlash(ResourcesOf[cfg][i])
<1>1. ResourcesOf[cfg] = Audiences(cfg)
    BY DEF ResourcesOf
<1>2. PICK list : list = ResourcesOf[cfg]
    OBVIOUS
<1>3. list \in Lists /\ list \in Seq(URLs)
    BY <1>1, <1>2, AudiencesAre DEF Lists
<1>4. Len(list) \in Nat /\ DOMAIN list = 1..Len(list) /\ \A i \in 1..Len(list) : list[i] \in URLs
    BY <1>3, LenProperties, ElementOfSeq
<1> QED
    BY <1>1, <1>2, <1>3, <1>4 DEF Lists
-----------------------------------------------------------------------------
(* The suffix of a resource, and what it says of the resource. *)
LEMMA SuffixIs ==
    ASSUME NEW base \in URLs, NEW r \in URLs, NoSlash(r), NEW s, s = ResourceSuffix(base, r)
    PROVE  /\ s \in URLs
           /\ s # <<>> => r = s \/ r = base \o s
           /\ IsPrefix(base \o <<Slash>>, r) => s # <<>>
<1> DEFINE rest == SubSeq(r, Len(base) + 1, Len(r))
<1>1. <<Slash>> \in URLs /\ Len(<<Slash>>) = 1 /\ <<Slash>>[1] = Slash
  <2>1. Slash \in Parts
      BY DEF Slash, Parts
  <2> QED
      BY <2>1, Singleton DEF URLs
<1>2. PICK slash \in URLs : slash = <<Slash>>
    BY <1>1
<1>3. Len(slash) = 1 /\ slash[1] = Slash
    BY <1>1, <1>2
<1>4. s = LET left == IF IsPrefix(base, r) THEN rest ELSE r
          IN  IF left = slash THEN <<>> ELSE left
    BY <1>2 DEF ResourceSuffix
<1>5. IsPrefix(base, r) => rest \in URLs /\ r = base \o rest
    BY PrefixCut DEF URLs
<1> HIDE DEF rest
<1>6. s \in URLs /\ (s # <<>> => r = s \/ r = base \o s)
    BY <1>4, <1>5, EmptySeq DEF URLs
<1>7. ASSUME IsPrefix(base \o slash, r) PROVE s # <<>>
  <2> PICK below : below = base \o slash
      OBVIOUS
  <2>1. PICK n \in Nat : n = Len(base)
      BY LenProperties DEF URLs
  <2>2. /\ below \in Seq(Parts) /\ Len(below) = n + 1 /\ below[n + 1] = Slash
        /\ \A i \in 1..n : below[i] = base[i]
    <3>1. base \in Seq(Parts) /\ slash \in Seq(Parts)
        BY DEF URLs
    <3>2. /\ below \in Seq(Parts)
          /\ Len(below) = Len(base) + Len(slash)
          /\ \A p \in 1..Len(base) : below[p] = base[p]
          /\ \A j \in 1..Len(slash) : below[Len(base) + j] = slash[j]
        BY <3>1, Joined
    <3> QED
        BY <1>3, <2>1, <3>2
  <2> DEFINE beyond == SubSeq(r, n + 2, Len(r))
  <2>3. beyond \in Seq(Parts) /\ r = below \o beyond
    <3>1. /\ SubSeq(r, Len(below) + 1, Len(r)) \in Seq(Parts)
          /\ r = below \o SubSeq(r, Len(below) + 1, Len(r))
        BY <1>7, <2>2, PrefixCut DEF URLs
    <3>2. Len(below) + 1 = n + 2
        BY <2>2
    <3> QED
        BY <3>1, <3>2
  <2> HIDE DEF beyond
  <2>4. PICK k \in Nat : k = Len(beyond)
      BY <2>3, LenProperties
  <2>5. /\ Len(r) = n + 1 + k
        /\ \A i \in 1..n + 1 : r[i] = below[i]
    <3>1. /\ Len(r) = Len(below) + Len(beyond)
          /\ \A i \in 1..Len(below) : r[i] = below[i]
        BY <2>2, <2>3, Joined
    <3> QED
        BY <2>2, <2>4, <3>1
  <2>6. IsPrefix(base, r)
    <3>1. \A i \in 1..n : r[i] = base[i] /\ base[i] \in Parts
      <4>1. \A i \in 1..n : i \in 1..n + 1
          OBVIOUS
      <4>2. \A i \in 1..n : base[i] \in Parts
          BY <2>1, ElementOfSeq DEF URLs
      <4> QED
          BY <2>2, <2>5, <4>1, <4>2
    <3>2. /\ SubSeq(base, 1, n) \in Seq(Parts) /\ Len(SubSeq(base, 1, n)) = n
          /\ \A i \in 1..n : SubSeq(base, 1, n)[i] = base[i]
        BY <3>1, SubSeqProperties
    <3>3. /\ SubSeq(r, 1, n) \in Seq(Parts) /\ Len(SubSeq(r, 1, n)) = n
          /\ \A i \in 1..n : SubSeq(r, 1, n)[i] = r[i]
        BY <3>1, SubSeqProperties
    <3>4. SubSeq(base, 1, n) = SubSeq(r, 1, n)
        BY <3>1, <3>2, <3>3, SeqEqual
    <3> QED
        BY <2>1, <2>5, <3>4 DEF IsPrefix
  <2>7. r = base \o rest /\ rest \in URLs
      BY <1>5, <2>6
  <2>8. Len(rest) = k + 1
    <3>1. Len(r) = Len(base) + Len(rest) /\ Len(rest) \in Nat
        BY <2>7, Joined, LenProperties DEF URLs
    <3> QED
        BY <2>1, <2>5, <3>1
  <2>9. rest # slash
    <3>1. CASE k # 0
      <4>1. Len(rest) # Len(slash)
          BY <1>3, <2>8, <3>1
      <4> QED
          BY <4>1
    <3>2. CASE k = 0
      <4>1. Len(r) = n + 1 /\ r[n + 1] = Slash
          BY <2>2, <2>5, <3>2
      <4>2. r = <<>>
          BY <4>1 DEF NoSlash
      <4> QED
          BY <4>1, <4>2, EmptySeq
    <3> QED
        BY <3>1, <3>2
  <2>10. rest # <<>>
      BY <2>8, EmptySeq
  <2> QED
      BY <1>4, <2>6, <2>9, <2>10
<1> QED
    BY <1>2, <1>6, <1>7
-----------------------------------------------------------------------------
(* Two resources with one path are one. *)
LEMMA SuffixTells ==
    ASSUME NEW cfg \in Configs, NEW r \in ToSet(Audiences(cfg)), NEW q \in ToSet(Audiences(cfg)),
           ResourceSuffix(PublicURL(cfg), r) = ResourceSuffix(PublicURL(cfg), q),
           ResourceSuffix(PublicURL(cfg), r) # <<>>
    PROVE  r = q
<1>1. PICK base, s : base = PublicURL(cfg) /\ s = ResourceSuffix(PublicURL(cfg), r)
    OBVIOUS
<1>2. base \in URLs /\ r \in URLs /\ NoSlash(r) /\ q \in URLs /\ NoSlash(q)
    BY <1>1, DefaultIs, ResourcesAre DEF ToSet
<1>3. (r = s \/ r = base \o s) /\ (q = s \/ q = base \o s)
  <2>1. s = ResourceSuffix(base, r) /\ s = ResourceSuffix(base, q) /\ s # <<>>
      BY <1>1
  <2>2. r = s \/ r = base \o s
      BY <1>2, <2>1, SuffixIs, Zenon
  <2>3. q = s \/ q = base \o s
      BY <1>2, <2>1, SuffixIs, Zenon
  <2> QED
      BY <2>2, <2>3
<1>4. \A a, b \in ToSet(Audiences(cfg)) : a = base \o b => a = b
    BY <1>1, ResourcesAssumption
<1>5. (r = base \o q => r = q) /\ (q = base \o r => q = r)
    BY <1>4
<1>6. CASE r = s
    BY <1>3, <1>5, <1>6, Zenon
<1>7. CASE r = base \o s
    BY <1>3, <1>5, <1>7, Zenon
<1> QED
    BY <1>3, <1>6, <1>7

(* The metadata routes: the root's, and one for each resource with a path. *)
Routed == [path : URLs, names : URLs]
Root(cfg) == [path |-> WellKnown, names |-> DefaultResource(cfg)]
SuffixOf(cfg, r) == ResourceSuffix(PublicURL(cfg), r)
RouteOf(cfg, r) == [path |-> WellKnown \o SuffixOf(cfg, r), names |-> r]
RouteRows(cfg) ==
    [i \in DOMAIN ResourcesOf[cfg] |->
        IF SuffixOf(cfg, ResourcesOf[cfg][i]) = <<>> THEN <<>>
        ELSE <<RouteOf(cfg, ResourcesOf[cfg][i])>>]

LEMMA WellKnownIs == WellKnown \in URLs /\ Len(WellKnown) = 2
<1>1. "/" \in Parts /\ "wellknown" \in Parts
    BY DEF Parts
<1>2. \A a, b \in Parts : <<a, b>> \in Seq(Parts) /\ Len(<<a, b>>) = 2
    OBVIOUS
<1>3. <<"/", "wellknown">> \in Seq(Parts) /\ Len(<<"/", "wellknown">>) = 2
    BY <1>1, <1>2, Zenon
<1> QED
    BY <1>3 DEF WellKnown, URLs

LEMMA RouteType ==
    ASSUME NEW cfg \in Configs, NEW r \in URLs, NoSlash(r)
    PROVE  RouteOf(cfg, r) \in Routed /\ SuffixOf(cfg, r) \in URLs
<1>1. SuffixOf(cfg, r) \in URLs
    BY DefaultIs, SuffixIs DEF SuffixOf
<1>2. WellKnown \o SuffixOf(cfg, r) \in URLs
    BY <1>1, WellKnownIs, ConcatProperties DEF URLs
<1> QED
    BY <1>1, <1>2 DEF RouteOf, Routed

LEMMA RowsAre ==
    ASSUME NEW cfg \in Configs, NEW rows, rows = RouteRows(cfg), NEW n, n = Len(ResourcesOf[cfg])
    PROVE  /\ n \in Nat /\ rows \in Seq(Seq(Routed)) /\ Len(rows) = n
           /\ \A i \in 1..n :
                 \/ rows[i] = <<>> /\ SuffixOf(cfg, ResourcesOf[cfg][i]) = <<>>
                 \/ /\ Single(rows[i]) /\ rows[i][1] = RouteOf(cfg, ResourcesOf[cfg][i])
                    /\ SuffixOf(cfg, ResourcesOf[cfg][i]) # <<>>
<1>1. n \in Nat /\ DOMAIN ResourcesOf[cfg] = 1..n
    BY ResourcesAre
<1>2. rows = [i \in 1..n |-> IF SuffixOf(cfg, ResourcesOf[cfg][i]) = <<>> THEN <<>>
                             ELSE <<RouteOf(cfg, ResourcesOf[cfg][i])>>]
    BY <1>1 DEF RouteRows
<1>3. ASSUME NEW i \in 1..n
      PROVE  /\ rows[i] \in Seq(Routed)
             /\ \/ rows[i] = <<>> /\ SuffixOf(cfg, ResourcesOf[cfg][i]) = <<>>
                \/ /\ Single(rows[i]) /\ rows[i][1] = RouteOf(cfg, ResourcesOf[cfg][i])
                   /\ SuffixOf(cfg, ResourcesOf[cfg][i]) # <<>>
  <2>1. PICK x : x = RouteOf(cfg, ResourcesOf[cfg][i])
      OBVIOUS
  <2>2. x \in Routed
      BY <2>1, ResourcesAre, RouteType
  <2>3. <<x>> \in Seq(Routed) /\ Len(<<x>>) = 1 /\ <<x>>[1] = x
      BY <2>2, Singleton
  <2>4. CASE SuffixOf(cfg, ResourcesOf[cfg][i]) = <<>>
      BY <1>2, <2>4, EmptySeq
  <2>5. CASE SuffixOf(cfg, ResourcesOf[cfg][i]) # <<>>
    <3>1. rows[i] = <<x>>
        BY <1>2, <2>1, <2>5
    <3> QED
        BY <2>1, <2>3, <2>5, <3>1 DEF Single
  <2> QED
      BY <2>4, <2>5
<1>4. rows \in [1..n -> Seq(Routed)]
    BY <1>2, <1>3
<1>5. rows \in Seq(Seq(Routed)) /\ Len(rows) = n
  <2> PICK T : T = Seq(Routed)
      OBVIOUS
  <2>1. rows \in [1..n -> T] /\ DOMAIN rows = 1..n
      BY <1>4
  <2>2. rows \in Seq(T)
      BY <1>1, <2>1, SeqDef
  <2>3. Len(rows) = n
      BY <1>1, <2>1, <2>2, LenProperties
  <2> QED
      BY <2>2, <2>3
<1> QED
    BY <1>1, <1>3, <1>5

LEMMA RoutesAre ==
    ASSUME NEW cfg \in Configs, NEW routes, routes = RoutesOf[cfg]
    PROVE  /\ routes \in Seq(Routed) /\ Len(routes) \in Nat /\ DOMAIN routes = 1..Len(routes)
           /\ 1 \in 1..Len(routes) /\ routes[1] = Root(cfg)
           /\ \A k \in 1..Len(routes) : k = 1 \/
                 \E r \in ToSet(Audiences(cfg)) :
                    SuffixOf(cfg, r) # <<>> /\ routes[k] = RouteOf(cfg, r)
           /\ \A r \in ToSet(Audiences(cfg)) : SuffixOf(cfg, r) # <<>> =>
                 \E k \in 1..Len(routes) : routes[k] = RouteOf(cfg, r)
           /\ \A k, l \in 1..Len(routes) : k # 1 /\ l # 1 /\ routes[k] = routes[l] => k = l
<1>1. PICK rows, n, rest :
         rows = RouteRows(cfg) /\ n = Len(ResourcesOf[cfg]) /\ rest = FlattenSeq(rows)
    OBVIOUS
<1>2. /\ n \in Nat /\ rows \in Seq(Seq(Routed)) /\ Len(rows) = n
      /\ \A i \in 1..n :
            \/ rows[i] = <<>> /\ SuffixOf(cfg, ResourcesOf[cfg][i]) = <<>>
            \/ /\ Single(rows[i]) /\ rows[i][1] = RouteOf(cfg, ResourcesOf[cfg][i])
               /\ SuffixOf(cfg, ResourcesOf[cfg][i]) # <<>>
    BY <1>1, RowsAre
<1>3. ~Single(<<>>)
    BY EmptySeq DEF Single
<1>4. PICK list : list = ResourcesOf[cfg]
    OBVIOUS
<1>5. list = Audiences(cfg) /\ DOMAIN list = 1..n /\ Each(list) /\ n = Len(list)
    BY <1>1, <1>4, ResourcesAre, AudiencesAre DEF Lists
<1>6. ASSUME NEW i \in 1..n, NEW j \in 1..n, Single(rows[i]), Single(rows[j]),
             rows[i][1] = rows[j][1]
      PROVE  i = j
  <2>1. RouteOf(cfg, list[i]) = RouteOf(cfg, list[j])
      BY <1>2, <1>3, <1>4, <1>6
  <2>2. list[i] = list[j]
      BY <2>1 DEF RouteOf
  <2> QED
      BY <1>5, <2>2 DEF Each
<1>7. /\ rest \in Seq(Routed)
      /\ \A p \in 1..Len(rest) : \E i \in 1..n : Single(rows[i]) /\ rest[p] = rows[i][1]
      /\ \A i \in 1..n : Single(rows[i]) => \E p \in 1..Len(rest) : rest[p] = rows[i][1]
      /\ \A p, q \in 1..Len(rest) : rest[p] = rest[q] => p = q
  <2>1. \A i \in 1..Len(rows) : rows[i] = <<>> \/ Single(rows[i])
      BY <1>2
  <2>2. \A i, j \in 1..Len(rows) :
           Single(rows[i]) /\ Single(rows[j]) /\ rows[i][1] = rows[j][1] => i = j
      BY <1>2, <1>6
  <2>3. /\ rest \in Seq(Routed)
        /\ \A p \in 1..Len(rest) : \E i \in 1..Len(rows) : Single(rows[i]) /\ rest[p] = rows[i][1]
        /\ \A i \in 1..Len(rows) : Single(rows[i]) => \E p \in 1..Len(rest) : rest[p] = rows[i][1]
        /\ \A p, q \in 1..Len(rest) : rest[p] = rest[q] => p = q
    <3>1. rows \in Seq(Seq(Routed)) /\ rest = FlattenSeq(rows)
        BY <1>1, <1>2
    <3>2. PICK S : S = Routed
        OBVIOUS
    <3>3. rows \in Seq(Seq(S))
        BY <3>1, <3>2
    <3>4. Singles(rows)
        BY <2>1, <2>2 DEF Singles
    <3>5. FlattenSeq(rows) \in Seq(S) /\ ListsOnce(FlattenSeq(rows), rows)
        BY <3>3, <3>4, FlattenSingles
    <3> QED
        BY <3>1, <3>2, <3>5 DEF ListsOnce
  <2> QED
      BY <1>2, <2>3
<1>8. PICK root : root = <<Root(cfg)>>
    OBVIOUS
<1>9. root \in Seq(Routed) /\ Len(root) = 1 /\ root[1] = Root(cfg)
  <2>1. Root(cfg) \in Routed
      BY DefaultIs, WellKnownIs DEF Root, Routed
  <2> QED
      BY <1>8, <2>1, Singleton
<1>10. routes = root \o rest
    BY <1>1, <1>8 DEF RoutesOf, MetadataRoutes, Root, RouteRows, RouteOf, SuffixOf
<1>11. PICK m \in Nat : m = Len(rest)
    BY <1>7, LenProperties
<1>12. /\ routes \in Seq(Routed) /\ Len(routes) = 1 + m
       /\ routes[1] = Root(cfg)
       /\ \A p \in 1..m : routes[1 + p] = rest[p]
  <2>1. /\ routes \in Seq(Routed)
        /\ Len(routes) = Len(root) + Len(rest)
        /\ \A p \in 1..Len(root) : routes[p] = root[p]
        /\ \A j \in 1..Len(rest) : routes[Len(root) + j] = rest[j]
    <3>1. root \in Seq(Routed) /\ rest \in Seq(Routed) /\ routes = root \o rest
        BY <1>7, <1>9, <1>10
    <3>2. PICK S : S = Routed
        OBVIOUS
    <3>3. root \in Seq(S) /\ rest \in Seq(S)
        BY <3>1, <3>2
    <3>4. /\ root \o rest \in Seq(S)
          /\ Len(root \o rest) = Len(root) + Len(rest)
          /\ \A p \in 1..Len(root) : (root \o rest)[p] = root[p]
          /\ \A j \in 1..Len(rest) : (root \o rest)[Len(root) + j] = rest[j]
        BY <3>3, Joined
    <3> QED
        BY <3>1, <3>2, <3>4
  <2> QED
      BY <1>9, <1>11, <2>1
<1>13. ASSUME NEW k \in 1..1 + m, k # 1 PROVE k - 1 \in 1..m /\ routes[k] = rest[k - 1]
  <2>1. k - 1 \in 1..m /\ 1 + (k - 1) = k
      BY <1>13
  <2> QED
      BY <1>12, <2>1
<1>14. ASSUME NEW k \in 1..1 + m, k # 1
       PROVE  \E r \in ToSet(Audiences(cfg)) :
                 SuffixOf(cfg, r) # <<>> /\ routes[k] = RouteOf(cfg, r)
  <2>1. PICK i \in 1..n : Single(rows[i]) /\ rest[k - 1] = rows[i][1]
      BY <1>7, <1>11, <1>13, <1>14
  <2>2. SuffixOf(cfg, list[i]) # <<>> /\ rest[k - 1] = RouteOf(cfg, list[i])
      BY <1>2, <1>3, <1>4, <2>1
  <2>3. list[i] \in ToSet(Audiences(cfg))
      BY <1>5 DEF ToSet
  <2> QED
      BY <1>13, <1>14, <2>2, <2>3
<1>15. ASSUME NEW r \in ToSet(Audiences(cfg)), SuffixOf(cfg, r) # <<>>
       PROVE  \E k \in 1..1 + m : routes[k] = RouteOf(cfg, r)
  <2>1. PICK i \in 1..n : r = list[i]
      BY <1>5 DEF ToSet
  <2>2. Single(rows[i]) /\ rows[i][1] = RouteOf(cfg, r)
      BY <1>2, <1>4, <1>15, <2>1
  <2>3. PICK p \in 1..m : rest[p] = RouteOf(cfg, r)
      BY <1>7, <1>11, <2>2
  <2>4. 1 + p \in 1..1 + m
      OBVIOUS
  <2> QED
      BY <1>12, <2>3, <2>4
<1>16. ASSUME NEW k \in 1..1 + m, NEW l \in 1..1 + m, k # 1, l # 1, routes[k] = routes[l]
       PROVE  k = l
  <2>1. /\ k - 1 \in 1..m /\ routes[k] = rest[k - 1]
        /\ l - 1 \in 1..m /\ routes[l] = rest[l - 1]
      BY <1>13, <1>16
  <2>2. \A p, q \in 1..m : rest[p] = rest[q] => p = q
      BY <1>7, <1>11
  <2>3. k - 1 = l - 1
      BY <1>16, <2>1, <2>2
  <2> QED
      BY <2>3
<1>17. 1 \in 1..1 + m /\ DOMAIN routes = 1..1 + m
    BY <1>12, LenProperties
<1> QED
    BY <1>12, <1>14, <1>15, <1>16, <1>17

(* No path is handled twice. *)
LEMMA RoutesOnce ==
    ASSUME NEW cfg \in Configs, NEW routes, routes = RoutesOf[cfg],
           NEW k \in 1..Len(routes), NEW l \in 1..Len(routes), routes[k].path = routes[l].path
    PROVE  k = l
<1>r. /\ routes[1] = Root(cfg)
      /\ \A i \in 1..Len(routes) : i = 1 \/
            \E r \in ToSet(Audiences(cfg)) :
               SuffixOf(cfg, r) # <<>> /\ routes[i] = RouteOf(cfg, r)
      /\ \A i, j \in 1..Len(routes) : i # 1 /\ j # 1 /\ routes[i] = routes[j] => i = j
    BY RoutesAre
<1>1. routes[1].path = WellKnown
    BY <1>r DEF Root
<1>2. ASSUME NEW r \in ToSet(Audiences(cfg)), NEW s, s = SuffixOf(cfg, r)
      PROVE  s \in URLs /\ RouteOf(cfg, r).path = Cat(WellKnown, s)
  <2>1. r \in URLs /\ NoSlash(r)
      BY ResourcesAre DEF ToSet
  <2> QED
      BY <1>2, <2>1, RouteType DEF RouteOf, Cat
<1>3. ASSUME NEW i \in 1..Len(routes), i # 1
      PROVE  routes[i].path # WellKnown
  <2>1. PICK r \in ToSet(Audiences(cfg)) : SuffixOf(cfg, r) # <<>> /\ routes[i] = RouteOf(cfg, r)
      BY <1>r, <1>3
  <2>2. PICK s, w : s = SuffixOf(cfg, r) /\ w = WellKnown
      OBVIOUS
  <2>3. s \in Seq(Parts) /\ s # <<>> /\ routes[i].path = w \o s
      BY <1>2, <2>1, <2>2 DEF URLs, Cat
  <2>4. w \in Seq(Parts) /\ Len(w) = 2
      BY <2>2, WellKnownIs DEF URLs
  <2>5. Len(w \o s) = 2 + Len(s) /\ Len(s) \in Nat /\ Len(s) # 0
    <3>1. Len(w \o s) = Len(w) + Len(s) /\ Len(s) \in Nat
        BY <2>3, <2>4, Joined
    <3>2. Len(s) # 0
        BY <2>3, EmptySeq
    <3> QED
        BY <2>4, <3>1, <3>2
  <2>6. Len(w \o s) # Len(w)
      BY <2>4, <2>5
  <2> QED
      BY <2>2, <2>3, <2>6
<1>4. CASE k = 1 \/ l = 1
    BY <1>1, <1>3, <1>4
<1>5. CASE k # 1 /\ l # 1
  <2>1. PICK r \in ToSet(Audiences(cfg)) : SuffixOf(cfg, r) # <<>> /\ routes[k] = RouteOf(cfg, r)
      BY <1>r, <1>5
  <2>2. PICK q \in ToSet(Audiences(cfg)) : SuffixOf(cfg, q) # <<>> /\ routes[l] = RouteOf(cfg, q)
      BY <1>r, <1>5
  <2>3. PICK s, t : s = SuffixOf(cfg, r) /\ t = SuffixOf(cfg, q)
      OBVIOUS
  <2>4. s \in Seq(Parts) /\ t \in Seq(Parts) /\ Cat(WellKnown, s) = Cat(WellKnown, t)
      BY <1>2, <2>1, <2>2, <2>3 DEF URLs
  <2>5. s = t
      BY <2>4, WellKnownIs, CatCancels DEF URLs
  <2>6. r = q
      BY <2>1, <2>3, <2>5, SuffixTells DEF SuffixOf
  <2> QED
      BY <1>r, <1>5, <2>1, <2>2, <2>6
<1> QED
    BY <1>4, <1>5

(* What the host serves at the URL of a route. *)
LEMMA DocumentIs ==
    ASSUME NEW cfg \in Configs, NEW routes, routes = RoutesOf[cfg], NEW k \in 1..Len(routes),
           NEW u, u = Cat(PublicURL(cfg), routes[k].path)
    PROVE  Document(cfg, u) = routes[k].names
<1>1. routes \in Seq(Routed) /\ Len(routes) \in Nat
    BY RoutesAre
<1>2. PICK n \in Nat : n = Len(routes)
    BY <1>1
<1>3. \A i \in 1..n : routes[i].path \in Seq(Parts)
  <2>1. \A i \in 1..n : routes[i] \in Routed
      BY <1>1, <1>2, ElementOfSeq
  <2> QED
      BY <2>1 DEF Routed, URLs
<1> DEFINE at == {i \in 1..Len(routes) : PublicURL(cfg) \o routes[i].path = u}
<1>4. Document(cfg, u) = LET first == IF at # {} THEN Min(at) ELSE 0
                         IN  IF first = 0 THEN Nowhere ELSE routes[first].names
    BY DEF Document, SelectInSeq
<1>5. at = {i \in 1..n : Cat(PublicURL(cfg), routes[i].path) = u}
    BY <1>2 DEF Cat
<1>6. ASSUME NEW i \in 1..n, Cat(PublicURL(cfg), routes[i].path) = u PROVE i = k
  <2>1. PICK a, b, base : a = routes[i].path /\ b = routes[k].path /\ base = PublicURL(cfg)
      OBVIOUS
  <2>2. a \in Seq(Parts) /\ b \in Seq(Parts) /\ base \in Seq(Parts)
      BY <1>2, <1>3, <2>1, DefaultIs DEF URLs
  <2>3. Cat(base, a) = Cat(base, b)
      BY <1>6, <2>1
  <2>4. a = b
      BY <2>2, <2>3, CatCancels
  <2> QED
      BY <1>2, <2>1, <2>4, RoutesOnce
<1>7. at \in SUBSET Nat /\ k \in at /\ \A i \in at : i = k
  <2> HIDE DEF at
  <2>1. k \in 1..n /\ Cat(PublicURL(cfg), routes[k].path) = u
      BY <1>2
  <2>2. \A i \in at : i \in 1..n /\ Cat(PublicURL(cfg), routes[i].path) = u
      BY <1>5
  <2>3. k \in at
      BY <1>5, <2>1
  <2>4. \A i \in at : i = k /\ i \in Nat
      BY <1>6, <2>2
  <2> QED
      BY <2>3, <2>4
<1>8. Min(at) = k /\ k # 0 /\ at # {}
  <2> HIDE DEF at
  <2>1. k \in Nat /\ k # 0 /\ \A y \in at : k <= y
      BY <1>2, <1>7
  <2>2. Min(at) = k
      BY <1>7, <2>1, MinIs
  <2> QED
      BY <1>7, <2>1, <2>2
<1> QED
    BY <1>4, <1>8

(* A resource with a path of its own, and the default one, are served and  *)
(* can be asked for.                                                       *)
LEMMA IsServed ==
    ASSUME NEW cfg \in Configs, NEW r \in ToSet(Audiences(cfg)),
           SuffixOf(cfg, r) # <<>> \/ r = DefaultResource(cfg)
    PROVE  /\ Document(cfg, MetadataURL(PublicURL(cfg), r)) = r
           /\ ResolveResource(cfg, r) = r
<1>1. r \in URLs /\ NoSlash(r)
    BY ResourcesAre DEF ToSet
<1>2. PICK base, s, routes : base = PublicURL(cfg) /\ s = SuffixOf(cfg, r) /\ routes = RoutesOf[cfg]
    OBVIOUS
<1>3. base \in Seq(Parts) /\ s \in Seq(Parts) /\ WellKnown \in Seq(Parts)
    BY <1>1, <1>2, DefaultIs, RouteType, WellKnownIs DEF URLs
<1>4. MetadataURL(PublicURL(cfg), r) = Cat(Cat(base, WellKnown), s)
    BY <1>2 DEF MetadataURL, SuffixOf, Cat
<1>5. PICK k \in 1..Len(routes) :
         routes[k].names = r /\ Cat(Cat(base, WellKnown), s) = Cat(base, routes[k].path)
  <2>1. CASE s # <<>>
    <3>1. PICK k \in 1..Len(routes) : routes[k] = RouteOf(cfg, r)
        BY <1>2, <2>1, RoutesAre
    <3>2. routes[k].names = r /\ routes[k].path = Cat(WellKnown, s)
        BY <1>2, <3>1 DEF RouteOf, Cat
    <3> QED
        BY <1>3, <3>2, CatAssociative
  <2>2. CASE s = <<>>
    <3>1. r = DefaultResource(cfg)
        BY <1>2, <2>2
    <3>2. 1 \in 1..Len(routes) /\ routes[1] = Root(cfg)
        BY <1>2, RoutesAre
    <3>3. routes[1].names = r /\ routes[1].path = WellKnown
        BY <3>1, <3>2 DEF Root
    <3>4. Cat(base, WellKnown) \in Seq(Parts)
        BY <1>3, CatType
    <3>5. Cat(Cat(base, WellKnown), s) = Cat(base, WellKnown)
        BY <2>2, <3>4, ConcatEmptySeq DEF Cat
    <3> QED
        BY <3>2, <3>3, <3>5
  <2> QED
      BY <2>1, <2>2
<1>6. Document(cfg, MetadataURL(PublicURL(cfg), r)) = r
    BY <1>2, <1>4, <1>5, DocumentIs
<1>7. ResolveResource(cfg, r) = r
  <2>1. TrimRight(r) = r
      BY <1>1, TrimKeeps
  <2>2. r \in ToSet(ResourcesOf[cfg])
      BY ResourcesAre
  <2>3. Contains(ResourcesOf[cfg], r)
      BY <2>2 DEF Contains, ToSet
  <2>4. CASE r = <<>>
    <3>1. SuffixOf(cfg, r) = <<>>
      <4>1. PICK rest : rest = SubSeq(r, Len(base) + 1, Len(r))
          OBVIOUS
      <4>2. IsPrefix(base, r) => rest \in Seq(Parts) /\ r = base \o rest
          BY <1>1, <1>3, <4>1, PrefixCut DEF URLs
      <4>3. ASSUME IsPrefix(base, r) PROVE rest = <<>>
        <5>1. rest \in Seq(Parts) /\ r = base \o rest
            BY <4>2, <4>3
        <5>2. /\ Len(r) = Len(base) + Len(rest)
              /\ Len(base) \in Nat /\ Len(rest) \in Nat
            BY <1>3, <5>1, Joined
        <5>3. Len(r) = 0
            BY <2>4, EmptySeq
        <5>4. \A a, b \in Nat : 0 = a + b => b = 0
            OBVIOUS
        <5>5. Len(rest) = 0
            BY <5>2, <5>3, <5>4
        <5> QED
            BY <5>1, <5>5, EmptySeq
      <4> QED
          BY <1>2, <2>4, <4>1, <4>3 DEF SuffixOf, ResourceSuffix
    <3> QED
        BY <2>4, <3>1 DEF ResolveResource
  <2>5. CASE r # <<>>
      BY <2>1, <2>3, <2>5 DEF ResolveResource
  <2> QED
      BY <2>4, <2>5
<1> QED
    BY <1>6, <1>7
-----------------------------------------------------------------------------
LEMMA MountsSpawnedKept ==
    ASSUME TypeOK, Indexed, MountsSpawned, [Next]_vars
    PROVE  MountsSpawned'
<1>1. CASE mounts' = mounts
    BY <1>1 DEF MountsSpawned
<1>2. ASSUME NEW m \in Mounts, SpawnMount(m)
      PROVE  MountsSpawned'
    <2>1. /\ config.asymmetric /\ SitsUnder(config.issuer, config.mounts[m])
          /\ config \in Configs /\ mounts' = [mounts EXCEPT ![m] = MountGate(m)]
        BY <1>2 DEF SpawnMount, Spawn, TypeOK
    <2>2. PICK gate : gate = MountGate(m)
        OBVIOUS
    <2>3. /\ gate.of = config /\ gate.aud = TrimRight(config.mounts[m])
          /\ gate.prm = MetadataURL(PublicURL(config), gate.aud)
        BY <2>1, <2>2, OneSite DEF MountGate, Gate
    <2> QED BY <2>1, <2>2, <2>3 DEF MountsSpawned, Indexed
<1> QED BY <1>1, <1>2, ClientsOnly
        DEF Next, Boot, BootFinds, BootMisses, BootStores, BootFails, StopServer, Stop, Reset,
            ResetStore, Register, Serving, processes, vars, ByClient

LEMMA InitMounts == Init => MountsSpawned
BY DEF Init, AccessTokensInit, MountsSpawned

(* What a delegate guards is listed, and has a path of its own. *)
LEMMA MountIsListed ==
    ASSUME NEW cfg \in Configs, NEW m \in Mounts,
           cfg.asymmetric, SitsUnder(cfg.issuer, cfg.mounts[m]),
           NEW aud, aud = TrimRight(cfg.mounts[m])
    PROVE  aud \in ToSet(Audiences(cfg)) /\ SuffixOf(cfg, aud) # <<>>
<1>1. aud # <<>> /\ IsPrefix(PublicURL(cfg) \o <<Slash>>, aud)
    BY OneSite DEF SitsUnder
<1>2. aud \in URLs /\ NoSlash(aud)
    BY AccessTokensAssumption, TextsAreURLs, TrimEnds
<1>3. SuffixOf(cfg, aud) # <<>>
    BY <1>1, <1>2, DefaultIs, SuffixIs DEF SuffixOf
<1>4. PICK n \in 1..Len(cfg.resources) : Entry(cfg, n) = aud
  <2>1. PICK r \in ToSet(cfg.resources) : TrimRight(r) = aud
      BY MountsAreListed
  <2>2. DOMAIN cfg.resources = 1..Len(cfg.resources)
      BY ConfigTypes, LenProperties
  <2> QED
      BY <2>1, <2>2 DEF ToSet, Entry
<1>5. PICK list : list = Audiences(cfg)
    OBVIOUS
<1>6. PICK i \in 1..Len(list) : list[i] = aud
    BY <1>1, <1>4, <1>5, AudiencesAre
<1>7. DOMAIN list = 1..Len(list)
    BY <1>5, ResourcesAre
<1> QED
    BY <1>3, <1>5, <1>6, <1>7 DEF ToSet

(* However its resources are spelled, a server mounts no metadata route    *)
(* twice, on which ServeMux would panic: the audiences differ, and two     *)
(* with one path below the public URL would be one.                        *)
THEOREM RoutesAreDistinct == Spec => []RoutesAreMountedOnce
<1>1. ASSUME TypeOK
      PROVE  RoutesAreMountedOnce
    <2>1. PICK routes : routes = RoutesOf[config]
        OBVIOUS
    <2>2. config \in Configs /\ DOMAIN routes = 1..Len(routes)
        BY <1>1, <2>1, RoutesAre DEF TypeOK
    <2>3. \A i, j \in 1..Len(routes) : routes[i].path = routes[j].path => i = j
        BY <2>1, <2>2, RoutesOnce
    <2> QED BY <2>1, <2>2, <2>3 DEF RoutesAreMountedOnce
<1>2. TypeOK => RoutesAreMountedOnce
    BY <1>1
<1> QED BY <1>2, JourneyTypeCorrect, PTL

(* The metadata URL that a gate derives on its own is served by the host   *)
(* and names what the gate expects, which can be asked for: the gate of a  *)
(* delegate that the configuration lists has a route of its own, that of   *)
(* the server the root's or its own.                                       *)
THEOREM ChallengesLeadToTheirGates == Spec => []ChallengesAreServed
<1>1. ASSUME TypeOK, MountsSpawned
      PROVE  ChallengesAreServed
    <2> SUFFICES ASSUME server # None, NEW g \in CurrentGates
                 PROVE  /\ Document(config, GateOf(g).prm) = GateOf(g).aud
                        /\ ResolveResource(config, GateOf(g).aud) = GateOf(g).aud
        BY DEF ChallengesAreServed
    <2>1. g \in Gates /\ GateOf(g) # None /\ GateOf(g).of = config /\ config \in Configs
        BY <1>1 DEF CurrentGates, TypeOK
    <2>2. PICK aud : aud = GateOf(g).aud
        OBVIOUS
    <2>3. /\ GateOf(g).prm = MetadataURL(PublicURL(config), aud)
          /\ aud \in ToSet(Audiences(config))
          /\ SuffixOf(config, aud) # <<>> \/ aud = DefaultResource(config)
      <3>1. CASE g = Host
          <4>1. GateOf(g) = HostGate
              BY <2>1, <3>1 DEF GateOf
          <4>2. GateOf(g).prm = MetadataURL(PublicURL(config), aud) /\ aud = DefaultResource(config)
              BY <2>2, <4>1 DEF HostGate, Gate
          <4>3. PICK list : list = Audiences(config)
              OBVIOUS
          <4>4. list[1] = aud /\ 1 \in DOMAIN list
            <5>1. list \in Lists /\ list[1] = aud
                BY <2>1, <4>2, <4>3, AudiencesAre
            <5>2. DOMAIN list = 1..Len(list) /\ Len(list) \in Nat
                BY <2>1, <4>3, ResourcesAre
            <5> QED
                BY <5>1, <5>2 DEF Lists
          <4> QED BY <4>2, <4>3, <4>4 DEF ToSet
      <3>2. CASE g # Host
          <4>1. g \in Mounts /\ GateOf(g) = mounts[g]
              BY <2>1, <3>2 DEF GateOf, Gates
          <4>2. /\ config.asymmetric /\ SitsUnder(config.issuer, config.mounts[g])
                /\ aud = TrimRight(config.mounts[g])
                /\ GateOf(g).prm = MetadataURL(PublicURL(config), aud)
              BY <1>1, <2>1, <2>2, <4>1 DEF MountsSpawned
          <4> QED BY <2>1, <4>1, <4>2, MountIsListed
      <3> QED BY <3>1, <3>2
    <2> QED BY <2>1, <2>2, <2>3, IsServed
<1>2. TypeOK /\ MountsSpawned => ChallengesAreServed
    BY <1>1
<1> QED BY <1>2, InitType, NextType, IndexedKept, InitMounts, MountsSpawnedKept, PTL DEF Spec
=============================================================================
