---------------------------- MODULE AccessTokens ----------------------------
(***************************************************************************)
(* Who signs access tokens and who accepts them: a server process that     *)
(* loads or creates its signing key when it starts (src/server.go New,     *)
(* src/token.go) and the delegates that it spawns with its public key      *)
(* (src/resource.go).  The server may be started anew, with another        *)
(* configuration and after a reset of the store; delegates live on until   *)
(* they are spawned again.                                                 *)
(*                                                                         *)
(* A signature is named by the secret that made it and by its algorithm;   *)
(* a public key by its private key.  Expiry is left to the composition.    *)
(***************************************************************************)
EXTENDS FirstUse, Resources

CONSTANTS
    Mounts,         \* delegate processes
    Host,           \* the server's own gate
    MaxResets       \* bound: how often the store is reset

ASSUME AccessTokensAssumption ==
    /\ Host \in Callers \ Mounts
    /\ {"signing-key", "ed25519-seed"} \subseteq Slots
    /\ MaxResets \in Nat
    /\ \A cfg \in Configs :
          /\ cfg.asymmetric \in BOOLEAN
          /\ \A m \in Mounts : cfg.mounts[m] \in Seq(STRING)

(* A deployment keeps its public URL, in whatever spelling, and a host     *)
(* tells its delegates that URL (src/resource.go:25-28).                   *)
ASSUME OneSite ==
    \A cfg, next \in Configs :
        /\ PublicURL(cfg) = PublicURL(next)
        /\ cfg.asymmetric => TrimRight(cfg.issuer) = PublicURL(cfg)

(* Resources has an entry for every mount (src/server.go:43-45).           *)
ASSUME MountsAreListed ==
    \A cfg \in Configs, m \in Mounts :
        cfg.asymmetric /\ SitsUnder(cfg.issuer, cfg.mounts[m]) =>
            \E r \in ToSet(cfg.resources) : TrimRight(r) = TrimRight(cfg.mounts[m])

VARIABLES
    config,         \* the configuration of the server, or of its next start
    server,         \* the running server [key, era], or None
    mounts,         \* mounts[m]: the gate of delegate m, or None
    era             \* history: how often the store was reset

processes == <<config, server, mounts, era>>

AccessTokensInit ==
    /\ FirstUseInit
    /\ config \in Configs
    /\ server = None
    /\ mounts = [m \in Mounts |-> None]
    /\ era = 0

-----------------------------------------------------------------------------
(* Algorithms have slots of their own in the store. *)
KeySlot(cfg) == IF cfg.asymmetric THEN "ed25519-seed" ELSE "signing-key"

(* New loads the key that is stored ... *)
BootFinds ==
    /\ server = None
    /\ Finds(Host, KeySlot(config))
    /\ server' = [key |-> slot[KeySlot(config)], era |-> era]
    /\ UNCHANGED <<config, mounts, era>>

(* ... or finds none, generates one ... *)
BootMisses ==
    /\ server = None
    /\ Misses(Host, KeySlot(config))
    /\ UNCHANGED processes

(* ... and keeps it once it is stored. *)
BootStores ==
    /\ Stores(Host)
    /\ server' = [key |-> slot'[want[Host]], era |-> era]
    /\ UNCHANGED <<config, mounts, era>>

(* Set fails or the process is killed: New returns no server. *)
BootFails == GivesUp(Host) /\ UNCHANGED processes

(* The server stops; its next start may have another configuration. *)
Stop ==
    /\ server # None
    /\ server' = None
    /\ config' \in Configs
    /\ UNCHANGED <<mounts, era, secretStore>>

(* What a verifier accepts: Issuer.Validate's four conditions. *)
Gate(issuer, audience, asymmetric, s) ==
    [iss |-> issuer, aud |-> audience, asymmetric |-> asymmetric, key |-> s.key,
     era |-> s.era, prm |-> MetadataURL(issuer, audience), of |-> config]

(* Server.Protect guards the default resource. *)
HostGate ==
    Gate(PublicURL(config), DefaultResource(config), config.asymmetric, server)

(* Mutation of MountGate: the audience as it is written. *)
MountGateAsWritten(m) == Gate(PublicURL(config), config.mounts[m], TRUE, server)

(* NewResourceServer, from the URLs that the host writes for delegate m.   *)
MountGate(m) ==
    Gate(TrimRight(config.issuer), TrimRight(config.mounts[m]), TRUE, server)

(* The server spawns m with its public key; a symmetric server has none,   *)
(* and without one a delegate does not start.                              *)
Spawn(m) ==
    /\ server # None
    /\ config.asymmetric
    /\ SitsUnder(config.issuer, config.mounts[m])
    /\ mounts' = [mounts EXCEPT ![m] = MountGate(m)]
    /\ UNCHANGED <<config, server, era, secretStore>>

(* The gate of g, if its process runs. *)
Gates == {Host} \cup Mounts
GateOf(g) == IF g # Host THEN mounts[g] ELSE IF server = None THEN None ELSE HostGate

(* Mutation of MintFor: the audience is that of the issuer, as in Mint.    *)
MintOwn(grant) ==
    [iss |-> PublicURL(config), aud |-> DefaultResource(config),
     asymmetric |-> config.asymmetric, key |-> server.key, era |-> server.era,
     asked |-> grant.asked]

(* MintFor: a token of the running server for the audience of a grant.     *)
MintFor(grant) ==
    [iss |-> PublicURL(config), aud |-> grant.resource,
     asymmetric |-> config.asymmetric, key |-> server.key, era |-> server.era,
     asked |-> grant.asked]

(* Validate: the pinned algorithm, signature, issuer and audience.         *)
Validates(g, token) ==
    /\ token.asymmetric = g.asymmetric
    /\ token.key = g.key
    /\ token.iss = g.iss
    /\ token.aud = g.aud

(* `pair reset`: every secret and document is gone, running processes stay.*)
ResetStore ==
    /\ era < MaxResets
    /\ era' = era + 1
    /\ DeleteAll
    /\ UNCHANGED <<config, server, mounts>>
=============================================================================
