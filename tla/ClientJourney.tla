--------------------------- MODULE ClientJourney ---------------------------
(***************************************************************************)
(* The journey of an MCP client: it calls a gate and is challenged, reads  *)
(* the metadata that the challenge points at, registers, has a person      *)
(* approve it, redeems the code and calls again, and later refreshes.  The *)
(* server may stop, start anew or be reset between any two of these; a     *)
(* client that is at a loss begins again.                                  *)
(*                                                                         *)
(* Composes AccessTokens and ClientRegistration.  That a code or refresh   *)
(* token is redeemed once and for the approved grant is TokenEndpoint's    *)
(* subject; redeeming is one step here.  Who approves is AuthorizeFlow's.  *)
(***************************************************************************)
EXTENDS AccessTokens, ClientRegistration

CONSTANTS
    Harnesses,      \* MCP clients
    Spellings       \* endings that clients put to a resource: <<>>, <<"/">>

VARIABLES
    asks,           \* asks[h]: the resource h will name, or Nowhere
    form,           \* form[h]: the parameters in the browser's form, or Unset
    code,           \* code[h]: the grant behind h's unredeemed code, or Unset
    refresh,        \* refresh[h]: the stored grant of h's refresh token, or Unset
    token           \* token[h]: h's unexpired access token, or Unset

journey == <<asks, form, code, refresh, token>>
vars == <<secretStore, processes, registry, journey>>

Init ==
    /\ AccessTokensInit
    /\ RegistrationInit
    /\ asks = [h \in Harnesses |-> Nowhere]
    /\ form = [h \in Harnesses |-> Unset]
    /\ code = [h \in Harnesses |-> Unset]
    /\ refresh = [h \in Harnesses |-> Unset]
    /\ token = [h \in Harnesses |-> Unset]

-----------------------------------------------------------------------------
(* The processes. *)

(* A step whose answer is no redirect. *)
NoRedirect == sent' = Unset

KeepClients == UNCHANGED <<clients, issued>> /\ NoRedirect

(* A start of the server, step by step. *)
Boot ==
    /\ BootFinds \/ BootMisses \/ BootStores \/ BootFails
    /\ KeepClients
    /\ UNCHANGED journey

(* With the server its unredeemed codes are gone. *)
StopServer ==
    /\ Stop
    /\ code' = [h \in Harnesses |-> Unset]
    /\ KeepClients
    /\ UNCHANGED <<asks, form, refresh, token>>

SpawnMount(m) ==
    /\ Spawn(m)
    /\ KeepClients
    /\ UNCHANGED journey

(* Registrations and refresh tokens are in the store, forms in browsers,   *)
(* access tokens with their clients and codes in the server's memory.      *)
Reset ==
    /\ ResetStore
    /\ ForgetClients
    /\ NoRedirect
    /\ refresh' = [h \in Harnesses |-> Unset]
    /\ UNCHANGED <<asks, form, code, token>>

-----------------------------------------------------------------------------
(* The client and its browser; each step is one request to the server. *)
Serving == server # None /\ UNCHANGED <<secretStore, processes>>

(* h starts an attempt and gives up the one before. *)
BeginAttempt(h, resource) ==
    /\ asks' = [asks EXCEPT ![h] = resource]
    /\ form' = [form EXCEPT ![h] = Unset]
    /\ code' = [code EXCEPT ![h] = Unset]
    /\ KeepClients
    /\ UNCHANGED <<refresh, token>>

(* Gate g refuses h, which fetches the metadata that the 401 points at.    *)
Discover(h, g) ==
    /\ Serving
    /\ GateOf(g) # None
    /\ token[h] # Unset => ~Validates(GateOf(g), token[h])
    /\ BeginAttempt(h, Document(config, GateOf(g).prm))

(* h knows its server from before and names no resource. *)
AskForNone(h) == Serving /\ BeginAttempt(h, <<>>)

Register ==
    /\ Serving
    /\ \E uris \in SUBSET RedirectURIs : HandleRegister(uris)
    /\ NoRedirect
    /\ UNCHANGED journey

(* The requests that a browser may bring for h. *)
Requested(h) ==
    [client : Ids, redirect : RedirectURIs, inOrder : BOOLEAN,
     resource : {IF asks[h] = <<>> THEN <<>> ELSE asks[h] \o s : s \in Spellings}]

Served(p) == ResolveResource(config, p.resource) # Nowhere

(* authorizeForm: the form is shown, its parameters hidden in it. *)
OpenForm(h) ==
    /\ Serving
    /\ asks[h] # Nowhere
    /\ \E p \in Requested(h) :
          /\ RequestValid(p, Served(p))
          /\ form' = [form EXCEPT ![h] = p]
    /\ asks' = [asks EXCEPT ![h] = Nowhere]
    /\ KeepClients
    /\ UNCHANGED <<code, refresh, token>>

(* validatedRequest answers the GET, or a later POST, with an error.       *)
Fail(h) ==
    /\ Serving
    /\ \E p \in Requested(h) \cup ({form[h]} \ {Unset}) :
          RedirectsError(p, Served(p)) /\ RedirectWith(p, FALSE)
    /\ UNCHANGED journey

(* The default resource as the configuration has it. *)
WrittenDefault(cfg) == IF TrimRight(cfg.resource) = <<>> THEN cfg.public ELSE cfg.resource

(* authorizeSubmit, the last POST: a code for the resolved resource; what  *)
(* was asked for is history.                                               *)
Approve(h) ==
    /\ Serving
    /\ form[h] # Unset
    /\ RequestValid(form[h], Served(form[h]))
    /\ code' = [code EXCEPT ![h] =
          [resource |-> ResolveResource(config, form[h].resource),
           asked |-> TrimRight(IF form[h].resource = <<>> THEN WrittenDefault(config)
                               ELSE form[h].resource)]]
    /\ RedirectWith(form[h], TRUE)
    /\ form' = [form EXCEPT ![h] = Unset]
    /\ UNCHANGED <<asks, refresh, token>>

(* grantAuthCode and grantRefresh end in an access token and a successor.  *)
Redeem(h) ==
    /\ Serving
    /\ code[h] # Unset
    /\ token' = [token EXCEPT ![h] = MintFor(code[h])]
    /\ refresh' = [refresh EXCEPT ![h] = code[h]]
    /\ code' = [code EXCEPT ![h] = Unset]
    /\ KeepClients
    /\ UNCHANGED <<asks, form>>

Refresh(h) ==
    /\ Serving
    /\ refresh[h] # Unset
    /\ token' = [token EXCEPT ![h] = MintFor(refresh[h])]
    /\ KeepClients
    /\ UNCHANGED <<asks, form, code, refresh>>

(* The access token's lifetime passes: nobody accepts it any more. *)
Expire(h) ==
    /\ token[h] # Unset
    /\ token' = [token EXCEPT ![h] = Unset]
    /\ KeepClients
    /\ UNCHANGED <<secretStore, processes, asks, form, code, refresh>>

Next ==
    \/ Boot \/ StopServer \/ Reset \/ Register
    \/ \E m \in Mounts : SpawnMount(m)
    \/ \E h \in Harnesses :
          \/ \E g \in Gates : Discover(h, g)
          \/ AskForNone(h) \/ OpenForm(h) \/ Fail(h) \/ Approve(h)
          \/ Redeem(h) \/ Refresh(h) \/ Expire(h)

Spec == Init /\ [][Next]_vars

-----------------------------------------------------------------------------
TypeOK ==
    /\ FirstUseTypeOK
    /\ config \in Configs
    /\ server # None => server.key \in Secrets
    /\ \A m \in Mounts : mounts[m] # None => mounts[m].key \in Secrets
    /\ era \in 0..MaxResets
    /\ clients \in [Ids -> (SUBSET RedirectURIs) \cup {Unset}]
    /\ issued \subseteq Ids
    /\ \A h \in Harnesses :
          /\ form[h] # Unset => form[h].client \in Ids /\ form[h].inOrder
          /\ code[h] # Unset => code[h].resource # Nowhere
          /\ refresh[h] # Unset => refresh[h].resource # Nowhere

(* The gates of the configuration that the server runs with now.           *)
CurrentGates == {g \in Gates : GateOf(g) # None /\ GateOf(g).of = config}

(***************************************************************************)
(* A challenge leads to its gate: the URL that a gate derives on its own   *)
(* is served by the host, however either of them spells its URLs, names    *)
(* the very audience that the gate expects, and that audience can be       *)
(* asked for (src/protect.go:47-54: "the two cannot drift").               *)
(***************************************************************************)
ChallengesAreServed ==
    server # None => \A g \in CurrentGates :
        /\ Document(config, GateOf(g).prm) = GateOf(g).aud
        /\ ResolveResource(config, GateOf(g).aud) = GateOf(g).aud

(***************************************************************************)
(* A server whose resources are spelled in several ways still mounts every *)
(* metadata route once; ServeMux panics on a second (src/server.go:153-160,*)
(* 248-255).                                                               *)
(***************************************************************************)
RoutesAreMountedOnce ==
    server # None =>
        \A i, j \in DOMAIN RoutesOf[config] :
            RoutesOf[config][i].path = RoutesOf[config][j].path => i = j

(* The resource that stands before gate g in its configuration. *)
WrittenFor(g) ==
    LET cfg == GateOf(g).of
    IN  IF g = Host THEN WrittenDefault(cfg) ELSE cfg.mounts[g]

(***************************************************************************)
(* A token opens the gates of the resource that was asked for when it was  *)
(* approved, and no other: through refreshes, restarts of the server and   *)
(* respawned delegates, while delegates of an earlier configuration live   *)
(* on, and until a reset.  After a reset no process that has loaded its    *)
(* key since accepts it (src/token.go:14-15, 57-61, src/store.go:83-86).   *)
(***************************************************************************)
TokensOpenTheirGates ==
    \A h \in Harnesses, g \in Gates : token[h] # Unset /\ GateOf(g) # None =>
        (Validates(GateOf(g), token[h]) <=>
            /\ GateOf(g).era = token[h].era
            /\ GateOf(g).asymmetric = token[h].asymmetric
            /\ TrimRight(WrittenFor(g)) = token[h].asked)
=============================================================================
