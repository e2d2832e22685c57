# lib-agent-oauth in TLA+

Specifications of the OAuth 2.1 layer in `src/`, their TLC instances, and TLAPS
proofs about all of them. Line references are to the commit that lies in `src/`.
What may be assumed of the code, what is checked and what is proved is stated
here; `PROJECT.json` has the same as data (components, runs, mutations, the map
from definitions to lines, findings, hazards, theorems).

## 1. The system

One Go package: an Authorization Server and a Resource Server in a process
(`Server`), a delegate `ResourceServer`, and the `Pairing` API that a command
line uses on the same `SecretStore` while the server runs.

| Component | State | Operations | What makes it correct |
|---|---|---|---|
| JSON map store (`mapstore.go`) | one document per registry in the `SecretStore`; a mutex per `jsonMapStore` value | `get`, `mutate` | a read-modify-write is atomic; a failure changes nothing; every call returns |
| Client registry (`clients.go`, `register.go`) | document `clients` | `Register`, `Get`, redirect check | redirects go to registered URIs only, errors as well as codes |
| Authorization codes (`authcode.go`) | a map in memory, under its mutex | `issue`, `consume`, expiry | single use |
| Refresh tokens (`refresh.go`) | document `refresh` | `issue`, `exchange`, `removeForPrincipal` | rotation: one live token per approval; same grant for ever |
| Token endpoint (`grant.go`, `pkce.go`) | none: a request's locals | `grantAuthCode`, `grantRefresh`, `issueTokens` | tokens match the approval whatever interleaves, fails or crashes |
| Named principals (`principal.go`) | document `principals` | add, set, merge, rotate, remove, verify, list | removal revokes; merges accumulate; membership is the operator's |
| Pairing codes (`pairing.go`) | one stored shared code, one per principal | `Code`, `Rotate`, normalisation | the returned code is the stored one; a code identifies its owner however it is spelled |
| AS sessions (`session.go`) | document `sessions`, the browser's cookie | issue, lookup, resolve, purge | die with the principal; never outrank an entered code |
| Authorize endpoint (`authorize.go`, `authorize_step.go`, `authparams.go`) | none between rounds: it rides in hidden fields | GET, POST rounds | one identity per approval; no code for the unbound |
| Enrollment (`enroll_flow.go`, `enrollment.go`, `enroll_view.go`) | writes `principals` | form, callback, choice, merge | one resource's enrollment leaves others' keys alone; fields reach the callback under their own keys; secrets are not shown again |
| Chooser (`choose_page.go`) | none | parse sets, pick one member of each | only members that are stored at that moment are issued |
| Token issuer (`token.go`) | signing key, created on first use | mint, validate | audience-bound; survives restarts |
| Server and resources (`server.go`), resource server (`resource.go`, `protect.go`) | configuration, loaded key; a delegate's copy of the public key | `New`, `resolveResource`, `RegisterRoutes`, `Protect`, `NewResourceServer` | a token opens the gates of its resource and no other; a challenge leads to its gate |
| Secret store (`store.go`) | every document and key | `Get`, `Set`, `DeleteAll` | external, may fail; a reset takes everything |
| Events, authorization-server metadata, pages, HTTP helpers | none | output | not modelled |

**Interaction.** HTTP requests run concurrently in one process and share the
`Server`'s registries, hence their mutexes. Authorize writes `codes` (memory),
`sessions` and `principals` (documents); the token endpoint takes from `codes`
and `refresh` and adds to `refresh`. Nothing is locked from one registry call to
the next. A command line works on the same documents with a `Pairing` of its
own, hence with other mutexes, and even inside one process `RemovePrincipal`
makes new refresh and session stores (`principal.go:182-185`). The enrollment
callback and `BindingForResource` are supplied by the embedding program.

**What is hard.** Races between requests, and between a request and a command;
identity that was verified in one step and used in a later one; a removal made
of three saves that fail one by one; crashes between the save that takes a token
and the save that adds the next; a multi-round form whose only state is what the
browser sends back. Each such hazard is in `PROJECT.json` at its line, with the
properties that cover it or the reason why none does yet.

## 2. Modules

| Module | Models | State |
|---|---|---|
| `StoredMap` | the closures of the registries as operators `Apply`, `Changed`, `Answer` on a map | none |
| `AtomicMap` | the abstract promise: an operation happens at one instant, or fails without effect | `map`, `op`, `answer` |
| `JsonMapStore` | `get`/`mutate`: lock, load, closure, save, unlock, with failing loads and saves | `doc`, `mu` per handle, and `pc`, `op`, `copy`, `answer` per process |
| `JsonMapStoreProofs` | theorems about it | |
| `TokenEndpoint` | `authCodeStore`, `refreshStore` and the token handlers; crash and restart | `codes`, `refresh`, `expired`, and per request `phase`, `presented`, `grant`, `access` |
| `TokenEndpointProofs` | theorems about it; it implements `ApprovalLedger` | |
| `ApprovalLedger` | the abstract promise: one entry per approval, which moves and is lost once | `ledger`, `approved` |
| `Revocation` | `RemovePrincipal` against sessions, codes, refresh tokens and requests in progress | `member`, `enrolled`, `sessions`, `codes`, `refresh`, `phase`, `who`, `command` |
| `RevocationProofs` | theorems about it | |
| `AuthorizeFlow` | the rounds of approvals in a browser's tabs, the enrollment, the chooser, the operator's edits | `record`, `cookie`, and per tab `page`, `stage`, `grant`, `issued` |
| `AuthorizeFlowProofs` | theorems about it | |
| `FirstUse` | a secret that is generated when it is first asked for: the shared code, the two signing keys | `slot`, `want` per caller, `made`, and the history `told` |
| `FirstUseProofs` | theorems about it | |
| `Resources` | the audiences of a server, its metadata routes, a delegate's URLs, as operators on URLs that are sequences of parts | none |
| `AccessTokens` | key slots, start and stop of the server, spawned delegates, what a gate validates; extends `FirstUse` and `Resources` | `config`, `server`, `mounts`, `era` |
| `ClientRegistration` | the registry of clients and `validatedRequest` | `clients`, `issued`, `sent` |
| `ClientJourney` | the two above and an MCP client: discover, register, approve, redeem, call, refresh | per client `asks`, `form`, `code`, `refresh`, `token` |
| `ClientJourneyProofs` | theorems about it | |
| `PairingCode` | codes as texts: `normalizePairing`, comparison, how people spell them | none |
| `EnrollForm` | descriptors, the inputs of a form, what a browser posts and what is collected | none |
| `BindingSets` | comma-separated sets as texts, the choices from them | none |
| `ApprovalForms` | the three above and `FirstUse` in the rounds of one browser, beside the operator | `enrollment`, `record`, `page`, and the histories `received`, `issued` |
| `ApprovalFormsProofs` | theorems about it, and about the operators of the three | |
| `SequenceLemmas` | induction, recursion, concatenation, `FlattenSeq`: what the last two proof modules share | |
| `MC...` | instances for TLC: functions for the constants, symmetry sets | |

`JsonMapStore` is the bottom layer. It implements `AtomicMap` as long as all
processes share one handle, and it is this theorem that lets `TokenEndpoint`
take `refreshStore.exchange` and `issue` as one step each: all requests go
through `Server.refresh`. `Revocation` and `AuthorizeFlow` also take a registry
operation as one step; for the operator's commands this is exact only when no
request touches the document at the same moment. `Revocation` therefore checks
its properties with `OperatorAlone = TRUE` and uses `FALSE` only for a violation.
`AuthorizeFlow` lets commands run at any point between registry operations; the
lost updates that two handles add to that are a finding of `JsonMapStore`.

`FirstUse` is below two compositions. `ClientJourney` joins the processes
(`AccessTokens`) with the registry (`ClientRegistration`) through the journey of
a client; redeeming is one step there, for `TokenEndpoint` has its races.
It has one server, hence one caller of `FirstUse`: of what can go wrong between `Get` and
`Set` it has the crash, the failed save and the reset; overlapping calls are
`FirstUse_race`'s.
`ApprovalForms` joins the pure modules `PairingCode`, `EnrollForm` and
`BindingSets` in one browser whose POSTs are one step each, for `AuthorizeFlow`
has the races between tabs; there a binding is a set of members, here a text.

**How state and actions correspond to the code.**

* `JsonMapStore`: `mu[h]` is the mutex of a `jsonMapStore` value `h`, `copy[p]`
  the unmarshalled map of a call. `Save` and `ReturnWith` are one step because
  nothing between `store.Set` and the deferred `Unlock` touches shared state.
  The value of an entry is its owner: closures look at nothing else.
* `TokenEndpoint`: a code's and a token's random string is its own model value
  that is used once. `phase` is the place in the handler between two accesses to
  shared state: *start* before `consume`/`exchange`, *code*/*refresh* with the
  grant in hand, *minted* before `refreshStore.issue`. Forms are chosen freely:
  every mismatch that the handler refuses occurs. The PKCE challenge is
  represented by the verifier that answers it. Expiry is a set of codes whose
  time has passed; it can pass between `consume`'s deletion and its comparison.
* `Revocation`: a name that is removed and added again begins a new *life*, and
  each credential remembers the life that it was verified for; the code has no
  such counter, it is what the properties speak about. `RemoveRecord`,
  `PurgeRefresh` and `PurgeSessions` are the three saves of `RemovePrincipal`;
  `PurgeFails` ends it in between.
* `AuthorizeFlow`: `page[t]` is the form in a tab with its hidden fields;
  `Submit` is `verifyIdentity` and the next action of the tab is the rest of the
  POST up to the next access to the store. A binding value is the set of its
  members; the comma syntax is `BindingSets`'. A key whose value is empty is an
  absent key. `Patches` is the contract of the enrollment
  callback: singletons (`enroll_flow.go:126-132`), its own keys, not empty.
  A tab whose approval is over may be used for another (`Open`).

* `FirstUse`: `Misses` is the `Get` that finds nothing, `Stores` the rest of the
  call; what lies between the two is local. `told` remembers what was returned
  since the last rotation or reset. `GivesUp` is a failing `Set` or a crash.
* `AccessTokens`: a start of the server is `BootFinds`, or `BootMisses` and then
  `BootStores` or `BootFails`; in between the store may be reset. A `Gate` is
  what a verifier was built with: a delegate keeps its own until it is spawned
  again, whatever happens to its host. `era` counts resets and is history. A
  symmetric server has no public key, so it spawns nothing.
* `ClientJourney`: a client takes the resource it asks for from the metadata that
  the challenge points at (`Document`), adds a slash or not, or names none. Each
  POST passes `validatedRequest` again, so a form may have gone stale.
  `Expire` is the lifetime of an access token; refresh tokens do not expire.
* `ApprovalForms`: `page` is the form in the browser with its hidden fields. Every
  mode of an enrollment is on the page and all its inputs are posted; of inputs
  with one name the first counts. `Finish` has the outcomes of the callback.
  A POST before the shared code exists generates it first (`OperatorActs`).

Left out throughout: scope and state (carried along unread), HTTP methods and
form parsing, page layout, labels and wording, events. `New` loads no pairing
code, although its comment at `server.go:139-140` says so; the code is generated
when it is first asked for.

## 3. Runs

All runs are in `PROJECT.json`; each passing property has a mutation of the
model, a plausible mistake in the code, that TLC finds to break it.

| Run | Question | Bounds | Result |
|---|---|---|---|
| `JsonMapStore_onehandle` | Is mutate atomic between the requests of a server, with failures, and does every call return? | 3 processes, 2 keys, 1 owner, 1 handle | `ReadModifyWriteIsAtomic`, the refinement `ImplementsAtomicMap` and `CallsAreAnswered` hold |
| `JsonMapStore_twohandles` | ... and between a server and a command? | 2 processes, 2 handles | violated: a lost update, which also lets an enrollment bring a removed principal back |
| `TokenEndpoint_safety` | Can an approval be redeemed twice, for something else, or again? | 2 codes, 4 refresh tokens, 3 requests, 2 clients/redirects/verifiers/resources/people | `OneCredentialPerApproval`, `TokensMatchApproval`, `SpentStaysSpent`, `TokensAreLostOnlyInUse` and the refinement `KeepsTheLedger` hold |
| `Revocation_alone` | Does a removal, at last completed, leave nothing and spare others? | 2 names with 2 lives, 1 request, 1 session, 1 code, 2 refresh tokens | `OneLifeAtATime`, `SessionsDieWithPrincipal`, `RemovalSparesOthers` hold |
| `Revocation_code` | Are refresh tokens gone after a removal? | 1 name, 1 life, one of each | violated through an outstanding code |
| `Revocation_session` | Does a session die with its principal? | 1 name, 2 lives, one of each | violated by an approval in progress |
| `AuthorizeFlow_host` | Are codes right, whatever tabs and operator do between rounds? | 2 tabs, 1 name and the anonymous operator, 3 resources (2 enroll, the third has no key), 2 keys of 2 members, 1 operator's edit | `NoCodeWhileUnbound`, `ChoicesComeFromTheStore`, `EnteredCodeDecides`, `EnrollmentsAccumulate` hold |
| `AuthorizeFlow_identity` | Do later rounds keep the identity? | 2 tabs, 1 name and the anonymous operator, 2 resources (1 enrolls), no edit | violated: a second tab's session for the shared code ends a named person's approval as the anonymous operator's |
| `AuthorizeFlow_sets` | Does the chooser stand before every token? | 1 tab, 1 resource, 2 keys | violated by a new enrollment |
| `ClientJourney` | Do challenges, metadata, audiences, keys and redirects fit together, however URLs are spelled and whenever the server stops, is reconfigured or reset? | 1 client, 2 configurations (a tool that signs for itself; a host with 2 mounts, 1 of them running), 2 client ids, 3 redirect URIs, 2 keys, 1 reset | `ReturnedIsStored`, `ChallengesAreServed`, `RoutesAreMountedOnce`, `TokensOpenTheirGates`, `RedirectsAreRegistered` hold |
| `ApprovalForms` | Is what is typed read right, and never shown to the wrong eyes? | 1 name and the anonymous operator, 3 codes, 36 spellings each, 8 descriptors (3 valid), 2 bindings with sets, 3 entries per kind of field | `CodesIdentifyTheirOwners`, `SecretsAreNotEchoed`, `CallbackGetsWhatWasTyped`, `ChoicesAreListed` hold |
| `FirstUse_race` | Is the code that is shown the one that is stored? | 2 callers, 1 slot | violated by two first uses, neither of them an explicit `Rotate` (`Rotatable = {}`) |

**Why the bounds are enough to be telling.** Two processes make every race on
one document, a third one lets somebody wait while two others alternate. Three
requests over two approvals let two race for one credential while a third
refreshes the other; four tokens allow both approvals a rotation beside the live
token. Two lives are what it takes to confuse two people, and two names to harm
a bystander; the anonymous operator is there besides. Two tabs share a cookie and
race to enroll, for one resource or for two; the third resource has no
enrollment, so its codes are issued to the unbound as well; one edit between any two rounds is what the stateless rounds can
be surprised by. The journey needs one client
to meet two configurations; the host's URLs are written with and without slashes,
and one mount twice. Two keys are the one before and the one after a reset. The
codes of `ApprovalForms` are one that begins like the prefix, one of nothing but
confusable digits and one of both kinds; the descriptors that are valid have a
key shared between modes, once secret and once not, and a pair of modes whose
joined keys collide. Bounds on counters are `MaxLives`, `MaxEdits` and
`MaxResets`; codes and
refresh tokens run out because each is fresh once (`TokenEndpoint`) or are
reused when free (`Revocation`, where only the identity matters). Symmetry is
declared for sets of interchangeable model values, and not in runs that check
liveness. Deadlock checking is on in every run.

**Fairness.** `JsonMapStore`: Go's `sync.Mutex` hands the lock to a waiter that
has waited long enough (starvation mode), hence strong fairness of `Lock`; a
goroutine that holds it is scheduled and a `SecretStore` call returns, hence
weak fairness of the steps inside. Nobody need call. The other modules state safety only.

## 4. Proofs

All theorems hold for every value of the constants that the named assumptions
admit; TLC evaluates those assumptions in each run.

`JsonMapStoreProofs` (assumptions `MarksAreNotVals`, `HandlesAssumption`):

* `TypeCorrect`: `Spec => []TypeOK`, for any assignment of handles. `TypeOK` is
  made inductive with `Busy` (a process has an operation exactly while it is in
  `get` or `mutate`).
* `CopiesAreCurrent`, under `OneHandle`: a loaded copy equals the document until
  it is saved or dropped. The inductive invariant `Inv` adds `LockHeld` (whoever
  is between `Lock` and `Unlock` owns the mutex of its handle): with one handle
  at most one process is inside, so nobody else saves under a copy.
* `SavesAreAtomic` and `StoreIsAtomicMap`, under `OneHandle`: every save is the
  closure's effect on the document it replaces; `Lock` and `Load` stutter, `Save`
  and `LeaveUnsaved` are `Perform`, the failures are `Fail`. `LeaveUnsaved`
  rests on `UnchangedApply`: a closure that reports no change made none. The
  two-handle run shows that `OneHandle` cannot be dropped.

`TokenEndpointProofs` (assumption `EndpointAssumption`), in a chain in which each
invariant is inductive relative to those before it:

* `TypeCorrect`, with `GrantHeld`: what a request holds in each phase.
* `TokensAlwaysMatch`: stored grants equal their approval's lasting part. The
  step that needs it all is `Answer`, which links a fresh token to the approval
  behind what the request presented.
* `OneCredential`: from these, the unredeemed code, the requests that carry a
  grant and the live tokens of one approval never number more than one.
* `CredentialsAreSpentOnce`: the action property, from the guards on freshness.
* `NoTokenIsLostUnused`: a token leaves the store only in `Exchange`, which hands
  its grant to the request that presented it; every other action keeps it.
* `EndpointKeepsTheLedger`: the endpoint implements `ApprovalLedger` under the mapping
  of `TokenEndpoint` (`Live`: a code, a request that holds a grant and a refresh token
  are one entry each). `IssueCode` is `Approve`, `Consume` and `Exchange` are `Take`,
  `Answer` is `Renew`, a handler that returns an error is `Lose` if it had taken
  anything, `Crash` is `Crash`, the rest stutters. That an entry is gone from where it
  was needs `OneCredentialPerApproval`: two requests or tokens with equal entries
  would be one in the ledger.

`FirstUseProofs` (assumption `FirstUseAssumption`):

* `TypeCorrect`, for any slots and callers.
* `StableAlone`, under `Alone`: what was returned is what is stored. The inductive
  invariant adds `Exclusive`: at most one call is between its `Get` and its `Set`,
  and the slot that it found absent is absent still. That is what `Alone`
  provides, and what the race run refutes without it.

`RevocationProofs` (assumption `RevocationAssumption`; the value for "nothing" is nobody's
identity):

* `TypeCorrect`, with `Working`: what a request has in each phase.
* `NobodyInheritsALife` and `SessionsEndWithRemoval`, under `OperatorAlone` (no
  command while a request is in progress). The inductive invariant says how far a
  removal has come at each of its steps (`RemovalProceeds`): the record is gone
  first, after the second save no refresh token of the name is left, and a removal
  that fails in between is remembered as begun until it is repeated. Its other
  part, `SessionsAreCurrent`, keeps every session of a settled name in the stored
  life. The run `Revocation_session` refutes the second theorem without its
  condition.
* `OthersAreSpared`, without that condition: the purges compare names.

`AuthorizeFlowProofs` (assumption `FlowAssumption`; members are finite, so that they
can be counted). `Held` says what a tab's POST has in hand in each stage, and
`Carried`, inductive beside it, what it carries to the next:

* `EnteredNames`: the code hidden in a page names whom the first round identified,
  and the grant of a POST with a code is that code's owner, because `Identify`
  looks at a session only without a code. Hence `EnteredCodeWins`.
* `BindingInHand`: up to its merge or choice a POST carries the very binding that
  it read (`stored`), and once it is to issue, a binding that is in step with it key
  by key and not unbound for the resource. Whatever another tab or the operator saves
  in between does not reach it (`OneTab`). Hence `ChoicesAreValidated` and
  `UnboundEnrollFirst`, by the lemmas on the model's operators: `ChosenFromStored` (a
  choice keeps to the stored sets), `StillBound` (so it leaves nobody unbound) and
  `MergedIsBound` (an enrollment binds, and only for its resource).
* `EnrollmentsDoNotClobber`, an action property: of all steps only `Merge` ends a
  stage and saves a record, and it overlays the record of that moment. With the
  binding that the POST carries in its place (`MergedIntoCarried`) TLC finds stored
  keys lost: to an operator's edit, and with `MaxEdits = 0` to an enrollment for the
  other resource in a second tab.

`ClientJourneyProofs` (assumptions `FirstUseAssumption`, `AccessTokensAssumption` and
three on configurations). `OneSite`: a deployment keeps its public URL, in any
spelling, and tells its delegates that URL, as `resource.go:25-28` demands; without it
`TokensAreForTheirResource` is false, for tokens still name the old site.
`ResourcesAssumption`: the entries of `Resources` are URLs (`server.go:36`, `:43-47`),
so that none is what another one adds to the public URL; a path without its site would
share a route with the resource it belongs to, and `RegisterRoutes` would panic.
`MountsAreListed`: `Resources` has an entry for every delegate (`server.go:43-45`).

* `KeysAreFirstUse`: the composition's steps are steps of `FirstUse` or leave its
  state alone, so `FirstUse`'s theorems hold of it.
* `JourneyTypeCorrect`.
* `OneServerOneKey`: the same property as `StableAlone`, without `Alone`: there is
  one server, and a start that found no key (`Starting`) has the slot to itself.
* `OnlyRegisteredRedirects`, an action property, from `Registered`: every redirect
  is guarded by the registry as it is when the request is checked, and what is in it
  was checked. A POST is one step here: a change of the registry between
  `authorize.go:65` and the redirect of the same request is outside the model.
* `TokensAreForTheirResource`. Three facts carry it. `KeysAgree`: in each era of the
  store there is one key for each algorithm among all gates and tokens, and the one
  that the store holds is that of the current era; a fresh key is unlike any before.
  `GatesAgree`: a delegate expects what stood before it in the configuration it was
  spawned under, though that has been replaced since. `GrantsAgree`: the resource
  reaches the token, through code and refreshes, as it was asked for. Of `TrimRight`
  the proof uses only that equal URLs have equal results.
* `RoutesAreDistinct`. The list of audiences is followed through the turns of `New`'s
  loop: URLs that end in no slash, each once, the default first, every entry in it
  (`AudiencesAre`). `SuffixTells`: resources whose suffixes are equal and not empty are
  one, for what a suffix says of its resource is that it is the suffix, or the public
  URL and the suffix. `RoutesAre`: the root's route and one for each suffix.
* `ChallengesLeadToTheirGates`, with `MountsSpawned`: a running delegate was spawned by a
  configuration that lists it, has a path below the issuer and points at the metadata
  of what it guards. `IsServed` puts the two together: a listed resource with a suffix
  has the route of that suffix and the default one has it or the root's, there is one
  route at that URL (`DocumentIs`), and it names the resource.

`ApprovalFormsProofs` (assumptions `FirstUseAssumption` and `ApprovalFormsAssumption`:
what is configured and stored are texts, and codes are written in one layout, a prefix
and groups of digits, as `generatePairingCode` does). Its operators go over texts and
lists by recursion. `SequenceLemmas` has the induction for that with a set as its
hypothesis (`InductionUpTo`, from the least counterexample), which the provers can
apply where they cannot instantiate the operator of the library's theorems.

* `FormsFit`: the inductive invariant `FormsInv`. The generated codes have `FirstUse`'s
  types, the enrollment is valid, the records hold generated codes and texts, and the
  page fits: its mode is one of the configuration, what it shows again was typed into
  no secret field, its chooser has no set without options. The page has to be in it,
  for a POST brings back what the page before asked and showed. `FormsType` and
  `SecretsStayHidden` follow; the step of the latter is `ShownAgain`: with unique joined
  keys (`NamesAreUnique`) an input's name tells its field, so what is kept for the next
  page was typed into a field that is not secret, whatever key it has elsewhere.
* `CallbackIsRight`: `Collected`, each field of the selected mode finds its own input.
* `ChoicesAreMembers`: `SplitStands` and `SplitParts` say where the parts of a split text
  stand, so what is offered is what a person reads between the commas (`SetsAreListed`).
* `CodesIdentify`: what normalisation undoes is what people do. Removing separators
  passes through concatenation and flattening (`CleanCat`, `CleanFlatten`), folding undoes
  every change of case and of confusable digits (`FoldsBack`), and in codes of one
  layout it loses nothing that tells them apart (`StripTells`). Cutting the prefix is
  harmless unless the rest begins like it (`NormalizeLeft`), the case that the property
  excepts. `CodesAreTold` carries this to whoever a POST identifies.

**Only model-checked**: `CallsAreAnswered`, which is liveness under fairness and out of the
prover's reach. Every other property of a passing run is a theorem.

## 5. Findings

Each is a counterexample of a run that checks one sentence of the repository:

1. `principal.go:182`, two handles on one document lose updates (`JsonMapStore_twohandles`).
2. `principal.go:116`, so an enrollment can create membership (the same run).
3. `principal.go:182`, a code outlives the removal of its principal (`Revocation_code`).
4. `session.go:130`, so does the session of an approval in progress, into the
   name's next life (`Revocation_session`).
5. `authorize.go:107`, a later round may be another identity's: in the run
   alice's second round ends in a code for the anonymous operator, and what she entered
   is dropped (`AuthorizeFlow_identity`).
6. `enroll_flow.go:164`, an operator's set reaches a token by way of an
   enrollment for another key (`AuthorizeFlow_sets`).
7. `pairing.go:46`, two calls of `Code` that find no shared code return two
   (`FirstUse_race`).

Three things that the passing properties except, at the place where they say so:
input names may collide where joined keys do (`enroll_view.go:12`,
`KeysJoinUniquely`; `Validate` admits it, and then what was typed into a secret field can
come back in a plain one, against `enrollment.go:35-36` and `enroll_flow.go:15-17`), a code whose digits begin with MCP is not recognised
without its prefix (`pairing.go:95`, `BeginsLikePrefix`), and a resource that is written
without its site shares the route of the one it abbreviates (`protect.go:37`,
`ResourcesAssumption`). And a process that dies
between the two saves of a refresh (`grant.go:46`, `:82`), or whose second save fails,
leaves its client without a token: `TokensAreLostOnlyInUse` permits that, and says that no
token is lost before a request that presented it has it in hand.

## 6. Not modelled

The pages' text and layout, HTTP helpers, the authorization-server document and
events (output only); the keyring behind `SecretStore` (external: a Get and a Set
that may fail; what its Get hides is at `store.go:65`); cryptography and JWT (a
random string is a fresh value, a signature names its key); expiry of sessions
and codes by the clock is an action that may come at any time.

## 7. Plan

Every safety and action property that a passing run checks is proved. What may still
be stated:

1. An abstract specification of an approval (opened, identified, bound, issued
   once), and `AuthorizeFlow` as its implementation.
2. What of `Revocation` holds with commands beside requests: which credential can
   carry a former life on, and for how long.
