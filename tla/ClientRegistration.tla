------------------------- MODULE ClientRegistration -------------------------
(***************************************************************************)
(* Registered clients (src/clients.go, src/register.go) and the checks     *)
(* that stand before every round of an approval (src/authorize.go,         *)
(* validatedRequest): the form is served, and served again, only for a     *)
(* redirect URI that its client registered, and errors are sent only       *)
(* there.  A registration that is refused, or that the store does not      *)
(* take, answers no id and changes nothing.                                *)
(***************************************************************************)
CONSTANTS
    Ids,            \* random client ids
    RedirectURIs,   \* a set of [scheme, host]
    Unset           \* no client, no form, no redirect

VARIABLES
    clients,        \* clients[i]: the redirect URIs of client i, or Unset
    issued,         \* history: the ids that were ever issued
    sent            \* the redirect [client, to, code] that answers the last
                    \* request, or Unset

registry == <<clients, issued, sent>>

RegistrationInit ==
    /\ clients = [i \in Ids |-> Unset]
    /\ issued = {}
    /\ sent = Unset

(* validRedirectURI: absolute https, or http on a loopback host. *)
ValidRedirectURI(u) ==
    /\ u.host # "none"
    /\ \/ u.scheme = "https"
       \/ u.scheme = "http" /\ u.host = "loopback"

(* handleRegister stores the URIs under a fresh id. *)
HandleRegister(uris) ==
    /\ uris # {}
    /\ \A u \in uris : ValidRedirectURI(u)
    /\ \E i \in Ids \ issued :
          /\ clients' = [clients EXCEPT ![i] = uris]
          /\ issued' = issued \cup {i}

-----------------------------------------------------------------------------
(* The parameters of an authorization request, as authParams: inOrder is   *)
(* response_type "code" with an S256 challenge.                            *)

(* validateClientRedirect finds the client and the redirect URI. *)
ClientRedirectValid(p) ==
    /\ p.client \in Ids
    /\ clients[p.client] # Unset
    /\ p.redirect \in clients[p.client]

(* Mutation of ParamsValid: any resource is good. *)
ParamsInOrder(p, served) == p.inOrder

(* validateAuthParams, and the resource check that follows it. *)
ParamsValid(p, served) == p.inOrder /\ served

(* Mutation of RedirectsError: the parameters are looked at first.         *)
RedirectsEarly(p, served) == ~ParamsValid(p, served)

(* A request with a good redirect URI and bad parameters goes back to the  *)
(* client with an error; with a bad redirect URI it is shown a page.       *)
RedirectsError(p, served) == ClientRedirectValid(p) /\ ~ParamsValid(p, served)

RequestValid(p, served) == ClientRedirectValid(p) /\ ParamsValid(p, served)

(* redirectWith sends the browser to the redirect URI of the request. *)
RedirectWith(p, code) ==
    /\ sent' = [client |-> p.client, to |-> p.redirect, code |-> code]
    /\ UNCHANGED <<clients, issued>>

(* The registrations go with the rest of the store. *)
ForgetClients ==
    /\ clients' = [i \in Ids |-> Unset]
    /\ UNCHANGED issued

-----------------------------------------------------------------------------
(***************************************************************************)
(* Whatever a request asks for and whichever round of an approval it       *)
(* belongs to, the browser is sent only to a URI that the named client     *)
(* holds in the registry when the request is checked, https or loopback,   *)
(* with an error as much as with a code; also when the registry was reset, *)
(* or the client registered anew, between the form and its submission      *)
(* (src/authorize.go:25-47, src/clients.go:17-21).  A POST is one step, so *)
(* a change between its check (src/authorize.go:65) and its redirect is    *)
(* not looked at.                                                          *)
(***************************************************************************)
RedirectsAreRegistered ==
    [][sent' # Unset =>
         /\ clients[sent'.client] # Unset
         /\ sent'.to \in clients[sent'.client]
         /\ ValidRedirectURI(sent'.to)]_registry
=============================================================================
