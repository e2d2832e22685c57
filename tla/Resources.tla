----------------------------- MODULE Resources -----------------------------
(***************************************************************************)
(* The resources of a server and the places where their metadata are found *)
(* (src/server.go, src/protect.go, src/resource.go).  A URL is the         *)
(* sequence of its parts, in which "/" is a part: the code cuts trailing   *)
(* slashes and compares prefixes and looks at nothing else.                *)
(*                                                                         *)
(* A configuration is what its author wrote, in any spelling:              *)
(* [public, resource, resources, asymmetric].                              *)
(***************************************************************************)
EXTENDS Naturals, Sequences, SequencesExt

CONSTANT Configs    \* what a server may be started with

Slash == "/"

(* ProtectedResourceMetadataPath, the route below which metadata is served.*)
WellKnown == <<"/", "wellknown">>

(* No resource, no route, no entry. *)
Nowhere == <<"nowhere">>

(* strings.TrimRight(u, "/") *)
TrimRight(u) == SubSeq(u, 1, SelectLastInSeq(u, LAMBDA part : part # Slash))

(* New: the issuer, and the audience of a request that names none. *)
PublicURL(cfg) == TrimRight(cfg.public)

DefaultResource(cfg) ==
    IF TrimRight(cfg.resource) = <<>> THEN PublicURL(cfg) ELSE TrimRight(cfg.resource)

(* Mutation of Audiences: entries are compared as they are written. *)
AudiencesAsWritten(cfg) ==
    FoldLeft(LAMBDA acc, r : IF r = <<>> \/ Contains(acc, r) THEN acc
                             ELSE Append(acc, TrimRight(r)),
             <<DefaultResource(cfg)>>, cfg.resources)

(* New: the audiences after the first n entries, for every n: each once,   *)
(* the default first.                                                      *)
AudiencesUpTo(cfg) ==
    LET audiences[n \in 0..Len(cfg.resources)] ==
            IF n = 0 THEN <<DefaultResource(cfg)>>
            ELSE LET r == TrimRight(cfg.resources[n])
                 IN  IF r = <<>> \/ Contains(audiences[n - 1], r) THEN audiences[n - 1]
                     ELSE Append(audiences[n - 1], r)
    IN  audiences

Audiences(cfg) == AudiencesUpTo(cfg)[Len(cfg.resources)]

(* Every entry is a URL: none is the path of another one (src/server.go:36,*)
(* 43-47), which would share its route.                                    *)
ASSUME ResourcesAssumption ==
    \A cfg \in Configs :
        /\ cfg.public \in Seq(STRING) /\ cfg.resource \in Seq(STRING)
        /\ cfg.resources \in Seq(Seq(STRING))
        /\ \A r, q \in ToSet(Audiences(cfg)) : r = PublicURL(cfg) \o q => r = q

(* New makes the list once for each server. *)
ResourcesOf == [cfg \in Configs |-> Audiences(cfg)]

(* resolveResource: the audience of a requested resource, or Nowhere. *)
ResolveResource(cfg, requested) ==
    IF requested = <<>> THEN DefaultResource(cfg)
    ELSE IF Contains(ResourcesOf[cfg], TrimRight(requested)) THEN TrimRight(requested)
    ELSE Nowhere

(* resourceSuffix: what resource adds to base. *)
ResourceSuffix(base, resource) ==
    LET rest == IF IsPrefix(base, resource)
                THEN SubSeq(resource, Len(base) + 1, Len(resource))
                ELSE resource
    IN  IF rest = <<Slash>> THEN <<>> ELSE rest

(* protectedResourceMetadataURL *)
MetadataURL(base, resource) == base \o WellKnown \o ResourceSuffix(base, resource)

(* RegisterRoutes: the metadata routes in the order in which they are      *)
(* mounted, each with the resource that its document names.  Handling the  *)
(* same path twice makes ServeMux panic.                                   *)
MetadataRoutes(cfg) ==
    LET Route(r) == [path |-> WellKnown \o ResourceSuffix(PublicURL(cfg), r), names |-> r]
    IN  <<[path |-> WellKnown, names |-> DefaultResource(cfg)]>> \o
        FlattenSeq([i \in DOMAIN ResourcesOf[cfg] |->
            IF ResourceSuffix(PublicURL(cfg), ResourcesOf[cfg][i]) = <<>> THEN <<>>
            ELSE <<Route(ResourcesOf[cfg][i])>>])

RoutesOf == [cfg \in Configs |-> MetadataRoutes(cfg)]

(* The resource that the document at a URL names; Nowhere is a 404.  The   *)
(* host's mux is reached at its public URL.                                *)
Document(cfg, u) ==
    LET at == SelectInSeq(RoutesOf[cfg], LAMBDA m : PublicURL(cfg) \o m.path = u)
    IN  IF at = 0 THEN Nowhere ELSE RoutesOf[cfg][at].names

(* NewResourceServer accepts a delegate's IssuerURL and Resource. *)
SitsUnder(issuerURL, resource) ==
    /\ TrimRight(issuerURL) # <<>>
    /\ TrimRight(resource) # <<>>
    /\ IsPrefix(TrimRight(issuerURL) \o <<Slash>>, TrimRight(resource))
=============================================================================
