-------------------------- MODULE MCClientJourney --------------------------
(***************************************************************************)
(* Instances of ClientJourney for TLC: a tool on its own that signs for    *)
(* itself, and a host with two mounts, one of them running, written as     *)
(* operators write URLs: with and without slashes at the end, and one of   *)
(* them twice.                                                             *)
(***************************************************************************)
EXTENDS ClientJourney, TLC

CONSTANT slack

Site == <<"host">>
Endpoint == <<"host", "/", "mcp">>
SlackURL == <<"host", "/", "slack", "/", "mcp">>
MailURL == <<"host", "/", "mail", "/", "mcp">>

MCTool ==
    [public |-> Site, resource |-> Endpoint \o <<"/">>, resources |-> <<>>,
     asymmetric |-> FALSE, issuer |-> <<>>, mounts |-> (slack :> <<>>)]

MCHostConfig ==
    [public |-> Site \o <<"/">>, resource |-> <<>>,
     resources |-> <<SlackURL, SlackURL \o <<"/">>, MailURL \o <<"/">> >>,
     asymmetric |-> TRUE, issuer |-> Site,
     mounts |-> (slack :> SlackURL \o <<"/">>)]

MCConfigs == {MCTool, MCHostConfig}

MCRedirectURIs ==
    {[scheme |-> "https", host |-> "remote"], [scheme |-> "http", host |-> "loopback"],
     [scheme |-> "http", host |-> "remote"]}

MCSpellings == {<<>>, <<"/">>}

MCSymmetry == Permutations(Ids) \cup Permutations(Secrets)
=============================================================================
