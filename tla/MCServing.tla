------------------------------- MODULE MCServing -------------------------------
EXTENDS Serving

IntVal(n) == [kind |-> "int", n |-> n]
Flag(dashes, name, value) == [dashes |-> dashes, name |-> name, value |-> value]
Bare(n) == [dashes |-> 0, name |-> "", value |-> n]

\* spec.rollout and spec.startupProbe: all defaults; no sleep, at the limit of
\* the grace period and one below it; a long sleep; the pair of zeros Kubernetes
\* refuses.
Defaults == [preStop |-> Unset, grace |-> Unset, maxUnavailable |-> Unset,
             maxSurge |-> Unset, startupProbe |-> TRUE]
MCRolloutSpecs ==
    {Defaults,
     [Defaults EXCEPT !.preStop = 0, !.grace = 2, !.startupProbe = FALSE],
     [Defaults EXCEPT !.preStop = 0, !.grace = 3, !.startupProbe = FALSE],
     [Defaults EXCEPT !.preStop = 2],
     [Defaults EXCEPT !.maxSurge = IntVal(0)]}

\* extraArgs in the forms the documentation uses.
MCArgLists ==
    {<<>>,
     <<Flag(2, "shutdown-timeout", 1), Flag(2, "shutdown-timeout", 3)>>,
     <<Flag(2, "request-timeout", Unset), Bare(2), Flag(2, "shutdown-timeout", Unset), Bare(1)>>,
     <<Flag(2, "metrics-bind-address", Unset), Bare(1)>>}

\* A flag written with one dash, which Go's flag package takes as well.
MCOneDash == {<<>>, <<Flag(1, "shutdown-timeout", 3)>>}

MCRequests ==
    {[body |-> "review", objects |-> <<"v1", "v3">>, to |-> "v2"],
     [body |-> "review", objects |-> <<"undecodable">>, to |-> "v1"],
     [body |-> "oversized", objects |-> <<>>, to |-> "v1"],
     [body |-> "garbled", objects |-> <<>>, to |-> "v1"]}

MCOneRequest == {[body |-> "review", objects |-> <<"v1">>, to |-> "v2"]}

MCPlans ==
    {[id |-> "p1", hub |-> "v2", versions |-> {"v1", "v2", "v3"},
      lossy |-> {<<"spoke_to_hub", "v1">>, <<"hub_to_spoke", "v1">>}],
     [id |-> "p2", hub |-> "v3", versions |-> {"v1", "v2", "v3"},
      lossy |-> {<<"hub_to_spoke", "v2">>}]}

ASSUME DocumentedForms == \A args \in MCArgLists : ReadAlike(args)

ASSUME DefaultsAssumption == DefaultPreStopSleep + DefaultShutdownTimeout < DefaultGracePeriod
=============================================================================
