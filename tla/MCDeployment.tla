---------------------------- MODULE MCDeployment ----------------------------
(***************************************************************************)
(* Two products and three sites with a source each, the third on a tier    *)
(* that is not installed; small timeouts, and environments that put each   *)
(* of them below, at and above its limits.                                 *)
(***************************************************************************)
EXTENDS Deployment

MCProductOf == <<"p1", "p2", "p2">>
MCSiteOf == <<"s1", "s2", "s3">>
MCTierOf == [s1 |-> "http", s2 |-> "uc", s3 |-> "camoufox"]
MCDomainsOf == [s1 |-> {}, s2 |-> {"cdn"}, s3 |-> {}]

MCParsersOf ==
    [s1 |-> {"amazon", "magalu", "terabyte"}, s2 |-> {"mercadolivre", "pichau", "statejson"},
     s3 |-> {"magalu"}]

MCDefault ==
    [acquire |-> 12, launch |-> 3, fetch |-> 4, sweep |-> 2,
     smtp_timeout |-> 1, reaper |-> 40, retry_attempts |-> 2, retry_backoff |-> 12]

Unset == [n \in Name |-> -1]

SendEnvironments ==
    {[Unset EXCEPT !["smtp_timeout"] = 0, !["reaper"] = 10],
     [Unset EXCEPT !["smtp_timeout"] = 2, !["retry_attempts"] = 1],
     Unset}

GateEnvironments ==
    {[Unset EXCEPT !["acquire"] = a, !["launch"] = l, !["fetch"] = f, !["sweep"] = s] :
        a \in {3, 7, 12}, l \in {1, 2, 5}, f \in {0, 2, 6}, s \in {0, 1, 9}}

MCEnvironmentsOf ==
    [run |-> {Unset}, send |-> SendEnvironments, gate |-> GateEnvironments]

\* One of the three calls alone.
RunOnly == [run |-> {Unset}, send |-> {}, gate |-> {}]
GateOnly == [run |-> {}, send |-> {}, gate |-> GateEnvironments]
=============================================================================
