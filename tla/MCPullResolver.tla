--------------------------- MODULE MCPullResolver ---------------------------
(***************************************************************************)
(* Instances of PullResolver for TLC.  Every image has the blob l0, so a    *)
(* blob may be bound through either manifest.                              *)
(***************************************************************************)
EXTENDS PullResolver, TLC

CONSTANTS u1, u2, r1, r2, ra, rb, s1, s2, t1, m1, m2, l0, k1, k2

MCSourceRank == [s \in Sources |-> IF s = s1 THEN 1 ELSE 2]
MCBlobsOf    == [m \in Manifests |-> {l0}]
PullSymmetry == Permutations(Users) \cup Permutations(Requests)

MkConfig(rt, srcs, en, strat, key) ==
    [route |-> rt, sources |-> srcs, enabled |-> en, strategy |-> strat, key |-> key]

AllTo(route) == [r \in Repos |-> route]
TwoSources   == [x \in Routes |-> <<s1, s2>>]
Challenge    == [s \in Sources |-> "challenge"]
SignedFirst  == [s \in Sources |-> IF s = s1 THEN "current_user_required" ELSE "challenge"]
ProxyFirst   == [s \in Sources |-> IF s = s1 THEN "proxy" ELSE "current_user_required"]

\* One source, reached publicly or with the user's credential, and the same
\* deployment with the repository moved to another route and the key replaced.
IsolationConfigs ==
    {MkConfig(AllTo(ra), [x \in Routes |-> <<s1>>], {s1}, Challenge, k1),
     MkConfig(AllTo(rb), [x \in Routes |-> <<s1>>], {s1}, ProxyFirst, k2)}
IsolationAsks ==
    [op : {"pull"}, who : Principals, repo : {r1}, ref : {t1}] \cup
    [op : {"pull"}, who : Users,      repo : {r1}, ref : {m1}] \cup
    [op : {"blob"}, who : Principals, repo : {r1}, ref : {l0}] \cup
    [op : {"blob"}, who : Users,      repo : {r2}, ref : {l0}]

\* Two candidates for an image that moves under its tag: both public, as
\* without a key, or the first with the user's credential and the other disabled.
FallbackConfigs ==
    {MkConfig(AllTo(ra), TwoSources, {s1, s2}, ProxyFirst, NoKey),
     MkConfig(AllTo(ra), TwoSources, {s1}, SignedFirst, k1)}
FallbackAsks == [op : {"pull"}, who : Users, repo : {r1}, ref : {t1}]

=============================================================================
