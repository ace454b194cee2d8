----------------------------- MODULE MCPushPath -----------------------------
(***************************************************************************)
(* Instances of PushPath for TLC.  The claimed digests are such that an    *)
(* upload can be cut short, doubled or mixed with another one and still    *)
(* hit a digest somebody claims.                                           *)
(***************************************************************************)
EXTENDS PushPath, TLC

CONSTANTS u1, r1, r2, x1, s1, t1, c1, c2, m1, m2, k1

MCBodies  == {<<>>} \cup {<<a>> : a \in Chunks} \cup {<<a, b>> : a \in Chunks, b \in Chunks}
MCBlobsOf == [m \in Manifests |-> IF m = m1 THEN <<<<c1>>, <<c2>>>> ELSE <<<<c1>>>>]

MkConfig(dest, strategy, key) ==
    [dest |-> dest, physical |-> [r \in Repos |-> x1], enabled |-> Sources,
     strategy |-> [s \in Sources |-> strategy], key |-> key]
ToS1 == [r \in Repos |-> s1]

Order(op, who, r, i, c, d, m) ==
    [op |-> op, who |-> who, repo |-> r, id |-> i, chunk |-> c, digest |-> d,
     manifest |-> m, tag |-> t1]

\* Clients that append to and complete each other's uploads, in one process
\* and across a restart; pushes are denied, by the route or for want of a user.
UploadConfigs == {MkConfig([r \in Repos |-> Denied], "challenge", k1)}
UploadAsks ==
    {Order("start", u1, r, 1, c1, <<>>, m1) : r \in Repos} \cup
    {Order("patch", u1, r1, i, c, <<>>, m1) : i \in 1..MaxUploads, c \in Chunks} \cup
    {Order("put", u1, r1, i, c2, d, m1) : i \in 1..MaxUploads, d \in {<<c1, c2>>, <<c2>>}} \cup
    {Order("push", Anonymous, r1, 1, c1, <<>>, m1)}

\* Two images that share a layer, staged and pushed at once.
PublishConfigs == {MkConfig(ToS1, "current_user_required", k1)}
PublishAsks ==
    {Order("start", u1, r1, 1, c1, <<>>, m1),
     Order("put", u1, r1, 1, c1, <<c1>>, m1),
     Order("put", u1, r1, 2, c2, <<c2>>, m1)} \cup
    {Order("push", u1, r1, 1, c1, <<>>, m) : m \in Manifests}

PushWorkloads ==
    {[configs |-> UploadConfigs, asks |-> UploadAsks, requests |-> 4],
     [configs |-> PublishConfigs, asks |-> PublishAsks, requests |-> 5]}

RequestSymmetry == Permutations(Requests)

=============================================================================
