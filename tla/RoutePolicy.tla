---------------------------- MODULE RoutePolicy ----------------------------
(***************************************************************************)
(* The routing policy: NewEngine validates and orders the configured       *)
(* routes, and ResolvePull and ResolvePush decide by the first match.      *)
(*                                                                         *)
(* A repository is the sequence of its path components.  Rewriting of the  *)
(* repository and the explanations are left out; NormalizeRepository only  *)
(* decides which strings are repositories.                                 *)
(***************************************************************************)
EXTENDS Naturals, Sequences, SequencesExt, FiniteSets

CONSTANTS
    Repositories,   \* the repositories asked for, as sequences of components
    PolicySources,  \* the configured sources; routes are not held to them if there are none
    None,           \* an unset authoritative source or push destination
    RouteSet,       \* the routes an operator may write
    MaxRoutes       \* bound: routes of a configuration

\* A pattern is a path, alone or followed by "/**"; "**" has the empty path.
IsRoute(r) ==
    /\ DOMAIN r = {"path", "tail", "precedence", "pull", "authoritative", "fallback", "push",
                   "denied"}
    /\ r.path # <<>> \/ r.tail
    /\ r.tail \in BOOLEAN /\ r.fallback \in BOOLEAN /\ r.denied \in BOOLEAN
    /\ r.precedence \in Nat /\ r.pull \in Seq(Range(r.pull))

ASSUME PolicyConstants ==
    /\ None \notin PolicySources
    /\ MaxRoutes \in Nat
    /\ \A r \in RouteSet : IsRoute(r)

VARIABLES
    written,    \* the routes of the configuration file, in order
    loaded,     \* whether the engine was built from it
    engine,     \* Engine.routes
    decision    \* what the last request was told

policyVars == <<written, loaded, engine, decision>>

-----------------------------------------------------------------------------
(* NewEngine *)

\* patternContains, for a parent that ends in "/**".
PatternContains(parent, child) ==
    IF child.tail THEN IsPrefix(parent.path, child.path) ELSE IsStrictPrefix(parent.path, child.path)

\* The cases are tried in this order: if both end in "/**", only whether the
\* first contains the second is looked at.
PatternsOverlap(a, b) ==
    LET every(r) == r.path = <<>>
        same     == a.path = b.path /\ a.tail = b.tail
    IN  \/ every(a) \/ every(b) \/ same
        \/ a.tail /\ PatternContains(a, b)
        \/ ~a.tail /\ b.tail /\ PatternContains(b, a)

Known(source) == source \in PolicySources

\* Mutant: the authoritative source need not be one of the pull sources.
SourcesKnownOnly(r) ==
    \/ PolicySources = {}
    \/ /\ \A source \in Range(r.pull) : Known(source)
       /\ r.authoritative # None => Known(r.authoritative)
       /\ r.push # None => Known(r.push)

\* Mutant: pull sources are not looked up.
PullSourcesUnchecked(r) ==
    \/ PolicySources = {}
    \/ /\ r.authoritative # None => Known(r.authoritative) /\ r.authoritative \in Range(r.pull)
       /\ r.push # None => Known(r.push)

\* validateRouteSources: without configured sources anything goes.
SourcesValid(r) ==
    \/ PolicySources = {}
    \/ /\ \A source \in Range(r.pull) : Known(source)
       /\ r.authoritative # None => Known(r.authoritative) /\ r.authoritative \in Range(r.pull)
       /\ r.push # None => Known(r.push)

\* validateRoutes: each route, and each with the ones after it.
RoutesValid(routes) ==
    \A i \in DOMAIN routes :
        /\ SourcesValid(routes[i])
        /\ \A j \in i+1..Len(routes) :
              ~(routes[i].precedence = routes[j].precedence /\ PatternsOverlap(routes[i], routes[j]))

\* Mutant: routes stay in the order of the file.
FileOrder(routes) == routes

\* sort.SliceStable by precedence.
Ordered(routes) ==
    LET before(i, j) == \/ routes[i].precedence < routes[j].precedence
                        \/ routes[i].precedence = routes[j].precedence /\ i < j
        order == CHOOSE p \in [DOMAIN routes -> DOMAIN routes] : IsSorted(p, before)
    IN  [n \in DOMAIN routes |-> routes[order[n]]]

-----------------------------------------------------------------------------
(* Decisions *)

\* matchRepository
Matches(r, repository) ==
    IF r.tail THEN IsStrictPrefix(r.path, repository) ELSE r.path = repository

\* MatchRoute: the first match, if any.
MatchRoute(repository) ==
    SelectInSeq(engine, LAMBDA r : Matches(r, repository))

TruncateAfter(values, terminal) ==
    LET at == SelectInSeq(values, LAMBDA v : v = terminal)
    IN  IF at = 0 THEN values ELSE SubSeq(values, 1, at)

CandidateSources(r) ==
    IF r.authoritative # None /\ ~r.fallback THEN TruncateAfter(r.pull, r.authoritative) ELSE r.pull

NoDecision == [kind |-> "none"]
NoRoute(repository) == [kind |-> "no route", repository |-> repository]

AcceptsPush(r) == ~r.denied /\ r.push # None

-----------------------------------------------------------------------------
(* Steps *)

\* The operator adds a route to the configuration.
WriteRoute(r) ==
    /\ ~loaded /\ Len(written) < MaxRoutes
    /\ written' = Append(written, r)
    /\ UNCHANGED <<loaded, engine, decision>>

\* The program starts only with a valid configuration.
NewEngine ==
    /\ ~loaded /\ RoutesValid(written)
    /\ loaded' = TRUE /\ engine' = Ordered(written)
    /\ UNCHANGED <<written, decision>>

ResolvePull(repository) ==
    /\ loaded
    /\ LET n == MatchRoute(repository)
       IN  decision' = IF n = 0 THEN NoRoute(repository)
                       ELSE [kind |-> "pull", repository |-> repository, route |-> engine[n],
                             candidates |-> CandidateSources(engine[n])]
    /\ UNCHANGED <<written, loaded, engine>>

ResolvePush(repository) ==
    /\ loaded
    /\ LET n == MatchRoute(repository)
       IN  decision' = IF n = 0 THEN NoRoute(repository)
                       ELSE IF ~AcceptsPush(engine[n])
                       THEN [kind |-> "denied", repository |-> repository, route |-> engine[n]]
                       ELSE [kind |-> "push", repository |-> repository, route |-> engine[n],
                             destination |-> engine[n].push]
    /\ UNCHANGED <<written, loaded, engine>>

\* The operator edits the configuration, which takes effect at the next start.
Stop ==
    /\ loaded
    /\ loaded' = FALSE /\ written' = <<>> /\ engine' = <<>> /\ decision' = NoDecision

\* An operator whose configuration is refused starts over.
Discard ==
    /\ ~loaded /\ ~RoutesValid(written)
    /\ written' = <<>>
    /\ UNCHANGED <<loaded, engine, decision>>

PolicyInit == written = <<>> /\ loaded = FALSE /\ engine = <<>> /\ decision = NoDecision

PolicyNext ==
    \/ \E r \in RouteSet : WriteRoute(r)
    \/ NewEngine \/ Stop \/ Discard
    \/ \E repository \in Repositories : ResolvePull(repository) \/ ResolvePush(repository)

PolicySpec == PolicyInit /\ [][PolicyNext]_policyVars

-----------------------------------------------------------------------------
(* Properties *)

\* The type invariant; decisions name configured sources only, if any are.
PolicyTypeOK ==
    /\ loaded \in BOOLEAN
    /\ \A i \in DOMAIN written : IsRoute(written[i])
    /\ Len(engine) = IF loaded THEN Len(written) ELSE 0
    /\ decision.kind \in {"none", "no route", "pull", "push", "denied"}
    /\ decision.kind \in {"no route", "pull", "push", "denied"} => decision.repository \in Repositories
    /\ decision.kind \in {"pull", "push", "denied"} => decision.route \in Range(written)
    /\ decision.kind = "pull" /\ PolicySources # {} => decision.candidates \in Seq(PolicySources)
    /\ decision.kind = "push" /\ PolicySources # {} => decision.destination \in PolicySources

Decided(kinds) == decision.kind \in kinds

\* TestMatchRouteUsesLowestPrecedenceMatchingRoute, for every configuration that
\* loads: whatever the order in the file, no route of a lower precedence matches,
\* and none matches at all when the answer is that there is no route.
LowestPrecedenceDecides ==
    /\ Decided({"pull", "push", "denied"}) =>
          /\ Matches(decision.route, decision.repository)
          /\ \A i \in DOMAIN written : Matches(written[i], decision.repository) =>
                decision.route.precedence <= written[i].precedence
    /\ Decided({"no route"}) => \A i \in DOMAIN written : ~Matches(written[i], decision.repository)

\* ResolvePull truncates after the authoritative source, and truncateAfter
\* returns everything if it is not there: validation and decision together keep
\* a pull from being tried beyond it unless fallback is allowed.  Without
\* configured sources the list may lack it.
AuthorityIsLast ==
    Decided({"pull"}) /\ decision.route.authoritative # None /\ ~decision.route.fallback =>
        /\ \A i \in DOMAIN decision.candidates :
              decision.candidates[i] = decision.route.authoritative => i = Len(decision.candidates)
        /\ PolicySources # {} =>
              \E i \in DOMAIN decision.candidates :
                 decision.candidates[i] = decision.route.authoritative

\* TestNewEngineRejectsAmbiguousRoutesAtSamePrecedence and the error "ambiguous
\* routes share precedence": in a configuration that loads, one route decides for
\* a repository whatever the order of the file.
NoAmbiguity ==
    loaded => \A i, j \in DOMAIN written : \A repository \in Repositories :
        /\ written[i].precedence = written[j].precedence
        /\ Matches(written[i], repository) /\ Matches(written[j], repository)
        => i = j

=============================================================================
