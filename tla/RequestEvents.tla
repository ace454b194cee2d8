--------------------------- MODULE RequestEvents ---------------------------
(***************************************************************************)
(* The log of requests and the pages that show it.  Pulls take the time    *)
(* first and then write provenance, tag mapping (which is PullResolver's)  *)
(* and event one by one, so ids and times of events need not agree.  An    *)
(* administrator pages through the log with a cursor, in either order,     *)
(* while it grows; each page is a query and a count of its own.            *)
(***************************************************************************)
EXTENDS Integers, Sequences, FiniteSets, SequencesExt

CONSTANTS
    Pulls,        \* requests being recorded
    Browsers,     \* administrators' windows
    Queries,      \* what a window may ask: [status, window, limit, oldest]
    TrailLimit,   \* cursors a page remembers to go back
    First, NoValue, AnyStatus,
    MaxEvents,    \* bound: rows of either table
    MaxTime,      \* bound: the clock
    MaxPages      \* bound: pages each window shows

ASSUME QueryAssumption ==
    \A query \in Queries :
       query.limit \in Nat \ {0} /\ query.window \in Nat /\ query.oldest \in BOOLEAN
ASSUME TrailAssumption == TrailLimit \in Nat \ {0}

\* A cursor names the event a page ends with.
Cursors == [time : Nat, id : Nat]

ASSUME SentinelAssumption == First \notin Cursors /\ NoValue \notin Cursors
ASSUME BoundAssumption == IsFiniteSet(Pulls) /\ MaxEvents \in Nat /\ MaxTime \in Nat \ {0}

VARIABLES
    now,          \* the clock
    events,       \* request_events, by id
    recorded,     \* times of the tag's provenance_records, by id
    pull,         \* what each request has yet to write
    page,         \* what each window shows
    walk          \* history: what each window has shown since it was opened

log == <<events, recorded, pull>>
logVars == <<now, log, page, walk>>

-----------------------------------------------------------------------------
(* Recording.                                                              *)

NoPull == [pc |-> "idle", time |-> 0, status |-> NoValue]
Unwritten == Cardinality({p \in Pulls : pull[p].pc # "idle"})

\* The time of a request is taken when its outcome is known.
StartRecord(p) ==
    /\ pull[p].pc = "idle" /\ Len(events) + Unwritten < MaxEvents
    /\ Len(recorded) < MaxEvents
    /\ \E status \in {"miss", "hit"} :
          pull' = [pull EXCEPT ![p] =
             [pc |-> IF status = "miss" THEN "provenance" ELSE "event",
              time |-> now, status |-> status]]
    /\ UNCHANGED <<now, events, recorded, page, walk>>

RecordRetrieval(p) ==
    /\ pull[p].pc = "provenance"
    /\ recorded' = Append(recorded, pull[p].time)
    /\ pull' = [pull EXCEPT ![p].pc = "event"]
    /\ UNCHANGED <<now, events, page, walk>>

RecordRequestEvent(p) ==
    /\ pull[p].pc = "event"
    /\ events' = Append(events, [time |-> pull[p].time, status |-> pull[p].status])
    /\ pull' = [pull EXCEPT ![p] = NoPull]
    /\ UNCHANGED <<now, recorded, page, walk>>

\* A write fails, or the process dies: nothing more is recorded.
AbandonRecord(p) ==
    /\ pull[p].pc # "idle"
    /\ pull' = [pull EXCEPT ![p] = NoPull]
    /\ UNCHANGED <<now, events, recorded, page, walk>>

PassTime ==
    /\ now < MaxTime
    /\ now' = now + 1
    /\ UNCHANGED <<log, page, walk>>

-----------------------------------------------------------------------------
(* Queries.                                                                *)

\* The events of a relative window are those since a time computed anew for
\* each page.
After(query) == IF query.window = 0 THEN 0 ELSE now - query.window

EventMatches(id, query, after) ==
    /\ query.status \in {AnyStatus, events[id].status}
    /\ events[id].time >= after

Cursor(id) == [time |-> events[id].time, id |-> id]

Before(c, d) == c.time < d.time \/ (c.time = d.time /\ c.id < d.id)

\* The order in which a query lists events.
Listed(c, d, query) == IF query.oldest THEN Before(c, d) ELSE Before(d, c)

\* Mutant: events of one time are not told apart at the cursor.
WithinCursorByTime(id, cursor, query) ==
    cursor = First \/ (IF query.oldest THEN events[id].time > cursor.time
                       ELSE events[id].time < cursor.time)

\* Mutant: the event at the cursor is listed again.
WithinCursorInclusive(id, cursor, query) ==
    cursor = First \/ ~Listed(Cursor(id), cursor, query)

WithinCursor(id, cursor, query) ==
    cursor = First \/ Listed(cursor, Cursor(id), query)

\* QueryRequestEvents: one event more than the limit says whether there is a
\* next page, whose cursor is the last event shown.
Selected(query, cursor) ==
    LET ids == {id \in DOMAIN events :
                  EventMatches(id, query, After(query)) /\ WithinCursor(id, cursor, query)}
    IN  CHOOSE list \in SetToSeqs(ids) :
           IsSorted(list, LAMBDA i, j : Listed(Cursor(i), Cursor(j), query))

HasMore(query, cursor) == Len(Selected(query, cursor)) > query.limit

\* Mutant: the event that shows there are more is shown too.
RowsUncut(query, cursor) ==
    SubSeq(Selected(query, cursor), 1, Min({query.limit + 1, Len(Selected(query, cursor))}))

Rows(query, cursor) ==
    IF HasMore(query, cursor) THEN SubSeq(Selected(query, cursor), 1, query.limit)
    ELSE Selected(query, cursor)

NextCursor(query, cursor) ==
    IF HasMore(query, cursor) THEN Cursor(Last(Rows(query, cursor))) ELSE NoValue

\* Mutant: the window of the count leaves out the time it starts at.
CountAfter(query, after) ==
    Cardinality({id \in DOMAIN events : EventMatches(id, query, after) /\ events[id].time > after})

CountRequestEvents(query, after) ==
    Cardinality({id \in DOMAIN events : EventMatches(id, query, after)})

-----------------------------------------------------------------------------
(* The requests page.                                                      *)

NoPage == [pc |-> "closed", query |-> NoValue, cursor |-> First, trail |-> <<>>, after |-> 0,
           rows |-> <<>>, next |-> NoValue, total |-> 0]

\* What was there when a walk began, what it showed, and the cursors of the
\* pages that lead to the present one.
NoWalk == [present |-> {}, shown |-> <<>>, onward |-> FALSE, path |-> <<>>, pages |-> 0]

\* The query of handleDashboard; the count is a statement of its own.
Show(b, query, cursor, trail) ==
    page' = [page EXCEPT ![b] =
       [pc |-> "count", query |-> query, cursor |-> cursor, trail |-> trail,
        after |-> After(query), rows |-> Rows(query, cursor),
        next |-> NextCursor(query, cursor), total |-> 0]]

OpenRequests(b) ==
    /\ page[b].pc = "closed"
    /\ \E query \in Queries :
          /\ Show(b, query, First, <<>>)
          /\ walk' = [walk EXCEPT ![b] =
                [present |-> DOMAIN events, shown |-> Rows(query, First), onward |-> TRUE,
                 path |-> <<>>, pages |-> 1]]
    /\ UNCHANGED <<now, log>>

ShowCount(b) ==
    /\ page[b].pc = "count"
    /\ page' = [page EXCEPT ![b].pc = "shown",
                            ![b].total = CountRequestEvents(page[b].query, page[b].after)]
    /\ UNCHANGED <<now, log, walk>>

\* Mutant: a trail that grows too long loses its end.
NextTrailHead(trail, cursor) ==
    SubSeq(Append(trail, cursor), 1, Min({TrailLimit, Len(trail) + 1}))

NextTrail(trail, cursor) ==
    LET all == Append(trail, cursor) IN SubSeq(all, Max({1, Len(all) - TrailLimit + 1}), Len(all))

\* The link to the next page (requestPageURLs).
FollowNext(b) ==
    /\ page[b].pc = "shown" /\ page[b].next # NoValue /\ walk[b].pages < MaxPages
    /\ LET query == page[b].query
           cursor == page[b].next IN
       /\ Show(b, query, cursor, NextTrail(page[b].trail, page[b].cursor))
       /\ walk' = [walk EXCEPT ![b].shown = IF walk[b].onward THEN @ \o Rows(query, cursor) ELSE @,
                               ![b].path = Append(@, page[b].cursor), ![b].pages = @ + 1]
    /\ UNCHANGED <<now, log>>

\* The link to the previous page; without a trail it leads to the first.
FollowPrevious(b) ==
    /\ page[b].pc = "shown" /\ page[b].cursor # First /\ walk[b].pages < MaxPages
    /\ LET trail == page[b].trail IN
       /\ IF trail = <<>> THEN Show(b, page[b].query, First, <<>>)
          ELSE Show(b, page[b].query, Last(trail), Front(trail))
       /\ walk' = [walk EXCEPT ![b].onward = FALSE, ![b].shown = <<>>, ![b].pages = @ + 1,
                               ![b].path = IF trail = <<>> THEN <<>> ELSE Front(@)]
    /\ UNCHANGED <<now, log>>

Close(b) ==
    /\ page[b].pc = "shown"
    /\ page' = [page EXCEPT ![b] = NoPage]
    /\ walk' = [walk EXCEPT ![b] = NoWalk]
    /\ UNCHANGED <<now, log>>

-----------------------------------------------------------------------------
(* Details.                                                                *)

\* Mutant: the record inserted last.
LatestInserted(records) == Last(records)

\* FindProvenanceByLogicalReference: the record retrieved last.
Latest(records) == Max(Range(records))

-----------------------------------------------------------------------------

LogInit ==
    /\ now = 1
    /\ events = <<>> /\ recorded = <<>>
    /\ pull = [p \in Pulls |-> NoPull]
    /\ page = [b \in Browsers |-> NoPage]
    /\ walk = [b \in Browsers |-> NoWalk]

LogNext ==
    \/ \E p \in Pulls :
          StartRecord(p) \/ RecordRetrieval(p)
          \/ RecordRequestEvent(p) \/ AbandonRecord(p)
    \/ \E b \in Browsers :
          OpenRequests(b) \/ ShowCount(b) \/ FollowNext(b) \/ FollowPrevious(b) \/ Close(b)
    \/ PassTime

LogSpec == LogInit /\ [][LogNext]_logVars

-----------------------------------------------------------------------------
(* Properties.                                                             *)

\* Rows shown are events of the log that match what was asked, no page is
\* longer than its limit, and only a full page has a next.
LogTypeOK ==
    /\ now \in 1 .. MaxTime /\ Len(events) <= MaxEvents
    /\ \A b \in Browsers : page[b].pc # "closed" =>
          /\ page[b].query \in Queries
          /\ Len(page[b].rows) <= page[b].query.limit
          /\ \A i \in DOMAIN page[b].rows : EventMatches(page[b].rows[i], page[b].query, page[b].after)
          /\ page[b].next # NoValue =>
                Len(page[b].rows) = page[b].query.limit

\* Walking from the first page to the last shows every event that was there
\* when the walk began and still matches at its end, whatever is recorded
\* meanwhile and whatever times it carries (cursors of QueryRequestEvents).
WalkShowsAll ==
    \A b \in Browsers :
       page[b].pc # "closed" /\ walk[b].onward /\ page[b].next = NoValue =>
          \A id \in walk[b].present :
             EventMatches(id, page[b].query, page[b].after) => Contains(walk[b].shown, id)

\* A walk shows no event twice and keeps its order across pages.
WalkInOrder ==
    \A b \in Browsers : \A i, j \in DOMAIN walk[b].shown :
       i < j => Listed(Cursor(walk[b].shown[i]), Cursor(walk[b].shown[j]), page[b].query)

\* The number of matches shown with a page covers its rows and the next
\* page's, though it is counted later and over all pages.
TotalCoversPage ==
    \A b \in Browsers : page[b].pc = "shown" =>
       page[b].total >= Len(page[b].rows) + (IF page[b].next = NoValue THEN 0 ELSE 1)

\* Pages and their counts, taken one by one of a growing log, agree with each
\* other (QueryRequestEvents, handleDashboard).
PagesInv == LogTypeOK /\ WalkInOrder /\ TotalCoversPage

\* The way back is the end of the way here, as long as the trail reaches
\* (requestPageURLs keeps a limited number of cursors).
TrailLeadsBack ==
    \A b \in Browsers :
       /\ IsSuffix(page[b].trail, walk[b].path)
       /\ page[b].cursor # First /\ Len(walk[b].path) = 1 => page[b].trail \in {<<>>, <<First>>}

\* The details of a request that went upstream show provenance at least as
\* recent as the request's own (handleRequestDetail), though records of
\* concurrent requests arrive out of order.
DetailNotOlder ==
    \A i \in DOMAIN events : events[i].status = "miss" =>
       recorded # <<>> /\ Latest(recorded) >= events[i].time

=============================================================================
