------------------------------ MODULE Dashboard -------------------------------
(***************************************************************************)
(* The dashboards of a project, below them what is asked of them as a file,*)
(* and last how the pages of a report are written.                         *)
(*                                                                         *)
(* What the dashboards of a project answer, while its rooms, tags, agents  *)
(* and queues change: the totals of the live dashboard, the agents with    *)
(* the rooms of each, the times, and the scores of the surveys             *)
(* (api/v1/dashboard, api/v1/internal/dashboard).  An answer               *)
(* is a query over the rows of that moment.  A day is today or before; an  *)
(* average is the bag of the rooms whose values it takes.  What takes      *)
(* several queries takes them one after the other, and rows change between *)
(* them.                                                                   *)
(***************************************************************************)
EXTENDS FiniteSets, Integers

CONSTANTS
    DashRooms,
    DashQueues,
    QueueIn,        \* the queue of each room
    DashSectors,
    SectorWith,     \* the sector of each queue
    DashAgents,
    NoOne,          \* a room without agent, and a filter that is not given
    DashTags,
    TagSector,      \* the sector that has these tags
    MaxRemovals     \* bound on agents and queues that are removed

ASSUME DashboardAssumption ==
    /\ IsFiniteSet(DashRooms) /\ IsFiniteSet(DashAgents) /\ IsFiniteSet(DashTags)
    /\ QueueIn \in [DashRooms -> DashQueues]
    /\ SectorWith \in [DashQueues -> DashSectors]
    /\ TagSector \in DashSectors
    /\ NoOne \notin DashAgents \cup DashSectors \cup DashTags
    /\ MaxRemovals \in Nat

VARIABLES
    dashRow,        \* rooms_room, with its metrics, tags and survey
    belongs,        \* agents whose permission is not deleted
    serves,         \* queue authorizations, as pairs
    removedQueues,  \* soft-deleted queues
    answer,         \* of a request that takes several queries: what they found so far
    seen            \* history: where each room stood since that request began

dashRows == <<dashRow, belongs, serves, removedQueues>>
dashVars == <<dashRow, belongs, serves, removedQueues, answer, seen>>
Period == {"before", "today"}
TotalNames == {"active", "closed", "queued"}
TimeNames == {"waiting", "saved", "awaited", "durations"}
Standings == {"unmade", "queued", "held", "answered", "closed", "past"}
NoAnswer ==
    [asks |-> "nothing", of |-> NoOne, next |-> "none",
     told |-> [name \in TotalNames \cup TimeNames |-> {}]]

NoRoomYet ==
    [at |-> "unmade", agent |-> NoOne, made |-> "today", ended |-> "no", tags |-> {},
     measured |-> "no", answered |-> FALSE, rated |-> FALSE]

DashTypeOK ==
    /\ dashRow \in [DashRooms ->
          [at: {"unmade", "queued", "held", "closed"}, agent: DashAgents \cup {NoOne},
           made: Period, ended: Period \cup {"no"}, tags: SUBSET DashTags,
           measured: Period \cup {"no"}, answered: BOOLEAN, rated: BOOLEAN]]
    /\ \A r \in DashRooms : dashRow[r].at = "held" => dashRow[r].agent # NoOne
    /\ belongs \subseteq DashAgents
    /\ serves \subseteq DashAgents \X DashQueues
    /\ removedQueues \subseteq DashQueues
    /\ answer \in [asks: {"nothing", "totals", "times"}, of: DashSectors \cup {NoOne},
                   next: {"none", "told"} \cup TotalNames \cup TimeNames,
                   told: [TotalNames \cup TimeNames -> SUBSET DashRooms]]
    /\ seen \in [DashRooms -> SUBSET Standings]

DashInit ==
    /\ dashRow = [r \in DashRooms |-> NoRoomYet]
    /\ belongs = DashAgents /\ serves = DashAgents \X DashQueues
    /\ removedQueues = {}
    /\ answer = NoAnswer /\ seen = [r \in DashRooms |-> {}]

-----------------------------------------------------------------------------
(* Rows change under the dashboards. *)

SetRow(r, row) ==
    /\ dashRow' = [dashRow EXCEPT ![r] = row]
    /\ UNCHANGED <<belongs, serves, removedQueues>>

MakeDashRoom(r) ==
    /\ dashRow[r].at = "unmade" /\ QueueIn[r] \notin removedQueues
    /\ SetRow(r, [dashRow[r] EXCEPT !.at = "queued"])

\* The row of RoomMetrics is made with the first agent, or at the end.
Measured(row) == IF row.measured = "no" THEN [row EXCEPT !.measured = "today"] ELSE row

HandDashRoom(r, a) ==
    /\ dashRow[r].at \in {"queued", "held"} /\ <<a, QueueIn[r]>> \in serves
    /\ SetRow(r, [Measured(dashRow[r]) EXCEPT !.at = "held", !.agent = a])

RequeueDashRoom(r) ==
    /\ dashRow[r].at = "held"
    /\ SetRow(r, [dashRow[r] EXCEPT !.at = "queued", !.agent = NoOne])

AnswerDashRoom(r) ==
    /\ dashRow[r].at = "held"
    /\ SetRow(r, [dashRow[r] EXCEPT !.answered = TRUE])

TagDashRoom(r, tags) ==
    /\ dashRow[r].at \in {"queued", "held"} /\ SectorWith[QueueIn[r]] = TagSector
    /\ SetRow(r, [dashRow[r] EXCEPT !.tags = tags])

CloseDashRoom(r) ==
    /\ dashRow[r].at \in {"queued", "held"}
    /\ SetRow(r, [Measured(dashRow[r]) EXCEPT !.at = "closed", !.ended = "today"])

RateDashRoom(r) ==
    /\ dashRow[r].at = "closed" /\ dashRow[r].agent # NoOne
    /\ SetRow(r, [dashRow[r] EXCEPT !.rated = TRUE])

Older(day) == IF day = "today" THEN "before" ELSE day
Midnight ==
    /\ dashRow' = [r \in DashRooms |->
          IF dashRow[r].at = "unmade" THEN dashRow[r]
          ELSE [dashRow[r] EXCEPT !.made = Older(@), !.ended = Older(@),
                                   !.measured = Older(@)]]
    /\ UNCHANGED <<belongs, serves, removedQueues>>

MayRemove ==
    Cardinality(DashAgents \ belongs) + Cardinality(removedQueues) < MaxRemovals

\* Mutant: the authorizations stay.
RemoveMemberOnly(a) ==
    /\ a \in belongs /\ MayRemove
    /\ belongs' = belongs \ {a}
    /\ UNCHANGED <<dashRow, serves, removedQueues>>

\* A permission is deleted softly, its authorizations with it.
RemoveMember(a) ==
    /\ a \in belongs /\ MayRemove
    /\ belongs' = belongs \ {a}
    /\ serves' = {p \in serves : p[1] # a}
    /\ UNCHANGED <<dashRow, removedQueues>>

\* Queues are deleted with rooms in them.
RemoveQueue(q) ==
    /\ q \notin removedQueues /\ MayRemove
    /\ removedQueues' = removedQueues \cup {q}
    /\ UNCHANGED <<dashRow, belongs, serves>>

RowsChange ==
    \/ \E r \in DashRooms :
          \/ MakeDashRoom(r) \/ RequeueDashRoom(r) \/ AnswerDashRoom(r)
          \/ CloseDashRoom(r) \/ RateDashRoom(r)
          \/ \E a \in DashAgents : HandDashRoom(r, a)
          \/ \E tags \in SUBSET DashTags : TagDashRoom(r, tags)
    \/ \E a \in DashAgents : RemoveMember(a)
    \/ \E q \in DashQueues : RemoveQueue(q)
    \/ Midnight

\* Where a room stands for the figures of the live day.
Standing(row) ==
    IF row.at = "held" /\ row.answered THEN "answered"
    ELSE IF row.at = "closed" /\ row.ended # "today" THEN "past" ELSE row.at

Watched ==
    /\ UNCHANGED answer
    /\ seen' = IF answer = NoAnswer THEN seen
               ELSE [r \in DashRooms |-> seen[r] \cup {Standing(dashRow'[r])}]

-----------------------------------------------------------------------------
(* The rows a query finds. *)

Is(r, at) == dashRow[r].at = at
Opened == {r \in DashRooms : Is(r, "queued") \/ Is(r, "held")}
InSector(sector) == {r \in DashRooms : sector \in {NoOne, SectorWith[QueueIn[r]]}}
LiveQueues == {r \in DashRooms : QueueIn[r] \notin removedQueues}
Of(a) == {r \in DashRooms : dashRow[r].agent = a}
EndedIn(days) == {r \in DashRooms : Is(r, "closed") /\ dashRow[r].ended \in days}
MadeIn(days) == {r \in DashRooms : dashRow[r].made \in days}

\* A join with the tags gives a row for each tag of the room among those named.
Rows(found, tags) ==
    IF tags = {} THEN found \X {NoOne}
    ELSE {p \in found \X tags : p[2] \in dashRow[p[1]].tags}
RoomsIn(rows) == {p[1] : p \in rows}
Plain(rows) == \A p, q \in rows : p[1] = q[1] => p = q

\* RawDataService, for a user who manages every sector.
RawActive(sector) == LiveQueues \cap InSector(sector) \cap {r \in Opened : Is(r, "held")}
RawQueued(sector) == LiveQueues \cap InSector(sector) \cap {r \in Opened : Is(r, "queued")}
RawClosed(sector, days) == LiveQueues \cap InSector(sector) \cap EndedIn(days)

\* The general averages and the transfers are of rooms by their creation, the averages
\* of each sector or queue by the creation of their metrics.
HadAgent == {r \in DashRooms : dashRow[r].agent # NoOne}
Transferred(sector, days) == LiveQueues \cap InSector(sector) \cap MadeIn(days)
GeneralRooms(sector, days) == Transferred(sector, days) \cap HadAgent
Division(q, days) ==
    {r \in LiveQueues \cap HadAgent : QueueIn[r] = q /\ dashRow[r].measured \in days}

\* TimeMetricsService, of rooms that are open: how long they wait, how soon they were
\* answered, how long the others have waited for it, how long they last.
WaitingTimes(sector) == {r \in Opened : Is(r, "queued")} \cap InSector(sector)
SavedResponses(sector) == {r \in RawActive(sector) : dashRow[r].answered}
AwaitedResponses(sector) == {r \in RawActive(sector) : ~dashRow[r].answered}
Durations(sector) == RawActive(sector)

\* AgentRepository of the live dashboard: with dates, a room counts by its creation.
LiveOpened(a, sector) == Of(a) \cap Opened \cap InSector(sector)
LiveClosed(a, sector) == Of(a) \cap EndedIn({"today"}) \cap InSector(sector)
DatedOpened(a, sector, days) ==
    Of(a) \cap InSector(sector) \cap MadeIn(days) \cap {r \in DashRooms : Is(r, "closed")}
DatedClosed(a, sector, days) == DatedOpened(a, sector, days) \cap EndedIn(days)

\* AgentRepository of the internal dashboard counts distinct rooms, by their end.
AgentOpened(a, sector, tags) == RoomsIn(Rows(Of(a) \cap Opened \cap InSector(sector), tags))
AgentClosed(a, sector, tags, days) ==
    RoomsIn(Rows(Of(a) \cap EndedIn(days) \cap InSector(sector), tags))

\* Who is listed: authorized in the sector, or with a room there.  The query joins the
\* permissions whether or not they are deleted.
Listed(sector) ==
    {a \in DashAgents : \/ sector = NoOne
                        \/ \E p \in serves : p[1] = a /\ SectorWith[p[2]] = sector
                        \/ Of(a) \cap InSector(sector) # {}}

\* Mutant: who was removed is not shown.
ListedStill(sector, days) == Listed(sector) \cap belongs

\* include_removed: of the removed agents, those that have rooms to show.
ListedRemoved(sector, days) ==
    {a \in Listed(sector) : \/ a \in belongs
                            \/ AgentOpened(a, sector, {}) # {}
                            \/ AgentClosed(a, sector, {}, days) # {}}

\* get_agents_custom_status_and_rooms lists by queue authorizations alone.
ListedByQueue(sector) ==
    {a \in DashAgents : \/ sector = NoOne
                        \/ \E p \in serves : p[1] = a /\ SectorWith[p[2]] = sector}

\* The live times look at the tags only when a sector is given.
TagsOf(sector, tags) == IF sector = NoOne THEN {} ELSE tags

\* The surveys: of all rooms, of each agent's, and by rating.  The ratings are of all
\* surveys; a period of bare dates ends for them when its last day begins.
ScoredReviews(sector, tags, days) ==
    Rows({r \in EndedIn(days) \cap InSector(sector) : dashRow[r].rated}, tags)
AgentReviews(a, sector, tags, days) ==
    {r \in AgentClosed(a, sector, tags, days) : dashRow[r].rated}
RatingCounts(sector, tags, days, hasHours) ==
    Rows({r \in InSector(sector) :
             /\ dashRow[r].rated
             /\ dashRow[r].ended \in IF hasHours THEN days ELSE days \ {"today"}}, tags)

\* Mutant: of a sector, those are scored who serve there.
ScoredServing(sector, tags, days) ==
    {a \in DashAgents : \/ a \in belongs /\ a \in ListedByQueue(sector)
                        \/ sector = NoOne /\ AgentClosed(a, sector, tags, days) # {}}

\* Of a sector, those who serve there or closed rooms in the period; a removed agent only
\* with rooms.
Scored(sector, tags, days) ==
    {a \in DashAgents :
        /\ a \in ListedByQueue(sector) \/ AgentClosed(a, sector, {}, days) # {}
        /\ a \in belongs \/ AgentClosed(a, sector, tags, days) # {}}

-----------------------------------------------------------------------------
(* A request that takes several queries. *)

\* What the query finds that a request is at.
Found(name, sector) ==
    [active |-> RawActive(sector), closed |-> RawClosed(sector, {"today"}),
     queued |-> RawQueued(sector), waiting |-> WaitingTimes(sector),
     saved |-> SavedResponses(sector), awaited |-> AwaitedResponses(sector),
     durations |-> Durations(sector)][name]

\* Mutant: those who wait for a response are asked before those who had one.
AwaitedFirst(name) ==
    [active |-> "closed", closed |-> "queued", queued |-> "told", waiting |-> "awaited",
     awaited |-> "saved", saved |-> "durations", durations |-> "told"][name]

\* The queries of RawDataService and of TimeMetricsService, in their order.
Following(name) ==
    [active |-> "closed", closed |-> "queued", queued |-> "told", waiting |-> "saved",
     saved |-> "awaited", awaited |-> "durations", durations |-> "told"][name]

\* raw_data takes the totals, get_time_metrics the times.
AskFigures(asks, sector) ==
    /\ answer = NoAnswer
    /\ answer' = [NoAnswer EXCEPT !.asks = asks, !.of = sector,
                                  !.next = IF asks = "totals" THEN "active" ELSE "waiting"]
    /\ seen' = [r \in DashRooms |-> {Standing(dashRow[r])}]
    /\ UNCHANGED dashRows

QueryNext ==
    /\ answer.next \in TotalNames \cup TimeNames
    /\ answer' = [answer EXCEPT !.told[answer.next] = Found(answer.next, answer.of),
                                !.next = Following(answer.next)]
    /\ UNCHANGED <<dashRows, seen>>

TellFigures ==
    /\ answer.next = "told"
    /\ answer' = NoAnswer
    /\ seen' = [r \in DashRooms |-> {}]
    /\ UNCHANGED dashRows

DashNext ==
    \/ RowsChange /\ Watched
    \/ \E asks \in {"totals", "times"}, sector \in DashSectors \cup {NoOne} :
          AskFigures(asks, sector)
    \/ QueryNext \/ TellFigures
DashSpec == DashInit /\ [][DashNext]_dashVars

-----------------------------------------------------------------------------
SectorFilters == DashSectors \cup {NoOne}
OneTag == {tags \in SUBSET DashTags : Cardinality(tags) <= 1}
SizeOver(S(_), agents) == Cardinality(UNION {{a} \X S(a) : a \in agents})

(***************************************************************************)
(* The totals and the agents tell one story: the rooms of the listed       *)
(* agents, removed ones included, are the active rooms, and the closed     *)
(* ones that had an agent; the totals leave out the rooms of queues that   *)
(* were deleted (api/v1/dashboard/repository.py).                          *)
(***************************************************************************)
TotalsMatchAgents ==
    \A sector \in SectorFilters :
        LET opened(a) == AgentOpened(a, sector, {}) \cap LiveQueues
            closed(a) == AgentClosed(a, sector, {}, {"today"}) \cap LiveQueues
            agents == ListedRemoved(sector, {"today"})
        IN  /\ SizeOver(opened, agents) = Cardinality(RawActive(sector))
            /\ SizeOver(closed, agents)
                 = Cardinality({r \in RawClosed(sector, {"today"}) : dashRow[r].agent # NoOne})

(***************************************************************************)
(* What is divided by sector or queue is what the general averages are of: *)
(* no room of a day is missing from the divisions of that day, and over    *)
(* the whole time they are the same rooms, each of them once.              *)
(***************************************************************************)
DivisionsMakeUpGeneral ==
    LET divided(days) == UNION {Division(q, days) : q \in DashQueues}
    IN  /\ GeneralRooms(NoOne, {"today"}) \subseteq divided({"today"})
        /\ GeneralRooms(NoOne, Period) = divided(Period)
        /\ \A sector \in DashSectors :
              GeneralRooms(sector, Period)
                  = UNION {Division(q, Period) : q \in {x \in DashQueues : SectorWith[x] = sector}}

(***************************************************************************)
(* Who was removed is listed in a sector for rooms there, and never among  *)
(* those who serve it: the authorizations go with the permission           *)
(* (projects/models/signals.py), or a list by queues alone would show her  *)
(* as one to hand rooms to.                                                *)
(***************************************************************************)
RemovedHaveRooms ==
    \A sector \in DashSectors :
        /\ ListedByQueue(sector) \subseteq belongs
        /\ \A a \in Listed(sector) \ belongs : Of(a) \cap InSector(sector) # {}

(***************************************************************************)
(* The scores of the agents make up that of the project or the sector:     *)
(* all reviews there are some agent's who is scored, though she was        *)
(* removed or moved to another sector, and each is counted under one       *)
(* rating, if the period has hours.                                        *)
(***************************************************************************)
ScoresAreOfAgents ==
    \A sector \in SectorFilters, tags \in OneTag, days \in {{"today"}, Period} :
        LET reviews(a) == AgentReviews(a, sector, tags, days)
            ofAgents == SizeOver(reviews, Scored(sector, tags, days))
        IN  /\ ofAgents = Cardinality(ScoredReviews(sector, tags, days))
            /\ ofAgents = Cardinality(RatingCounts(sector, tags, days, TRUE))

Shown(name) ==
    [active |-> {"held", "answered"}, closed |-> {"closed"}, queued |-> {"queued"},
     waiting |-> {"queued"}, saved |-> {"answered"}, awaited |-> {"held"},
     durations |-> {"held", "answered"}][name]

(***************************************************************************)
(* Figures that are told together were not asked at once.  What is told of *)
(* a room it was while they were asked.  No room is missing that stood     *)
(* still, nor one that was with an agent at first, were it closed          *)
(* meanwhile: a total misses only rooms that came, left the queue or saw   *)
(* midnight in between.  The times may miss who is answered in between,    *)
(* but never take a room both as answered and as waiting for it.           *)
(***************************************************************************)
FiguresTellOneStory ==
    answer.next = "told" =>
        \A r \in DashRooms :
            LET ToldIn(name) == r \in answer.told[name]
                StoodIn(standings) ==
                    r \in InSector(answer.of) \cap LiveQueues /\ seen[r] \subseteq standings
            IN  /\ \A name \in TotalNames \cup TimeNames :
                      ToldIn(name) => seen[r] \cap Shown(name) # {}
                /\ ~(ToldIn("saved") /\ ToldIn("awaited"))
                /\ answer.asks = "totals" =>
                      /\ StoodIn({"held", "answered", "closed"})
                             => ToldIn("active") \/ ToldIn("closed")
                      /\ StoodIn({"queued"}) => ToldIn("queued")
                /\ answer.asks = "times" =>
                      /\ StoodIn({"held", "answered"}) => ToldIn("durations")
                      /\ StoodIn({"answered"}) => ToldIn("saved")
                      /\ StoodIn({"held"}) => ToldIn("awaited")
                      /\ StoodIn({"queued"}) => ToldIn("waiting")

(***************************************************************************)
(* The answers of the dashboards fit together, those of one query at every *)
(* moment.                                                                 *)
(***************************************************************************)
DashboardHolds ==
    /\ TotalsMatchAgents /\ DivisionsMakeUpGeneral /\ RemovedHaveRooms
    /\ ScoresAreOfAgents /\ FiguresTellOneStory

-----------------------------------------------------------------------------
(***************************************************************************)
(* What is asked of the dashboard as a file: the custom report about rooms *)
(* (ReportFieldsValidatorViewSet), the list of rooms and the dashboard     *)
(* itself (the export actions of DashboardLiveViewset).  Each is a query   *)
(* over the rows above.  Of a request for a report, a set of names         *)
(* is empty when it is not given, and NoOne among them is "__all__".       *)
(***************************************************************************)
Unasked ==
    [open |-> FALSE, closed |-> FALSE, days |-> {}, sectors |-> {}, queues |-> {},
     agents |-> {}, tags |-> {}, fields |-> FALSE, listsTags |-> FALSE]

\* Mutant: what is named in the section stays.
AskedInSection(root, section) ==
    [section EXCEPT
        !.open = root.open, !.closed = root.closed,
        !.days = IF @ = {} THEN root.days ELSE @]

\* The choice of chats is taken from the root alone.  The dates of the section come
\* before those of the root, the names of the root before those of the section.
Asked(root, section) ==
    LET Over(named, default) == IF named = {} THEN default ELSE named
    IN  [open |-> root.open, closed |-> root.closed,
         days |-> Over(section.days, root.days),
         sectors |-> Over(root.sectors, section.sectors),
         queues |-> Over(root.queues, section.queues),
         agents |-> Over(root.agents, section.agents), tags |-> Over(root.tags, section.tags),
         fields |-> section.fields, listsTags |-> section.listsTags]

\* The filters of a request without a table for rooms go with the table.
TablesAsked(root, hasSection, section) ==
    IF hasSection THEN Asked(root, section) ELSE Unasked

\* One "__all__" among the names lifts the filter.
Named(names) == IF NoOne \in names THEN {} ELSE names
Passes(names, x) == Named(names) # {} => x \in Named(names)

\* The rooms of queues that were deleted are not reported.
Reportable == {r \in LiveQueues : ~Is(r, "unmade")}

\* Mutant: closed chats by their creation.
ByCreation(asked) ==
    IF asked.days = {} THEN DashRooms
    ELSE IF asked.open \/ ~asked.closed THEN MadeIn(asked.days)
    ELSE MadeIn(asked.days) \cap {r \in DashRooms : Is(r, "closed")}

\* "Open" chats are those made in the period, closed by now or not.
OfDates(asked) ==
    IF asked.days = {} THEN DashRooms
    ELSE IF asked.open THEN MadeIn(asked.days)
    ELSE IF asked.closed THEN EndedIn(asked.days)
    ELSE MadeIn(asked.days) \cup {r \in DashRooms : dashRow[r].ended \in asked.days}

OfEntities(asked) ==
    {r \in DashRooms :
        /\ Passes(asked.sectors, SectorWith[QueueIn[r]])
        /\ Passes(asked.queues, QueueIn[r])
        /\ Passes(asked.agents, dashRow[r].agent)}

\* Both choices at once are refused, by the count of the request and by the worker.
IsRefused(asked) == asked.open /\ asked.closed

Joined(asked) == Rows(Reportable \cap OfDates(asked) \cap OfEntities(asked), Named(asked.tags))

\* Aggregating the tags into a list groups the join by room.
Selected(asked) == IF asked.listsTags THEN RoomsIn(Joined(asked)) \X {NoOne} ELSE Joined(asked)

\* The rows the worker writes, one by one or not at all.
Reported(asked) == IF asked.fields /\ ~IsRefused(asked) THEN Selected(asked) ELSE {}

\* The request tells how long it takes by the rows it counts; what it could not count
\* it takes for all rooms.
Counted(asked) ==
    IF IsRefused(asked) THEN Cardinality(Reportable) ELSE Cardinality(Selected(asked))

\* Seconds between 30 and 600, told in minutes begun.
Estimate(count) ==
    LET seconds == 30 + (45 * count) \div 1000
    IN  IF seconds > 600 THEN 600 ELSE seconds
MinutesTold(count) == (Estimate(count) + 59) \div 60

\* get_export_data: the rooms made in a period, whatever became of their queue.
ExportedRows(agent, sector, tags, days) ==
    Rows({r \in DashRooms : ~Is(r, "unmade") /\ agent \in {NoOne, dashRow[r].agent}}
             \cap InSector(sector) \cap MadeIn(days),
         TagsOf(sector, tags))

\* The counts of the whole project or sector; with dates, "active" are the rooms made in
\* the period that were closed by an agent.
Totals(sector, dated, days) ==
    [active |-> IF dated
                THEN {r \in Transferred(sector, days) \cap HadAgent : Is(r, "closed")}
                ELSE RawActive(sector),
     queued |-> IF dated THEN RawQueued(sector) \cap MadeIn(days) ELSE RawQueued(sector),
     closed |-> RawClosed(sector, days), transferred |-> Transferred(sector, days)]

\* A line for each sector, or for each queue of the sector that is named.
Divisions(sector, days) ==
    IF sector = NoOne
    THEN [s \in DashSectors |-> UNION {Division(q, days) : q \in {x \in DashQueues : SectorWith[x] = s}}]
    ELSE [q \in {x \in DashQueues : SectorWith[x] = sector} |-> Division(q, days)]

\* A line for each agent, removed or not: live, or with dates.
AgentLines(sector, dated, days) ==
    [a \in DashAgents |->
        IF dated
        THEN [opened |-> DatedOpened(a, sector, days), closed |-> DatedClosed(a, sector, days)]
        ELSE [opened |-> LiveOpened(a, sector), closed |-> LiveClosed(a, sector)]]

\* The four tables of the dashboard, one under the other in one file.
DashboardFile(sector, dated, days) ==
    [averages |-> GeneralRooms(sector, days), totals |-> Totals(sector, dated, days),
     divisions |-> Divisions(sector, days), agents |-> AgentLines(sector, dated, days)]

-----------------------------------------------------------------------------
Ask(open, closed, days, sectors, tags) ==
    [open |-> open, closed |-> closed, days |-> days, sectors |-> sectors, queues |-> {},
     agents |-> {}, tags |-> tags, fields |-> TRUE, listsTags |-> FALSE]

(***************************************************************************)
(* The report has the rooms the dashboard counts: of closed chats those    *)
(* counted as closed in the period, of open chats those made in it, which  *)
(* the averages and the exported list are of; without a choice both, and   *)
(* without dates whatever is active, queued or ever closed.                *)
(***************************************************************************)
ReportsMatchDashboard ==
    \A sector \in SectorFilters, days \in {{"today"}, Period} :
        LET found(open, closed, of) == RoomsIn(Reported(Ask(open, closed, of, {sector}, {})))
            openChats == found(TRUE, FALSE, days)
            closedChats == RawClosed(sector, days)
        IN  /\ found(FALSE, TRUE, days) = closedChats
            /\ openChats = RoomsIn(ExportedRows(NoOne, sector, {}, days)) \cap LiveQueues
            /\ GeneralRooms(sector, days) = openChats \cap HadAgent
            /\ found(FALSE, FALSE, days) = openChats \cup closedChats
            /\ found(FALSE, FALSE, {})
                 = RawActive(sector) \cup RawQueued(sector) \cup RawClosed(sector, Period)

(***************************************************************************)
(* A report has each room once, however many of its tags are named, if it  *)
(* lists them; otherwise it has a row for each, and the report on several  *)
(* tags is what the reports on each of them have.  The request counted     *)
(* these rows, and told from one to ten minutes for them.                  *)
(***************************************************************************)
RowsAreTheTags ==
    \A tags \in SUBSET DashTags :
        LET on(named) == Ask(TRUE, FALSE, Period, {}, named)
            listing == [on(tags) EXCEPT !.listsTags = TRUE]
            rows == Reported(on(tags))
        IN  /\ Plain(Reported(listing)) /\ RoomsIn(Reported(listing)) = RoomsIn(rows)
            /\ Cardinality(tags) <= 1 => Plain(rows)
            /\ Counted(on(tags)) = Cardinality(rows)
            /\ MinutesTold(Counted(on(tags))) \in 1..10
            /\ tags # {} => rows = UNION {Reported(on({t})) : t \in tags}

(***************************************************************************)
(* What is asked at the root of a request is what is asked in its table.   *)
(***************************************************************************)
RootOrTable ==
    \A days \in {{}, {"today"}}, sectors \in {{}, {NoOne}, DashSectors} :
        LET asked == Ask(FALSE, TRUE, days, sectors, DashTags)
            choice == [Unasked EXCEPT !.closed = TRUE]
        IN  TablesAsked(asked, TRUE, [Unasked EXCEPT !.fields = TRUE])
              = TablesAsked(choice, TRUE, [asked EXCEPT !.closed = FALSE])

(***************************************************************************)
(* The tables of an exported dashboard are of the same rooms: the agents'  *)
(* open rooms are the active ones and those whose queue was deleted, what  *)
(* they closed is within the total, and the averages of a day are within   *)
(* its divisions.                                                          *)
(***************************************************************************)
TablesAreOfSameRooms ==
    \A sector \in SectorFilters :
        LET live == DashboardFile(sector, FALSE, {"today"})
            dated == DashboardFile(sector, TRUE, Period)
            opened(of) == LiveQueues \cap UNION {of.agents[a].opened : a \in DashAgents}
            closed(of) == LiveQueues \cap UNION {of.agents[a].closed : a \in DashAgents}
            divided(of) == UNION {of.divisions[d] : d \in DOMAIN of.divisions}
        IN  /\ opened(live) = live.totals.active
            /\ opened(dated) = dated.totals.active
            /\ closed(live) = live.totals.closed \cap HadAgent
            /\ closed(dated) = dated.totals.closed \cap HadAgent
            /\ live.averages \subseteq divided(live)
            /\ dated.averages = divided(dated)

(***************************************************************************)
(* Reports and exported files are of the rooms the dashboard is of.        *)
(***************************************************************************)
ReportsFit ==
    /\ ReportsMatchDashboard /\ RowsAreTheTags /\ RootOrTable /\ TablesAreOfSameRooms

-----------------------------------------------------------------------------
(***************************************************************************)
(* The rows of a report, page by page (_write_parts_from_queryset of       *)
(* chats/apps/dashboard/tasks.py).  Each page is a query of its own, by    *)
(* offset in the order of the keys, and rows come and go between two of    *)
(* them: a new room has a random key.  An attempt that dies is resumed     *)
(* after as many pages as there are part files.  A row is numbered by its  *)
(* key.                                                                    *)
(***************************************************************************)
CONSTANTS
    PageRows,     \* keys of the rows that may ever be asked for
    PageSize,     \* REPORTS_CHUNK_SIZE
    MaxMoves,     \* bound on rows that come or go while the report is written
    MaxResumes    \* bound on attempts that are cut

ASSUME ReportPagesAssumption ==
    /\ PageRows \subseteq Nat /\ IsFiniteSet(PageRows)
    /\ PageSize \in Nat \ {0}
    /\ MaxMoves \in Nat /\ MaxResumes \in Nat

VARIABLES
    matching,   \* the rows that the query finds now
    writer,     \* "idle", "writing" or "done"
    total,      \* total_rows, counted when the attempt began
    offset,     \* where the next page starts
    written,    \* the rows in all the part files there are: a multiple of PageSize
    copies,     \* how often each row was written
    atStart,     \* the rows that were found when the report was begun
    moved,      \* the rows that came or went since then
    resumes

pageVars == <<matching, writer, total, offset, written, copies, atStart, moved, resumes>>

ReportPagesTypeOK ==
    /\ matching \subseteq PageRows /\ atStart \subseteq PageRows /\ moved \subseteq PageRows
    /\ writer \in {"idle", "writing", "done"}
    /\ total \in Nat /\ offset \in Nat /\ written \in Nat
    /\ copies \in [PageRows -> Nat]
    /\ resumes \in 0..MaxResumes

ReportPagesInit ==
    /\ matching \in SUBSET PageRows
    /\ writer = "idle" /\ total = 0 /\ offset = 0 /\ written = 0
    /\ copies = [x \in PageRows |-> 0]
    /\ atStart = {} /\ moved = {} /\ resumes = 0

Before(rows, x) == Cardinality({y \in rows : y < x})

\* Mutant: the last row of a page is read again with the next.
PageAndOne(rows, start, end) ==
    {x \in rows : start <= Before(rows, x) /\ Before(rows, x) <= end}

\* queryset[start:end], ordered by the key.
Page(rows, start, end) ==
    {x \in rows : start <= Before(rows, x) /\ Before(rows, x) < end}

PageEnd == IF offset + PageSize < total THEN offset + PageSize ELSE total

BeginPages ==
    /\ writer = "idle"
    /\ atStart' = matching /\ total' = Cardinality(matching)
    /\ writer' = IF matching = {} THEN "done" ELSE "writing"
    /\ UNCHANGED <<matching, offset, written, copies, moved, resumes>>

\* A page that is empty leaves no part, and the next one is read all the same.
WritePage ==
    LET page == Page(matching, offset, PageEnd)
    IN  /\ writer = "writing" /\ offset < total
        /\ copies' = [x \in PageRows |-> copies[x] + (IF x \in page THEN 1 ELSE 0)]
        /\ written' = IF page = {} THEN written ELSE written + PageSize
        /\ offset' = offset + PageSize
        /\ UNCHANGED <<matching, writer, total, atStart, moved, resumes>>

EndPages ==
    /\ writer = "writing" /\ offset >= total
    /\ writer' = "done"
    /\ UNCHANGED <<matching, total, offset, written, copies, atStart, moved, resumes>>

\* Mutant: the attempt is taken up where it was cut, and counts a part too many.
ResumeAfterNext ==
    /\ writer = "writing" /\ resumes < MaxResumes
    /\ resumes' = resumes + 1
    /\ offset' = written + PageSize /\ total' = Cardinality(matching)
    /\ writer' = IF matching = {} THEN "done" ELSE "writing"
    /\ UNCHANGED <<matching, written, copies, atStart, moved>>

\* The attempt is cut, and the next one counts the rows and the parts again.
ResumePages ==
    /\ writer = "writing" /\ resumes < MaxResumes
    /\ resumes' = resumes + 1
    /\ offset' = written /\ total' = Cardinality(matching)
    /\ writer' = IF matching = {} THEN "done" ELSE "writing"
    /\ UNCHANGED <<matching, written, copies, atStart, moved>>

Moves(x) ==
    /\ writer = "writing" /\ Cardinality(moved \cup {x}) <= MaxMoves
    /\ moved' = moved \cup {x}
    /\ UNCHANGED <<writer, total, offset, written, copies, atStart, resumes>>

RowComes(x) == x \notin matching /\ matching' = matching \cup {x} /\ Moves(x)

RowGoes(x) == x \in matching /\ matching' = matching \ {x} /\ Moves(x)

\* The report is sent and the next one begins with nothing written.
NextReport ==
    /\ writer = "done"
    /\ matching' \in SUBSET PageRows
    /\ writer' = "idle" /\ total' = 0 /\ offset' = 0 /\ written' = 0
    /\ copies' = [x \in PageRows |-> 0]
    /\ atStart' = {} /\ moved' = {} /\ resumes' = 0

ReportPagesNext ==
    \/ BeginPages \/ WritePage \/ EndPages \/ ResumePages \/ NextReport
    \/ \E x \in PageRows : RowComes(x) \/ RowGoes(x)

ReportPagesSpec == ReportPagesInit /\ [][ReportPagesNext]_pageVars

-----------------------------------------------------------------------------
\* Rows that nothing has shifted: neither they nor any before them came or went.
Settled == {x \in atStart : \A y \in moved : x < y}

(***************************************************************************)
(* A row is in the report once, however its attempts were cut, as long as  *)
(* no row with a smaller key came or went while the report was written     *)
(* (offsets shift with them, and so may its page).  Nothing else gets in   *)
(* unless it came meanwhile.                                               *)
(***************************************************************************)
SettledRowsOnce == writer = "done" => \A x \in Settled : copies[x] = 1
OnlyWhatWasFound == \A x \in PageRows : copies[x] > 0 => x \in atStart \cup moved

(***************************************************************************)
(* The pages of a report make up what was asked for.                       *)
(***************************************************************************)
ReportPagesHold == SettledRowsOnce /\ OnlyWhatWasFound
=============================================================================
