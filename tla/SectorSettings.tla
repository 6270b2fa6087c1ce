---------------------------- MODULE SectorSettings ----------------------------
(***************************************************************************)
(* What managers set of a sector, and below what its working hours and     *)
(* holidays say of a moment.                                               *)
(*                                                                         *)
(* The settings of a sector, its tags and its official holidays, under     *)
(* requests that overlap (api/v1/sectors).  An update reads the sector,    *)
(* validates what it changes against that copy, saves the WHOLE row, and   *)
(* saves its config once more; deleting the last tag ends the requirement  *)
(* of tags, an update that takes it away does not; a request for holidays  *)
(* goes from date to date without a transaction.                           *)
(***************************************************************************)
EXTENDS FiniteSets, Sequences, SequencesExt, Integers

CONSTANTS
    Editors,        \* request threads
    SectorTags,
    ConfigKeys,
    Dates,
    Limits,         \* values of rooms_limit
    MaxEdits        \* bound on the requests

ASSUME SettingsAssumption ==
    /\ IsFiniteSet(SectorTags) /\ IsFiniteSet(Dates)
    /\ Limits \subseteq Nat /\ Limits # {} /\ MaxEdits \in Nat

VARIABLES
    setting,     \* the row of the sector
    liveTags,    \* its tags that are not deleted
    holidayOn,   \* the holiday of a date that is not deleted
    edit,        \* what each thread is doing, with the copy it read
    edits,
    agreed,      \* history: the row if every request were applied to the last one
    interleaved, \* history: two requests interleaved
    unoffered,   \* history: the limit rose and no routing pass was requested
    tagTaken     \* history: a PATCH took the last tag away

settingHistory == <<agreed, interleaved, unoffered, tagTaken>>
settingVars == <<setting, liveTags, holidayOn, edit, edits, settingHistory>>

Setting ==
    [required: BOOLEAN, queueOn: BOOLEAN, queueText: {"", "text"},
     warn: BOOLEAN, close: BOOLEAN, keys: SUBSET ConfigKeys, limit: Limits]

\* A patch has the fields the request gives; "text" may be left out.
Patches ==
    [field: {"required"}, on: BOOLEAN]
        \cup [field: {"queue"}, on: BOOLEAN, text: {"", "text", "left out"}]
        \cup [field: {"inactivity"}, warn: BOOLEAN, close: BOOLEAN]
        \cup [field: {"config"}, key: ConfigKeys]
        \cup [field: {"limit"}, to: Limits]
Holiday == {"none", "closed", "custom_hours"}

NoEdit == [at |-> "idle"]
Edits ==
    {NoEdit}
        \cup [at: {"save", "config"}, row: Setting, patch: Patches]
        \cup [at: {"drop", "dropped"}, tag: SectorTags, required: BOOLEAN]
        \cup [at: {"holidays", "create"}, left: Seq(Dates), closed: SUBSET Dates, import: BOOLEAN]

SettingsTypeOK ==
    /\ setting \in Setting /\ agreed \in Setting
    /\ liveTags \subseteq SectorTags
    /\ holidayOn \in [Dates -> Holiday]
    /\ edit \in [Editors -> Edits]
    /\ edits \in 0..MaxEdits
    /\ {interleaved, unoffered, tagTaken} \subseteq BOOLEAN

SettingsInit ==
    /\ setting \in {s \in Setting : ~s.required /\ ~s.queueOn /\ ~s.warn /\ ~s.close /\ s.keys = {}}
    /\ agreed = setting
    /\ liveTags \in SUBSET SectorTags
    /\ holidayOn \in [Dates -> {"none", "custom_hours"}]
    /\ edit = [e \in Editors |-> NoEdit]
    /\ edits = 0 /\ interleaved = FALSE /\ unoffered = FALSE /\ tagTaken = FALSE

-----------------------------------------------------------------------------
NobodyEdits == \A e \in Editors : edit[e] = NoEdit

BeginEdit(e, work) ==
    /\ edit[e] = NoEdit /\ edits < MaxEdits
    /\ edits' = edits + 1
    /\ interleaved' = (interleaved \/ ~NobodyEdits)
    /\ edit' = [edit EXCEPT ![e] = work]

GoEdit(e, work) == edit' = [edit EXCEPT ![e] = work] /\ UNCHANGED <<edits, interleaved>>

\* The text that is left out is the one of the copy.
TextOf(row, patch) == IF patch.text = "left out" THEN row.queueText ELSE patch.text

\* Mutant: a message that is switched on brings its text or has none.
AcceptsAny(row, patch) == patch.field = "required" /\ patch.on => liveTags # {}

\* The validations of SectorUpdateSerializer.
Accepts(row, patch) ==
    CASE patch.field = "required" -> patch.on => liveTags # {}
      [] patch.field = "queue" -> patch.on => TextOf(row, patch) # ""
      [] patch.field = "inactivity" -> patch.close => patch.warn
      [] OTHER -> TRUE

\* What the serializer's update saves at first; the config follows.
Patched(row, patch) ==
    CASE patch.field = "required" -> [row EXCEPT !.required = patch.on]
      [] patch.field = "queue" ->
            [row EXCEPT !.queueOn = patch.on, !.queueText = TextOf(row, patch)]
      [] patch.field = "inactivity" -> [row EXCEPT !.warn = patch.warn, !.close = patch.close]
      [] patch.field = "limit" -> [row EXCEPT !.limit = patch.to]
      [] OTHER -> row
WithConfig(row, patch) ==
    IF patch.field = "config" THEN [row EXCEPT !.keys = @ \cup {patch.key}] ELSE row

BeginUpdate(e, patch) ==
    /\ Accepts(setting, patch)
    /\ BeginEdit(e, [at |-> "save", row |-> setting, patch |-> patch])
    /\ UNCHANGED <<setting, liveTags, tagTaken, holidayOn, agreed, unoffered>>

\* The pass over the queues is requested when the limit is above the copy's.
SaveSector(e) ==
    /\ edit[e].at = "save"
    /\ LET new == Patched(edit[e].row, edit[e].patch)
       IN  /\ setting' = new
           /\ agreed' = WithConfig(Patched(agreed, edit[e].patch), edit[e].patch)
           /\ unoffered' = (unoffered \/ (/\ new.limit > setting.limit
                                          /\ new.limit <= edit[e].row.limit))
           /\ GoEdit(e, IF edit[e].patch.field = "config"
                        THEN [edit[e] EXCEPT !.at = "config", !.row = new] ELSE NoEdit)
    /\ UNCHANGED <<liveTags, tagTaken, holidayOn>>

\* sector.config.update(config); save(update_fields=["config"])
SaveConfig(e) ==
    /\ edit[e].at = "config"
    /\ setting' = [setting EXCEPT !.keys = WithConfig(edit[e].row, edit[e].patch).keys]
    /\ GoEdit(e, NoEdit)
    /\ UNCHANGED <<liveTags, tagTaken, holidayOn, agreed, unoffered>>

-----------------------------------------------------------------------------
(* Tags. *)

CreateTag(e, tag) ==
    /\ tag \notin liveTags
    /\ BeginEdit(e, NoEdit)
    /\ liveTags' = liveTags \cup {tag}
    /\ tagTaken' = FALSE
    /\ UNCHANGED <<setting, holidayOn, agreed, unoffered>>

\* A PATCH gives the tag another name and sector, or says is_deleted: its fields are
\* all writable, and nothing looks at what the sector is left with.
TakeTag(e, tag) ==
    /\ tag \in liveTags
    /\ BeginEdit(e, NoEdit)
    /\ liveTags' = liveTags \ {tag}
    /\ tagTaken' = (liveTags' = {})
    /\ UNCHANGED <<setting, holidayOn, agreed, unoffered>>

\* The permission check has the tag's sector read and kept.
BeginDeleteTag(e, tag) ==
    /\ tag \in liveTags
    /\ BeginEdit(e, [at |-> "drop", tag |-> tag, required |-> setting.required])
    /\ UNCHANGED <<setting, liveTags, tagTaken, holidayOn, agreed, unoffered>>

DeleteTag(e) ==
    /\ edit[e].at = "drop"
    /\ liveTags' = liveTags \ {edit[e].tag}
    /\ GoEdit(e, [edit[e] EXCEPT !.at = "dropped"])
    /\ UNCHANGED <<setting, holidayOn, agreed, unoffered, tagTaken>>

\* Mutant: tags stay required when none is left.
KeepRequired(e) ==
    /\ edit[e].at = "dropped"
    /\ GoEdit(e, NoEdit)
    /\ UNCHANGED <<setting, liveTags, tagTaken, holidayOn, agreed, unoffered>>

\* _disable_required_tags, on commit.
DisableRequired(e) ==
    /\ edit[e].at = "dropped"
    /\ IF edit[e].required /\ liveTags = {}
       THEN /\ setting' = [setting EXCEPT !.required = FALSE]
            /\ agreed' = [agreed EXCEPT !.required = FALSE]
       ELSE UNCHANGED <<setting, agreed>>
    /\ GoEdit(e, NoEdit)
    /\ UNCHANGED <<liveTags, tagTaken, holidayOn, unoffered>>

-----------------------------------------------------------------------------
(* Official holidays, date after date: PATCH closes them, POST imports them. *)

BeginHolidays(e, dates, import) ==
    /\ BeginEdit(e, [at |-> "holidays", left |-> dates, closed |-> {}, import |-> import])
    /\ UNCHANGED <<setting, liveTags, tagTaken, holidayOn, agreed, unoffered>>

\* Mutant: a date that has a holiday counts as closed.
TakenForClosed(work) ==
    IF holidayOn[Head(work.left)] # "none"
    THEN [work EXCEPT !.left = Tail(@), !.closed = @ \cup {Head(work.left)}]
    ELSE [work EXCEPT !.at = "create"]

\* An import skips a date that has a holiday; PATCH closes it, unless it has hours of its
\* own: it keeps them, the table's check refuses it, and the request ends there.
Looked(work) ==
    CASE holidayOn[Head(work.left)] = "none" -> [work EXCEPT !.at = "create"]
      [] holidayOn[Head(work.left)] = "closed" ->
            [work EXCEPT !.left = Tail(@), !.closed = @ \cup {Head(work.left)}]
      [] OTHER -> IF work.import THEN [work EXCEPT !.left = Tail(@)] ELSE NoEdit

EnableHoliday(e) ==
    /\ edit[e].at = "holidays" /\ edit[e].left # <<>>
    /\ GoEdit(e, Looked(edit[e]))
    /\ UNCHANGED <<setting, liveTags, tagTaken, holidayOn, agreed, unoffered>>

\* The unique constraint refuses what another request inserted meanwhile; an import
\* notes the error and goes on.
CreateHoliday(e) ==
    /\ edit[e].at = "create"
    /\ LET date == Head(edit[e].left)
           next == [edit[e] EXCEPT !.at = "holidays", !.left = Tail(@)]
       IN  \/ /\ holidayOn[date] = "none"
              /\ holidayOn' = [holidayOn EXCEPT ![date] = "closed"]
              /\ GoEdit(e, [next EXCEPT !.closed = @ \cup {date}])
           \/ /\ holidayOn[date] # "none"
              /\ GoEdit(e, IF edit[e].import THEN next ELSE NoEdit) /\ UNCHANGED holidayOn
    /\ UNCHANGED <<setting, liveTags, tagTaken, agreed, unoffered>>

EndHolidays(e) ==
    /\ edit[e].at = "holidays" /\ edit[e].left = <<>>
    /\ GoEdit(e, NoEdit)
    /\ UNCHANGED <<setting, liveTags, tagTaken, holidayOn, agreed, unoffered>>

DisableHoliday(e, date) ==
    /\ holidayOn[date] # "none"
    /\ BeginEdit(e, NoEdit)
    /\ holidayOn' = [holidayOn EXCEPT ![date] = "none"]
    /\ UNCHANGED <<setting, liveTags, tagTaken, agreed, unoffered>>

SettingsNext ==
    \E e \in Editors :
        \/ \E patch \in Patches : BeginUpdate(e, patch)
        \/ SaveSector(e) \/ SaveConfig(e)
        \/ \E tag \in SectorTags : CreateTag(e, tag) \/ TakeTag(e, tag) \/ BeginDeleteTag(e, tag)
        \/ DeleteTag(e) \/ DisableRequired(e)
        \/ \E dates \in SetToSeqs(Dates), import \in BOOLEAN : BeginHolidays(e, dates, import)
        \/ EnableHoliday(e) \/ CreateHoliday(e) \/ EndHolidays(e)
        \/ \E date \in Dates : DisableHoliday(e, date)
SettingsSpec == SettingsInit /\ [][SettingsNext]_settingVars

-----------------------------------------------------------------------------
(***************************************************************************)
(* However updates overlap, a sector never closes rooms it does not warn,  *)
(* and a message for the queue that is on has a text: what belongs         *)
(* together is validated and saved together.                               *)
(***************************************************************************)
SettingsStayValid ==
    /\ setting.close => setting.warn
    /\ setting.queueOn => setting.queueText # ""

(***************************************************************************)
(* Requests that do not overlap leave what they asked for: no setting is   *)
(* put back by a later save of the row, tags are required only while there *)
(* are tags to choose from or after a PATCH took the last one, and a limit *)
(* that rises has the waiting rooms offered again.                         *)
(***************************************************************************)
SettingsAreKept ==
    ~interleaved =>
        /\ NobodyEdits => setting = agreed
        /\ NobodyEdits /\ setting.required => liveTags # {} \/ tagTaken
        /\ ~unoffered

(***************************************************************************)
(* A request for holidays has closed the dates it went through, and no     *)
(* others: a date with hours of its own keeps them, whether the request    *)
(* goes on (an import) or breaks off there.                                *)
(***************************************************************************)
HolidaysAreClosed ==
    \A e \in Editors :
        ~interleaved /\ edit[e].at \in {"holidays", "create"} =>
            \A d \in edit[e].closed : holidayOn[d] = "closed"

(***************************************************************************)
(* The settings of a sector.                                               *)
(***************************************************************************)
SettingsHold == SettingsStayValid /\ SettingsAreKept /\ HolidaysAreClosed

-----------------------------------------------------------------------------
(***************************************************************************)
(* May a room be created now?  The validator of a sector's working hours   *)
(* (chats/apps/sectors/utils.py) looks at the closed weekdays, the holiday *)
(* of the day, the static holidays and the schedule.  The holiday comes    *)
(* from a table that managers edit (chats/apps/api/v1/sectors/viewsets.py) *)
(* through a cache with an entry for each day, empty entries included,     *)
(* that every save of a holiday invalidates.                               *)
(***************************************************************************)
CONSTANTS
    Contacts,          \* requests that create a room, one at a time each
    LastDay,           \* the days are 1..LastDay
    LastTime,          \* the times of a day are 1..LastTime
    MaxHolidaySaves    \* bound on the edits of the holiday

ASSUME HoursAssumption ==
    LastDay \in Nat \ {0} /\ LastTime \in Nat \ {0, 1} /\ MaxHolidaySaves \in Nat

Days == 1..LastDay
Times == 1..LastTime
Intervals == {i \in Times \X Times : i[1] <= i[2]}

\* An interval of no time stands for a day that is closed.
Closed == <<1, 0>>
\* No holiday and, in a schedule, no entry for the day.
None == <<0, 0>>

VARIABLES
    config,       \* working_hours of the sector
    holiday,      \* the holiday row: its days, its hours, and is_deleted
    cached,       \* the cached holiday of each day, {} without an entry
    editing,      \* has the manager saved, and not yet invalidated?
    holidaySaves,
    asksAt,       \* the day and time each contact asks for
    checking,     \* where its request is
    found,        \* the holiday that was found for it
    missed,       \* days of an edit that were not invalidated
    refilled      \* days whose entry was set after the table had changed

contactVars == <<asksAt, checking, found>>
hoursVars == <<config, holiday, cached, editing, holidaySaves, contactVars, missed, refilled>>

Hours == Intervals \cup {Closed}

\* Some sectors: which days are closed, static holidays and schedules.
Configs ==
    [closedDays : {{}}, static : {None},
     schedule : {{None}, {<<1, 1>>, <<LastTime, LastTime>>}}]
    \cup
    [closedDays : {{LastDay}}, static : {Closed, <<2, LastTime>>}, schedule : {{<<1, 2>>}}]

\* Holiday rows: the first day or all of them, closed or with hours of its own.
HolidayRows ==
    [days : {{1}, Days}, hours : {Closed, <<2, 2>>}, deleted : BOOLEAN]
NoRow == [days |-> {}, hours |-> Closed, deleted |-> TRUE]

HoursTypeOK ==
    /\ config \in Configs
    /\ holiday \in HolidayRows \cup {NoRow}
    /\ cached \in [Days -> {{}} \cup {{h} : h \in Hours \cup {None}}]
    /\ editing \in BOOLEAN
    /\ holidaySaves \in 0..MaxHolidaySaves
    /\ asksAt \in [Contacts -> Days \X Times]
    /\ checking \in [Contacts -> {"idle", "missed", "queried", "decide", "admitted", "refused"}]
    /\ found \in [Contacts -> Hours \cup {None}]
    /\ \A c \in Contacts :
          checking[c] \in {"queried", "decide"} => asksAt[c][1] \notin config.closedDays
    /\ missed \subseteq Days /\ refilled \subseteq Days

HoursInit ==
    /\ config \in Configs
    /\ holiday = NoRow
    /\ cached = [d \in Days |-> {}]
    /\ editing = FALSE
    /\ holidaySaves = 0
    /\ asksAt = [c \in Contacts |-> <<1, 1>>]
    /\ checking = [c \in Contacts |-> "idle"]
    /\ found = [c \in Contacts |-> None]
    /\ missed = {} /\ refilled = {}

-----------------------------------------------------------------------------
\* The holiday of a day in the table.
HolidayOf(d) ==
    IF d \in holiday.days /\ ~holiday.deleted THEN holiday.hours ELSE None

\* SectorHoliday.save of a row that is created, changed or moved; days the row
\* leaves are not invalidated.
SaveHoliday ==
    /\ ~editing
    /\ holidaySaves < MaxHolidaySaves
    /\ holidaySaves' = holidaySaves + 1
    /\ holiday' \in {row \in HolidayRows : ~row.deleted} \ {holiday}
    /\ editing' = TRUE
    /\ missed' = missed \cup {d \in Days : HolidayOf(d) # None /\ d \notin holiday'.days}
    /\ UNCHANGED <<config, cached, contactVars, refilled>>

\* destroy and _disable_holiday mark the row; it keeps its days.
DeleteHoliday ==
    /\ ~editing
    /\ ~holiday.deleted
    /\ holiday' = [holiday EXCEPT !.deleted = TRUE]
    /\ editing' = TRUE
    /\ UNCHANGED <<config, cached, holidaySaves, contactVars, missed, refilled>>

\* Mutant: only the first day of the holiday is invalidated.
InvalidateFirst ==
    /\ editing
    /\ editing' = FALSE
    /\ \E d \in holiday.days :
          /\ \A e \in holiday.days : d <= e
          /\ cached' = [cached EXCEPT ![d] = {}]
    /\ UNCHANGED <<config, holiday, holidaySaves, contactVars, missed, refilled>>

Invalidate ==
    /\ editing
    /\ editing' = FALSE
    /\ cached' = [d \in Days |-> IF d \in holiday.days THEN {} ELSE cached[d]]
    /\ missed' = missed \ holiday.days
    /\ UNCHANGED <<config, holiday, holidaySaves, contactVars, refilled>>

\* An error of the cache is ignored.
FailInvalidate ==
    /\ editing
    /\ editing' = FALSE
    /\ missed' = missed \cup holiday.days
    /\ UNCHANGED <<config, holiday, cached, holidaySaves, contactVars, refilled>>

\* Five minutes pass: the entry expires.
ExpireEntry(d) ==
    /\ cached[d] # {}
    /\ cached' = [cached EXCEPT ![d] = {}]
    /\ missed' = missed \ {d} /\ refilled' = refilled \ {d}
    /\ UNCHANGED <<config, holiday, editing, holidaySaves, contactVars>>

-----------------------------------------------------------------------------
Checks(c, from, to) ==
    /\ checking[c] = from
    /\ checking' = [checking EXCEPT ![c] = to]
    /\ UNCHANGED <<config, holiday, editing, holidaySaves, missed>>

\* The time matters for nothing before the decision, and is left to it.
Ask(c) ==
    /\ Checks(c, "idle", "missed")
    /\ \E d \in Days : asksAt' = [asksAt EXCEPT ![c] = <<d, 1>>]
    /\ UNCHANGED <<cached, refilled, found>>

\* A closed weekday is refused before any holiday is looked for.
RefuseWeekday(c) ==
    /\ Checks(c, "missed", "refused")
    /\ asksAt[c][1] \in config.closedDays
    /\ UNCHANGED <<cached, refilled, asksAt, found>>

\* _get_cached_holiday
HitCache(c) ==
    /\ Checks(c, "missed", "decide")
    /\ asksAt[c][1] \notin config.closedDays
    /\ \E h \in cached[asksAt[c][1]] : found' = [found EXCEPT ![c] = h]
    /\ UNCHANGED <<cached, refilled, asksAt>>

QueryHoliday(c) ==
    /\ Checks(c, "missed", "queried")
    /\ asksAt[c][1] \notin config.closedDays
    /\ cached[asksAt[c][1]] = {}
    /\ found' = [found EXCEPT ![c] = HolidayOf(asksAt[c][1])]
    /\ UNCHANGED <<cached, refilled, asksAt>>

FillCache(c) ==
    LET d == asksAt[c][1]
    IN  /\ Checks(c, "queried", "decide")
        /\ cached' = [cached EXCEPT ![d] = {found[c]}]
        /\ refilled' = IF found[c] # HolidayOf(d) THEN refilled \cup {d} ELSE refilled
        /\ UNCHANGED <<asksAt, found>>

\* start <= current_time <= end
Within(t, hours) == hours[1] <= t /\ t <= hours[2]

\* _validate_day_schedules_generic: a day is a list of intervals, or missing.
ScheduleAllows(t) ==
    config.schedule # {None} /\ \E hours \in config.schedule : Within(t, hours)

\* Mutant: the hours of a static holiday replace the schedule.
StaticOnly(t) ==
    IF config.static = None THEN ScheduleAllows(t)
    ELSE config.static # Closed /\ Within(t, config.static)

\* _check_static_holidays_fast raises or returns, and the schedule follows.
StaticAllows(t) ==
    /\ config.static # None => config.static # Closed /\ Within(t, config.static)
    /\ ScheduleAllows(t)

\* The holiday of the table decides alone; without one the static holidays do.
Allows(h, t) == IF h # None THEN h # Closed /\ Within(t, h) ELSE StaticAllows(t)

Decide(c) ==
    \E t \in Times :
        /\ asksAt' = [asksAt EXCEPT ![c] = <<@[1], t>>]
        /\ Checks(c, "decide", IF Allows(found[c], t) THEN "admitted" ELSE "refused")
        /\ UNCHANGED <<cached, refilled, found>>

\* The request is answered; the same contact may ask again.
Answer(c) ==
    /\ \E outcome \in {"admitted", "refused"} : Checks(c, outcome, "idle")
    /\ asksAt' = [asksAt EXCEPT ![c] = <<1, 1>>]
    /\ found' = [found EXCEPT ![c] = None]
    /\ UNCHANGED <<cached, refilled>>

CheckStep(c) ==
    \/ RefuseWeekday(c) \/ HitCache(c) \/ QueryHoliday(c) \/ FillCache(c)
    \/ Decide(c) \/ Answer(c)

HoursNext ==
    \/ SaveHoliday \/ DeleteHoliday \/ Invalidate \/ FailInvalidate
    \/ \E d \in Days : ExpireEntry(d)
    \/ \E c \in Contacts : Ask(c) \/ CheckStep(c)

HoursSpec == HoursInit /\ [][HoursNext]_hoursVars

-----------------------------------------------------------------------------
(***************************************************************************)
(* The cache agrees with the table of holidays (_invalidate_cache), but    *)
(* for an edit that has not come to its invalidation, for the days a       *)
(* holiday was moved away from, which are never invalidated, for an error  *)
(* of the cache, and for a request that read the table before an edit and  *)
(* set the entry after it.                                                 *)
(***************************************************************************)
HolidayFresh ==
    \A d \in Days : cached[d] \in {{}, {HolidayOf(d)}} \/ editing \/ d \in missed \cup refilled

\* The reference: the times a sector is open on a day, as a set.
OpenTimes(d, h) ==
    LET scheduled == UNION {hours[1]..hours[2] : hours \in config.schedule \ {None}}
        allDay == IF config.static = None THEN Times ELSE config.static[1]..config.static[2]
    IN  IF d \in config.closedDays THEN {}
        ELSE IF h # None THEN h[1]..h[2] ELSE scheduled \cap allDay

(***************************************************************************)
(* A room is admitted just when the sector is open at that time, given the *)
(* holiday that was found: a holiday replaces the schedule, and the hours  *)
(* of a static holiday narrow it.                                          *)
(***************************************************************************)
AdmittedWhenOpen ==
    \A c \in Contacts :
        checking[c] \in {"admitted", "refused"} =>
            (checking[c] = "admitted" <=> asksAt[c][2] \in OpenTimes(asksAt[c][1], found[c]))

(***************************************************************************)
(* The validator decides right, on a holiday that is not out of date       *)
(* (validate_working_hours and its cache).                                 *)
(***************************************************************************)
HoursHold == HolidayFresh /\ AdmittedWhenOpen
=============================================================================
