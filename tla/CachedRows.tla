------------------------------ MODULE CachedRows ------------------------------
(***************************************************************************)
(* Two rows that Redis keeps copies of: a user, and below the projects of  *)
(* an organisation.  They share no state.                                  *)
(*                                                                         *)
(* The row of one user, by e-mail address, and the two keys that Redis     *)
(* keeps of it: a copy of the user, which logins take instead of the row,  *)
(* and the id, which lookups by address take (core/cache_utils.py,         *)
(* accounts).  A request reads, fills a key, saves and invalidates in      *)
(* separate steps, and a save writes the whole row as it was read.  The    *)
(* address itself never changes, and Redis answers.                        *)
(***************************************************************************)
EXTENDS Naturals

CONSTANTS
    UserRequests,
    FirstNames,
    Languages,
    NotSet,        \* no name and no language yet
    NoUser,       \* no row, and the mark "-1" in a key
    NotCached,
    MaxUserIds    \* bound on the rows that are inserted

ASSUME UserCacheAssumption ==
    /\ MaxUserIds \in Nat
    /\ NotSet \notin FirstNames \cup Languages
    /\ NoUser # NotCached
    /\ {NoUser, NotCached} \cap Nat = {}
    /\ {NoUser, NotCached} \cap
         [id: Nat, name: FirstNames \cup {NotSet}, language: Languages \cup {NotSet},
          joined: BOOLEAN] = {}

VARIABLES
    userRow,      \* accounts_user
    objectKey,    \* user:object:<email>
    idKey,        \* user:email:<email>
    userAt,       \* where each request is
    errand,       \* what each request is for
    inMemory,     \* the user each request holds
    toForget,     \* invalidations that each request still has to make
    lastUserId,
    meant,        \* history: the name and the language that were last asked for
    userRaced,   \* history: a commit came between a read and what was done with it
    removed,      \* history: the user was deleted
    renamed       \* history: a login has saved another name

userCacheVars ==
    <<userRow, objectKey, idKey, userAt, errand, inMemory, toForget, lastUserId, meant,
      userRaced, removed, renamed>>
userRequestVars == <<userAt, errand, inMemory, toForget>>
userHistory == <<meant, userRaced, removed, renamed>>

\* joined: the password and the date are those of the row, which the key leaves out.
User ==
    [id: 1..MaxUserIds, name: FirstNames \cup {NotSet}, language: Languages \cup {NotSet},
     joined: BOOLEAN]

Errands ==
    [is: {"login", "register"}, name: FirstNames] \cup [is: {"language"}, language: Languages]
        \cup [is: {"lookup", "none"}]
NoErrand == [is |-> "none"]

UserPlaces ==
    {"idle", "key", "query", "fill", "compare", "get", "write", "forget", "forgetId",
     "validate", "ask", "keep"}

UserCacheTypeOK ==
    /\ userRow \in User \cup {NoUser}
    /\ objectKey \in User \cup {NoUser, NotCached}
    /\ idKey \in 1..MaxUserIds \cup {NoUser, NotCached}
    /\ userAt \in [UserRequests -> UserPlaces]
    /\ errand \in [UserRequests -> Errands]
    /\ inMemory \in [UserRequests -> User \cup {NoUser}]
    /\ \A q \in UserRequests : userAt[q] \in {"compare", "write"} => inMemory[q] # NoUser
    /\ toForget \in [UserRequests -> 0..2]
    /\ lastUserId \in 0..MaxUserIds
    /\ meant \in [name: FirstNames \cup {NotSet}, language: Languages \cup {NotSet}]
    /\ {userRaced, removed, renamed} \subseteq BOOLEAN

UserCacheInit ==
    /\ userRow = NoUser /\ objectKey = NotCached /\ idKey = NotCached
    /\ userAt = [q \in UserRequests |-> "idle"]
    /\ errand = [q \in UserRequests |-> NoErrand]
    /\ inMemory = [q \in UserRequests |-> NoUser]
    /\ toForget = [q \in UserRequests |-> 0]
    /\ lastUserId = 0
    /\ meant = [name |-> NotSet, language |-> NotSet]
    /\ userRaced = FALSE /\ removed = FALSE /\ renamed = FALSE

-----------------------------------------------------------------------------
GoUser(q, place) == userAt' = [userAt EXCEPT ![q] = place]
HoldUser(q, user) == inMemory' = [inMemory EXCEPT ![q] = user]

UserRequestDone(q) ==
    /\ GoUser(q, "idle") /\ HoldUser(q, NoUser)
    /\ errand' = [errand EXCEPT ![q] = NoErrand]
    /\ toForget' = [toForget EXCEPT ![q] = 0]

\* Others have read what a commit of q changes, and act on it later.
HeldByOthers(q) ==
    \E o \in UserRequests \ {q} : userAt[o] \in {"fill", "compare", "write", "keep"}

\* A commit has not been followed by its invalidation yet.
ForgettingByOthers(q) == \E o \in UserRequests \ {q} : userAt[o] \in {"forget", "forgetId"}

\* The names come from the claims of the token, fetched from Keycloak or kept in Redis.
BeginLogin(q, name) ==
    /\ userAt[q] = "idle"
    /\ GoUser(q, "key")
    /\ errand' = [errand EXCEPT ![q] = [is |-> "login", name |-> name]]
    /\ UNCHANGED <<userRow, objectKey, idKey, inMemory, toForget, lastUserId, userHistory>>

\* Of what the key holds a user is built, with the defaults of what it leaves out.
TakeCopy(q) ==
    /\ userAt[q] = "key" /\ objectKey \notin {NotCached, NoUser}
    /\ GoUser(q, "compare") /\ HoldUser(q, [objectKey EXCEPT !.joined = FALSE])
    /\ userRaced' = (userRaced \/ ForgettingByOthers(q))
    /\ UNCHANGED <<userRow, objectKey, idKey, errand, toForget, lastUserId, meant, removed,
                   renamed>>

MissCopy(q) ==
    /\ userAt[q] = "key" /\ objectKey \in {NotCached, NoUser}
    /\ GoUser(q, IF objectKey = NoUser THEN "get" ELSE "query")
    /\ UNCHANGED <<userRow, objectKey, idKey, errand, inMemory, toForget, lastUserId,
                   userHistory>>

QueryUser(q) ==
    /\ userAt[q] = "query"
    /\ GoUser(q, "fill") /\ HoldUser(q, userRow)
    /\ UNCHANGED <<userRow, objectKey, idKey, errand, toForget, lastUserId, userHistory>>

\* The mark of a user who does not exist is kept too.
FillObjectKey(q) ==
    /\ userAt[q] = "fill"
    /\ objectKey' = inMemory[q]
    /\ GoUser(q, IF inMemory[q] = NoUser THEN "get" ELSE "compare")
    /\ UNCHANGED <<userRow, idKey, errand, inMemory, toForget, lastUserId, userHistory>>

CompareNames(q) ==
    /\ userAt[q] = "compare"
    /\ IF inMemory[q].name = errand[q].name
       THEN UserRequestDone(q)
       ELSE /\ GoUser(q, "write") /\ HoldUser(q, [inMemory[q] EXCEPT !.name = errand[q].name])
            /\ UNCHANGED <<errand, toForget>>
    /\ UNCHANGED <<userRow, objectKey, idKey, lastUserId, userHistory>>

-----------------------------------------------------------------------------
\* UserViewSet.create and UserViewSet.language start with get_or_create.
BeginRegister(q, name) ==
    /\ userAt[q] = "idle"
    /\ GoUser(q, "get")
    /\ errand' = [errand EXCEPT ![q] = [is |-> "register", name |-> name]]
    /\ UNCHANGED <<userRow, objectKey, idKey, inMemory, toForget, lastUserId, userHistory>>

BeginLanguage(q, language) ==
    /\ userAt[q] = "idle"
    /\ GoUser(q, "get")
    /\ errand' = [errand EXCEPT ![q] = [is |-> "language", language |-> language]]
    /\ UNCHANGED <<userRow, objectKey, idKey, inMemory, toForget, lastUserId, userHistory>>

Asked(user, e) ==
    IF e.is = "language" THEN [user EXCEPT !.language = e.language]
    ELSE [user EXCEPT !.name = e.name]

NewUser == [id |-> lastUserId + 1, name |-> NotSet, language |-> NotSet, joined |-> TRUE]

\* get_or_create, of one who exists.
GetUser(q) ==
    /\ userAt[q] = "get" /\ userRow # NoUser
    /\ GoUser(q, "write") /\ HoldUser(q, Asked(userRow, errand[q]))
    /\ UNCHANGED <<userRow, objectKey, idKey, errand, toForget, lastUserId, userHistory>>

\* And of one who does not: nothing is invalidated for a row that was created.
InsertUser ==
    /\ userRow = NoUser /\ lastUserId < MaxUserIds
    /\ userRow' = NewUser /\ lastUserId' = lastUserId + 1
    /\ meant' = [name |-> NotSet, language |-> NotSet]
    /\ UNCHANGED <<objectKey, idKey, removed, renamed>>

CreateUser(q) ==
    /\ userAt[q] = "get" /\ InsertUser
    /\ GoUser(q, "write") /\ HoldUser(q, Asked(NewUser, errand[q]))
    /\ userRaced' = (userRaced \/ HeldByOthers(q))
    /\ UNCHANGED <<errand, toForget>>

\* The setup of a project, and of a permission, need a user of the address, no more.
MentionUser(q) ==
    /\ userAt[q] = "idle" /\ InsertUser
    /\ userRaced' = (userRaced \/ HeldByOthers(q))
    /\ UNCHANGED userRequestVars

\* Mutant: only a created row is invalidated.
ForgetsAfter(e, exists) == IF e.is = "login" THEN 1 ELSE 0

\* The signal invalidates what was updated, the login once more whatever it saved.
Forgets(e, exists) == (IF exists THEN 1 ELSE 0) + (IF e.is = "login" THEN 1 ELSE 0)

\* save() updates the row of this id with every field, and inserts one if there is none.
SaveUser(q) ==
    /\ userAt[q] = "write"
    /\ userRow # NoUser => userRow.id = inMemory[q].id
    /\ userRow' = inMemory[q]
    /\ toForget' = [toForget EXCEPT ![q] = Forgets(errand[q], userRow # NoUser)]
    /\ GoUser(q, "forget") /\ HoldUser(q, NoUser)
    /\ meant' = Asked(meant, errand[q])
    /\ userRaced' = (userRaced \/ HeldByOthers(q))
    /\ renamed' = (renamed \/ errand[q].is = "login")
    /\ errand' = [errand EXCEPT ![q] = NoErrand]
    /\ UNCHANGED <<objectKey, idKey, lastUserId, removed>>

\* The address is unique.
CollideOnAddress(q) ==
    /\ userAt[q] = "write" /\ userRow # NoUser /\ userRow.id # inMemory[q].id
    /\ UserRequestDone(q)
    /\ UNCHANGED <<userRow, objectKey, idKey, lastUserId, userHistory>>

ForgetCopy(q) ==
    /\ userAt[q] = "forget" /\ toForget[q] > 0
    /\ objectKey' = NotCached
    /\ GoUser(q, "forgetId")
    /\ UNCHANGED <<userRow, idKey, errand, inMemory, toForget, lastUserId, userHistory>>

ForgetId(q) ==
    /\ userAt[q] = "forgetId"
    /\ idKey' = NotCached
    /\ GoUser(q, "forget")
    /\ toForget' = [toForget EXCEPT ![q] = IF @ > 0 THEN @ - 1 ELSE 0]
    /\ UNCHANGED <<userRow, objectKey, errand, inMemory, lastUserId, userHistory>>

AllForgotten(q) ==
    /\ userAt[q] = "forget" /\ toForget[q] = 0
    /\ UserRequestDone(q)
    /\ UNCHANGED <<userRow, objectKey, idKey, lastUserId, userHistory>>

\* In the admin site, while the bound leaves another id; the copy stays where it is.
DeleteUser(q) ==
    /\ userAt[q] = "idle" /\ userRow # NoUser /\ lastUserId < MaxUserIds
    /\ userRow' = NoUser /\ removed' = TRUE
    /\ GoUser(q, "forgetId")
    /\ userRaced' = (userRaced \/ HeldByOthers(q))
    /\ UNCHANGED <<objectKey, idKey, errand, inMemory, toForget, lastUserId, meant, renamed>>

-----------------------------------------------------------------------------
\* get_user_id_by_email_cached
BeginLookup(q) ==
    /\ userAt[q] = "idle"
    /\ \/ idKey = NoUser /\ UNCHANGED <<userAt, errand>>
       \/ /\ idKey # NoUser
          /\ GoUser(q, IF idKey = NotCached THEN "ask" ELSE "validate")
          /\ errand' = [errand EXCEPT ![q] = [is |-> "lookup"]]
    /\ UNCHANGED <<userRow, objectKey, idKey, inMemory, toForget, lastUserId, userHistory>>

\* An id of which there is no row any more leaves the key.
ValidateId(q) ==
    /\ userAt[q] = "validate"
    /\ IF userRow # NoUser /\ userRow.id = idKey
       THEN UserRequestDone(q) /\ UNCHANGED idKey
       ELSE /\ idKey' = NotCached /\ GoUser(q, "ask")
            /\ UNCHANGED <<errand, inMemory, toForget>>
    /\ UNCHANGED <<userRow, objectKey, lastUserId, userHistory>>

QueryId(q) ==
    /\ userAt[q] = "ask"
    /\ GoUser(q, "keep") /\ HoldUser(q, userRow)
    /\ UNCHANGED <<userRow, objectKey, idKey, errand, toForget, lastUserId, userHistory>>

FillIdKey(q) ==
    /\ userAt[q] = "keep"
    /\ idKey' = IF inMemory[q] = NoUser THEN NoUser ELSE inMemory[q].id
    /\ UserRequestDone(q)
    /\ UNCHANGED <<userRow, objectKey, lastUserId, userHistory>>

ExpireUserKeys ==
    /\ \/ objectKey # NotCached /\ objectKey' = NotCached /\ UNCHANGED idKey
       \/ idKey # NotCached /\ idKey' = NotCached /\ UNCHANGED objectKey
    /\ UNCHANGED <<userRow, userRequestVars, lastUserId, userHistory>>

-----------------------------------------------------------------------------
UserStep(q) ==
    \/ \E name \in FirstNames : BeginLogin(q, name) \/ BeginRegister(q, name)
    \/ \E language \in Languages : BeginLanguage(q, language)
    \/ BeginLookup(q) \/ MentionUser(q) \/ DeleteUser(q)
    \/ TakeCopy(q) \/ MissCopy(q) \/ QueryUser(q) \/ FillObjectKey(q) \/ CompareNames(q)
    \/ GetUser(q) \/ CreateUser(q) \/ SaveUser(q) \/ CollideOnAddress(q)
    \/ ForgetCopy(q) \/ ForgetId(q) \/ AllForgotten(q)
    \/ ValidateId(q) \/ QueryId(q) \/ FillIdKey(q)

UserCacheNext == (\E q \in UserRequests : UserStep(q)) \/ ExpireUserKeys
UserCacheSpec == UserCacheInit /\ [][UserCacheNext]_userCacheVars

-----------------------------------------------------------------------------
SameUser(u, v) == u.id = v.id /\ u.name = v.name /\ u.language = v.language
Forgetting == \E q \in UserRequests : userAt[q] \in {"forget", "forgetId"}

(***************************************************************************)
(* What the keys say of a user is what the row says, from the invalidation *)
(* after a save on, unless a commit came between the query and the fill of *)
(* another request.  A copy may outlive its row, but none is of another    *)
(* state of the row there is.                                              *)
(***************************************************************************)
KeysAreCurrent ==
    ~userRaced /\ ~Forgetting =>
        /\ objectKey \notin {NoUser, NotCached} /\ userRow # NoUser =>
               objectKey.id # userRow.id \/ SameUser(objectKey, userRow)
        /\ idKey \notin {NoUser, NotCached} => userRow # NoUser /\ userRow.id = idKey

(***************************************************************************)
(* Saves of whole rows lose nothing that others have saved, unless they    *)
(* overlap: the row says what was last asked for, whichever request wrote  *)
(* it and whether it had read the row or the key.                          *)
(***************************************************************************)
NothingIsLost ==
    userRow # NoUser /\ ~userRaced /\ ~removed =>
        userRow.name = meant.name /\ userRow.language = meant.language

(***************************************************************************)
(* What the key leaves out, the password and the date of joining, is lost  *)
(* only by logins that rename a user: whoever registers a user or sets the *)
(* language saves what the row holds of them.                              *)
(***************************************************************************)
OnlyRenamingForgets == userRow # NoUser /\ ~userRow.joined => renamed

UserCacheHolds == KeysAreCurrent /\ NothingIsLost /\ OnlyRenamingForgets

-----------------------------------------------------------------------------
(***************************************************************************)
(* The rows of the projects of one organisation, the key that Redis keeps  *)
(* of the config of each, and the token each calls Flows with              *)
(* (projects/models, core/cache_utils.py, flows_rest_client.py).  A        *)
(* request reads the row, and most write all of it back; the key is        *)
(* forgotten after the save.  Flows may revoke a token at any time.        *)
(***************************************************************************)
CONSTANTS
    ConfigRequests,
    OrgProjects,
    Options,          \* what else a config may hold
    NoOption,
    NoProject,
    NoConfig,
    FlowsRetries,     \* FLOWS_AUTH_TOKEN_RETRIES
    MaxChanges        \* bound on the requests that change a row

ASSUME ProjectConfigAssumption ==
    /\ FlowsRetries \in Nat \ {0} /\ MaxChanges \in Nat
    /\ NoOption \notin Options /\ NoProject \notin OrgProjects
    /\ NoConfig \notin [principal: BOOLEAN, option: Options \cup {NoOption}]

VARIABLES
    projectRow,    \* projects_project
    configKey,     \* project:config:<uuid>
    configAt,      \* where each request is
    configTask,          \* what each request is for, and of which project
    projectHeld,      \* the project each request holds
    triesLeft,     \* of a request to Flows
    changesLeft,   \* of the bound
    mixed,         \* history: two changes of what both touch were under way at once
    asked,         \* history: the option last set of each project
    given,         \* history: the token last saved of each project, as it is now
    promoted,      \* history: the project last made the principal one
    wiped,         \* history: projects whose key may date from before a promotion
    hindered       \* history: requests to Flows whose token was revoked, or not given

configVars ==
    <<projectRow, configKey, configAt, configTask, projectHeld, triesLeft, changesLeft, mixed, asked,
      given, promoted, wiped, hindered>>
configRequestVars == <<configAt, configTask, projectHeld, triesLeft>>
configHistory == <<changesLeft, mixed, asked, given, promoted, wiped, hindered>>

Tokens == {"none", "valid", "revoked"}
Config == [principal: BOOLEAN, option: Options \cup {NoOption}]
ProjectRow == [config: Config, token: Tokens]

ConfigTasks ==
    [is: {"update", "event", "complete"}, project: OrgProjects, option: Options]
        \cup [is: {"read", "promote", "call", "none"}, project: OrgProjects \cup {NoProject}]
NoConfigTask == [is |-> "none", project |-> NoProject]
EmptyConfig == [principal |-> FALSE, option |-> NoOption]
NewRow == [config |-> EmptyConfig, token |-> "none"]

ConfigPlaces ==
    {"idle", "look", "query", "fill", "write", "forget", "demote", "request", "refresh", "failed"}

ProjectConfigTypeOK ==
    /\ projectRow \in [OrgProjects -> ProjectRow]
    /\ configKey \in [OrgProjects -> Config \cup {NoConfig}]
    /\ configAt \in [ConfigRequests -> ConfigPlaces]
    /\ configTask \in [ConfigRequests -> ConfigTasks]
    /\ projectHeld \in [ConfigRequests -> ProjectRow]
    /\ triesLeft \in [ConfigRequests -> 0..FlowsRetries]
    /\ changesLeft \in 0..MaxChanges
    /\ \A q \in ConfigRequests : configAt[q] # "idle" => configTask[q].project \in OrgProjects
    /\ mixed \in BOOLEAN
    /\ asked \in [OrgProjects -> Options \cup {NoOption}]
    /\ given \in [OrgProjects -> Tokens]
    /\ promoted \in OrgProjects \cup {NoProject}
    /\ wiped \subseteq OrgProjects
    /\ hindered \subseteq ConfigRequests

ProjectConfigInit ==
    /\ projectRow = [p \in OrgProjects |-> NewRow]
    /\ configKey = [p \in OrgProjects |-> NoConfig]
    /\ configAt = [q \in ConfigRequests |-> "idle"]
    /\ configTask = [q \in ConfigRequests |-> NoConfigTask]
    /\ projectHeld = [q \in ConfigRequests |-> NewRow]
    /\ triesLeft = [q \in ConfigRequests |-> 0]
    /\ changesLeft = MaxChanges
    /\ mixed = FALSE
    /\ asked = [p \in OrgProjects |-> NoOption]
    /\ given = [p \in OrgProjects |-> "none"]
    /\ promoted = NoProject /\ wiped = {} /\ hindered = {}

-----------------------------------------------------------------------------
ConfigGoTo(q, place) == configAt' = [configAt EXCEPT ![q] = place]
HoldRow(q, row) == projectHeld' = [projectHeld EXCEPT ![q] = row]

ConfigDone(q) ==
    /\ ConfigGoTo(q, "idle") /\ HoldRow(q, NewRow)
    /\ configTask' = [configTask EXCEPT ![q] = NoConfigTask]
    /\ triesLeft' = [triesLeft EXCEPT ![q] = 0]
    /\ hindered' = hindered \ {q}

\* Reads change nothing; a promotion touches every project.
Changes(q) == configAt[q] # "idle" /\ configTask[q].is # "read"
MeetsChange(q, t) == t.project = configTask[q].project \/ t.is = "promote" \/ configTask[q].is = "promote"

BeginProjectTask(q, t, place) ==
    /\ configAt[q] = "idle"
    /\ t.is # "read" => changesLeft > 0
    /\ changesLeft' = IF t.is = "read" THEN changesLeft ELSE changesLeft - 1
    /\ ConfigGoTo(q, place)
    /\ HoldRow(q, IF t.is = "read" THEN NewRow ELSE projectRow[t.project])
    /\ configTask' = [configTask EXCEPT ![q] = t]
    /\ mixed' = (mixed \/ \E o \in ConfigRequests : Changes(o) /\ MeetsChange(o, t) /\ t.is # "read")
    /\ UNCHANGED <<projectRow, configKey, asked, given, promoted, wiped, hindered>>

BeginRead(q, p) == BeginProjectTask(q, [is |-> "read", project |-> p], "look") /\ UNCHANGED triesLeft

\* The PATCH of a project, an update that came as an event, and the token of the completion,
\* which a room asks for if the config has none (a sector's is set like an update).
BeginProjectUpdate(q, p, option) ==
    /\ BeginProjectTask(q, [is |-> "update", project |-> p, option |-> option], "write")
    /\ UNCHANGED triesLeft
BeginEvent(q, p, option) ==
    /\ BeginProjectTask(q, [is |-> "event", project |-> p, option |-> option], "write")
    /\ UNCHANGED triesLeft
BeginComplete(q, p, option) ==
    /\ BeginProjectTask(q, [is |-> "complete", project |-> p, option |-> option], "look")
    /\ UNCHANGED triesLeft

BeginPromote(q, p) == BeginProjectTask(q, [is |-> "promote", project |-> p], "write") /\ UNCHANGED triesLeft

BeginCall(q, p) ==
    /\ BeginProjectTask(q, [is |-> "call", project |-> p], "request")
    /\ triesLeft' = [triesLeft EXCEPT ![q] = FlowsRetries]

-----------------------------------------------------------------------------
\* get_project_config_cached, for who reads the config and who looks for an openai_token in it;
\* what the latter saves has another name, so that it may be missed again.
CacheAnswered(q) ==
    \/ ConfigDone(q)
    \/ /\ configTask[q].is = "complete"
       /\ ConfigGoTo(q, "write") /\ UNCHANGED <<configTask, projectHeld, triesLeft, hindered>>

HitConfig(q) ==
    /\ configAt[q] = "look" /\ configKey[configTask[q].project] # NoConfig
    /\ CacheAnswered(q)
    /\ UNCHANGED <<projectRow, configKey, changesLeft, mixed, asked, given, promoted, wiped>>

MissConfig(q) ==
    /\ configAt[q] = "look" /\ configKey[configTask[q].project] = NoConfig
    /\ ConfigGoTo(q, "query")
    /\ UNCHANGED <<projectRow, configKey, configTask, projectHeld, triesLeft, configHistory>>

QueryConfig(q) ==
    /\ configAt[q] = "query"
    /\ ConfigGoTo(q, "fill") /\ HoldRow(q, projectRow[configTask[q].project])
    /\ UNCHANGED <<projectRow, configKey, configTask, triesLeft, configHistory>>

FillConfig(q) ==
    /\ configAt[q] = "fill"
    /\ configKey' = [configKey EXCEPT ![configTask[q].project] = projectHeld[q].config]
    /\ CacheAnswered(q)
    /\ UNCHANGED <<projectRow, changesLeft, mixed, asked, given, promoted, wiped>>

-----------------------------------------------------------------------------
\* What a request has queried of p is older than what is committed now.
Filling(p) == \E o \in ConfigRequests : configAt[o] = "fill" /\ configTask[o].project = p

\* The config that a request writes, over the one it has read.
Written(t, config) ==
    IF t.is \in {"update", "event", "complete"} THEN [config EXCEPT !.option = t.option]
    ELSE IF t.is = "promote" THEN [config EXCEPT !.principal = TRUE] ELSE config

\* save(update_fields=...) only of an event.
WritesToken(t) == t.is # "event"

SaveProject(q) ==
    /\ configAt[q] = "write"
    /\ LET t == configTask[q]  p == t.project  row == projectHeld[q] IN
           /\ projectRow' = [projectRow EXCEPT ![p] =
                  [config |-> Written(t, row.config),
                   token |-> IF WritesToken(t) THEN row.token ELSE @.token]]
           /\ asked' = IF t.is \in {"update", "event", "complete"}
                       THEN [asked EXCEPT ![p] = t.option] ELSE asked
           /\ given' = IF t.is = "call" THEN [given EXCEPT ![p] = row.token] ELSE given
           /\ promoted' = IF t.is = "promote" THEN p ELSE promoted
           /\ mixed' = (mixed \/ Filling(p))
    /\ ConfigGoTo(q, "forget")
    /\ HoldRow(q, IF configTask[q].is = "call" THEN projectHeld[q] ELSE NewRow)
    /\ UNCHANGED <<configKey, configTask, triesLeft, changesLeft, wiped, hindered>>

\* What follows the save: the others are demoted, or Flows is called again.
AfterSave(q) ==
    IF configTask[q].is \in {"promote", "call"}
    THEN /\ ConfigGoTo(q, IF configTask[q].is = "promote" THEN "demote"
                          ELSE IF triesLeft[q] > 0 THEN "request" ELSE "failed")
         /\ UNCHANGED <<configTask, projectHeld, triesLeft, hindered>>
    ELSE ConfigDone(q)

\* Mutant: no signal is sent.
ForgetNothing(q) ==
    /\ configAt[q] = "forget"
    /\ AfterSave(q)
    /\ UNCHANGED <<projectRow, configKey, changesLeft, mixed, asked, given, promoted, wiped>>

ForgetConfig(q) ==
    /\ configAt[q] = "forget"
    /\ configKey' = [configKey EXCEPT ![configTask[q].project] = NoConfig]
    /\ wiped' = wiped \ {configTask[q].project}
    /\ AfterSave(q)
    /\ UNCHANGED <<projectRow, changesLeft, mixed, asked, given, promoted>>

\* Mutant: the others are not demoted.
DemoteNobody(q) ==
    /\ configAt[q] = "demote"
    /\ ConfigDone(q)
    /\ UNCHANGED <<projectRow, configKey, changesLeft, mixed, asked, given, promoted, wiped>>

\* One UPDATE of all the others: their configs are replaced, their keys stay.
DemoteOthers(q) ==
    /\ configAt[q] = "demote"
    /\ LET others == OrgProjects \ {configTask[q].project} IN
           /\ projectRow' = [p \in OrgProjects |->
                  IF p \in others THEN [projectRow[p] EXCEPT !.config = EmptyConfig]
                  ELSE projectRow[p]]
           /\ asked' = [p \in OrgProjects |-> IF p \in others THEN NoOption ELSE asked[p]]
           /\ mixed' = (mixed \/ \E p \in others : Filling(p))
           /\ wiped' = wiped \cup others
    /\ ConfigDone(q)
    /\ UNCHANGED <<configKey, changesLeft, given, promoted>>

-----------------------------------------------------------------------------
\* retry_request_and_refresh_flows_auth_token
AnsweredCall(q) ==
    /\ configAt[q] = "request" /\ triesLeft[q] > 0 /\ projectHeld[q].token = "valid"
    /\ ConfigDone(q)
    /\ UNCHANGED <<projectRow, configKey, changesLeft, mixed, asked, given, promoted, wiped>>

RefusedCall(q) ==
    /\ configAt[q] = "request" /\ triesLeft[q] > 0 /\ projectHeld[q].token # "valid"
    /\ ConfigGoTo(q, "refresh")
    /\ triesLeft' = [triesLeft EXCEPT ![q] = @ - 1]
    /\ UNCHANGED <<projectRow, configKey, configTask, projectHeld, configHistory>>

\* Mutant: the token is saved, and the next request takes the one before.
GetTokenLate(q) ==
    /\ configAt[q] = "refresh"
    /\ ConfigGoTo(q, "write")
    /\ UNCHANGED <<projectRow, configKey, configTask, projectHeld, triesLeft, configHistory>>

\* Flows answers with the token of the first administrator it knows.
GetToken(q) ==
    /\ configAt[q] = "refresh"
    /\ HoldRow(q, [projectHeld[q] EXCEPT !.token = "valid"])
    /\ ConfigGoTo(q, "write")
    /\ UNCHANGED <<projectRow, configKey, configTask, triesLeft, configHistory>>

\* It knows none of them: an answer without a token is saved as no token.
GetNoToken(q) ==
    /\ configAt[q] = "refresh"
    /\ HoldRow(q, [projectHeld[q] EXCEPT !.token = "none"])
    /\ ConfigGoTo(q, "write")
    /\ hindered' = hindered \cup {q}
    /\ UNCHANGED <<projectRow, configKey, configTask, triesLeft, changesLeft, mixed, asked, given,
                   promoted, wiped>>

\* There is no administrator left to ask for: the request goes out with no token.
AskNobody(q) ==
    /\ configAt[q] = "refresh"
    /\ HoldRow(q, [projectHeld[q] EXCEPT !.token = "none"])
    /\ ConfigGoTo(q, IF triesLeft[q] > 0 THEN "request" ELSE "failed")
    /\ hindered' = hindered \cup {q}
    /\ UNCHANGED <<projectRow, configKey, configTask, triesLeft, changesLeft, mixed, asked, given,
                   promoted, wiped>>

FailCall(q) ==
    /\ configAt[q] = "failed"
    /\ ConfigDone(q)
    /\ UNCHANGED <<projectRow, configKey, changesLeft, mixed, asked, given, promoted, wiped>>

\* Flows revokes the token of a project, also of one that is being called with it.
Revoked(row) == [row EXCEPT !.token = IF @ = "valid" THEN "revoked" ELSE @]

RevokeToken(p) ==
    /\ given[p] = "valid"
    /\ projectRow' = [projectRow EXCEPT ![p] = Revoked(@)]
    /\ given' = [given EXCEPT ![p] = "revoked"]
    /\ projectHeld' = [q \in ConfigRequests |->
           IF configTask[q].project = p THEN Revoked(projectHeld[q]) ELSE projectHeld[q]]
    /\ hindered' = hindered \cup
           {q \in ConfigRequests : configTask[q].is = "call" /\ configTask[q].project = p}
    /\ UNCHANGED <<configKey, configAt, configTask, triesLeft, changesLeft, mixed, asked, promoted, wiped>>

ExpireConfig(p) ==
    /\ configKey[p] # NoConfig
    /\ configKey' = [configKey EXCEPT ![p] = NoConfig]
    /\ wiped' = wiped \ {p}
    /\ UNCHANGED <<projectRow, configRequestVars, changesLeft, mixed, asked, given, promoted, hindered>>

ConfigStep(q) ==
    \/ \E p \in OrgProjects :
           \/ BeginRead(q, p) \/ BeginPromote(q, p) \/ BeginCall(q, p)
           \/ \E option \in Options :
                  BeginProjectUpdate(q, p, option) \/ BeginEvent(q, p, option) \/ BeginComplete(q, p, option)
    \/ HitConfig(q) \/ MissConfig(q) \/ QueryConfig(q) \/ FillConfig(q)
    \/ SaveProject(q) \/ ForgetConfig(q) \/ DemoteOthers(q)
    \/ AnsweredCall(q) \/ RefusedCall(q) \/ GetToken(q) \/ GetNoToken(q) \/ AskNobody(q)
    \/ FailCall(q)

ProjectConfigNext ==
    \/ \E q \in ConfigRequests : ConfigStep(q)
    \/ \E p \in OrgProjects : RevokeToken(p) \/ ExpireConfig(p)
ProjectConfigSpec == ProjectConfigInit /\ [][ProjectConfigNext]_configVars

-----------------------------------------------------------------------------
ForgetsConfig(p) == \E q \in ConfigRequests : configAt[q] = "forget" /\ configTask[q].project = p
Promoting == \E q \in ConfigRequests : configTask[q].is = "promote" /\ configAt[q] \in {"forget", "demote"}

(***************************************************************************)
(* Once a save has been followed by its signal, the key of a project says  *)
(* what the row says, if no two changes met.  A promotion is the exception *)
(* the code makes: it rewrites the other projects without a signal.        *)
(***************************************************************************)
ConfigKeysAreCurrent ==
    ~mixed => \A p \in OrgProjects \ wiped :
        configKey[p] # NoConfig /\ ~ForgetsConfig(p) => configKey[p] = projectRow[p].config

(***************************************************************************)
(* Writing whole rows back loses no option and no token that was saved     *)
(* before, whatever the order of the requests, if no two of them met.      *)
(***************************************************************************)
OptionsAreKept ==
    ~mixed => \A p \in OrgProjects :
        projectRow[p].config.option = asked[p] /\ projectRow[p].token = given[p]

(***************************************************************************)
(* The organisation has one principal project, the one promoted last, from *)
(* the end of the promotion on.                                            *)
(***************************************************************************)
OnePrincipal ==
    ~mixed /\ ~Promoting =>
        \A p \in OrgProjects : projectRow[p].config.principal <=> p = promoted

(***************************************************************************)
(* A request that Flows refuses in the end had its token revoked meanwhile *)
(* or was not given one: an old token is renewed and taken again.          *)
(***************************************************************************)
OldTokensAreRenewed ==
    FlowsRetries > 1 => \A q \in ConfigRequests : configAt[q] = "failed" => q \in hindered

ProjectConfigHolds ==
    ConfigKeysAreCurrent /\ OptionsAreKept /\ OnePrincipal /\ OldTokensAreRenewed
=============================================================================
