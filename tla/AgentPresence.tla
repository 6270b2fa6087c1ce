---------------------------- MODULE AgentPresence ----------------------------
(***************************************************************************)
(* Whether an agent is offered rooms: the websocket connections of one     *)
(* agent in one project (AgentRoomConsumer), the connection status of the  *)
(* agent's permission and its last_seen column.                            *)
(*                                                                         *)
(* A connection that ends leaves its groups and, where the connection      *)
(* check is enabled, asks the permission's group who else is there.        *)
(* Everyone else answers to the group, whoever is still in it writes the   *)
(* answer to the cache, and after a while the connection reads it once.    *)
(* A consumer handles one event at a time, so that a connection in its     *)
(* disconnect handler answers nobody.                                      *)
(***************************************************************************)
EXTENDS Naturals, FiniteSets

CONSTANTS
    Conns,            \* connections; each is opened once
    Checking,         \* those whose server process has USE_WS_CONNECTION_CHECK on
    PingTimeout,      \* is the ping timeout feature flag on?
    MaxCrashes        \* bound on the connections lost with their server process

ASSUME PresenceAssumption ==
    /\ Checking \subseteq Conns
    /\ PingTimeout \in BOOLEAN
    /\ MaxCrashes \in Nat

VARIABLES
    presence,    \* ProjectPermission.status
    fresh,       \* is last_seen within the threshold of online_agents?
    conn,        \* where each connection is
    silent,      \* connections whose client has vanished and sends no pings
    mailbox,     \* channel layer: events not handled yet
    answered,    \* connections whose connection_check_response key is in the cache
    crashes,     \* crashes so far
    orphan       \* history: ONLINE was requested while no connection was there

presenceVars == <<presence, fresh, conn, silent, mailbox, answered, crashes, orphan>>

Places ==
    {"new", "accepted", "joined", "expired", "left", "asked", "closed", "crashed"}

Check(c) == [action |-> "connection_check", of |-> c]
Response(c) == [action |-> "connection_check_response", of |-> c]
Events == [action : {"connection_check", "connection_check_response"}, of : Conns]

\* The connections in the permission's group.
Group == {c \in Conns : conn[c] \in {"joined", "expired"}}

PresenceTypeOK ==
    /\ presence \in {"ONLINE", "OFFLINE"}
    /\ fresh \in BOOLEAN
    /\ conn \in [Conns -> Places]
    /\ silent \subseteq Conns
    /\ mailbox \in [Conns -> SUBSET Events]
    /\ \A c \in Conns \ Group : mailbox[c] = {}
    /\ answered \subseteq Conns
    /\ crashes \in 0..MaxCrashes
    /\ orphan \in BOOLEAN

-----------------------------------------------------------------------------
\* Connections that have an agent's client behind them.
Active == {c \in Conns : conn[c] \in {"accepted", "joined"} /\ c \notin silent}

\* Mutant: online_agents without its filter on last_seen.
OnlineAtAll == presence = "ONLINE"

\* Queue.online_agents, for an agent who is not on a break.
Routable == presence = "ONLINE" /\ (PingTimeout => fresh)

PresenceInit ==
    /\ presence = "OFFLINE"
    /\ fresh = FALSE
    /\ conn = [c \in Conns |-> "new"]
    /\ silent = {}
    /\ mailbox = [c \in Conns |-> {}]
    /\ answered = {}
    /\ crashes = 0
    /\ orphan = FALSE

\* Every member of the group, the sender included, gets the event.
GroupSend(boxes, event) ==
    [c \in Conns |-> IF c \in Group THEN boxes[c] \cup {event} ELSE boxes[c]]

Moves(c, location) == conn' = [conn EXCEPT ![c] = location]

\* connect: the client may act as soon as the connection is accepted.
Accept(c) ==
    /\ conn[c] = "new"
    /\ Moves(c, "accepted")
    /\ UNCHANGED <<presence, fresh, silent, mailbox, answered, crashes, orphan>>

\* connect, after load_user; it does not touch the status.
Join(c) ==
    /\ conn[c] = "accepted"
    /\ Moves(c, "joined")
    /\ fresh' = (PingTimeout \/ fresh)
    /\ UNCHANGED <<presence, silent, mailbox, answered, crashes, orphan>>

Ping(c) ==
    /\ conn[c] = "joined" /\ c \notin silent
    /\ fresh' = (PingTimeout \/ fresh)
    /\ UNCHANGED <<presence, conn, silent, mailbox, answered, crashes, orphan>>

\* The client loses its network without closing the connection.
Vanish(c) ==
    /\ c \in Active
    /\ silent' = silent \cup {c}
    /\ UNCHANGED <<presence, fresh, conn, mailbox, answered, crashes, orphan>>

\* ping_timeout_checker: goes OFFLINE whoever else is connected, then closes.
ExpirePing(c) ==
    /\ PingTimeout
    /\ conn[c] = "joined" /\ c \in silent
    /\ Moves(c, "expired")
    /\ presence' = "OFFLINE"
    /\ orphan' = FALSE
    /\ UNCHANGED <<fresh, silent, mailbox, answered, crashes>>

\* Mutant: events of a connection that has left its groups stay around.
LeaveMail(c) ==
    /\ c \in Group
    /\ Moves(c, "left")
    /\ UNCHANGED <<presence, fresh, silent, mailbox, answered, crashes, orphan>>

\* disconnect, up to group_discard.
Leave(c) ==
    /\ c \in Group
    /\ Moves(c, "left")
    /\ mailbox' = [mailbox EXCEPT ![c] = {}]
    /\ UNCHANGED <<presence, fresh, silent, answered, crashes, orphan>>

\* disconnect without the connection check.
LeaveOffline(c) ==
    /\ c \notin Checking
    /\ conn[c] = "left"
    /\ Moves(c, "closed")
    /\ presence' = "OFFLINE"
    /\ orphan' = FALSE
    /\ UNCHANGED <<fresh, silent, mailbox, answered, crashes>>

\* Mutant: the connection answers its own check.
AskWithin(c) ==
    /\ c \in Checking
    /\ conn[c] = "left"
    /\ Moves(c, "asked")
    /\ mailbox' = GroupSend(mailbox, Check(c))
    /\ answered' = answered \cup {c}
    /\ UNCHANGED <<presence, fresh, silent, crashes, orphan>>

\* has_other_active_connections, up to the sleep.
Ask(c) ==
    /\ c \in Checking
    /\ conn[c] = "left"
    /\ Moves(c, "asked")
    /\ mailbox' = GroupSend(mailbox, Check(c))
    /\ UNCHANGED <<presence, fresh, silent, answered, crashes, orphan>>

\* notify, for a connection_check of another connection.
Answer(d, c) ==
    /\ d \in Group
    /\ Check(c) \in mailbox[d]
    /\ mailbox' = GroupSend([mailbox EXCEPT ![d] = @ \ {Check(c)}], Response(c))
    /\ UNCHANGED <<presence, fresh, conn, silent, answered, crashes, orphan>>

\* notify, for a connection_check_response: set_connection_check_response.
Record(d, c) ==
    /\ d \in Group
    /\ Response(c) \in mailbox[d]
    /\ mailbox' = [mailbox EXCEPT ![d] = @ \ {Response(c)}]
    /\ answered' = answered \cup {c}
    /\ UNCHANGED <<presence, fresh, conn, silent, crashes, orphan>>

\* get_connection_check_response finds an answer and deletes it.
StayOnline(c) ==
    /\ conn[c] = "asked"
    /\ c \in answered
    /\ Moves(c, "closed")
    /\ answered' = answered \ {c}
    /\ UNCHANGED <<presence, fresh, silent, mailbox, crashes, orphan>>

\* It finds none, or not yet.
GoOffline(c) ==
    /\ conn[c] = "asked"
    /\ c \notin answered
    /\ Moves(c, "closed")
    /\ presence' = "OFFLINE"
    /\ orphan' = FALSE
    /\ UNCHANGED <<fresh, silent, mailbox, answered, crashes>>

\* The connection dies with its server process, without a disconnect.
Crash(c) ==
    /\ conn[c] \notin {"new", "closed", "crashed"}
    /\ crashes < MaxCrashes
    /\ crashes' = crashes + 1
    /\ Moves(c, "crashed")
    /\ mailbox' = [mailbox EXCEPT ![c] = {}]
    /\ UNCHANGED <<presence, fresh, silent, answered, orphan>>

\* The agent's client asks to be ONLINE, usually once it is connected; also
\* the end of a break.
RequestOnline ==
    /\ presence' = "ONLINE"
    /\ orphan' = (\A c \in Conns : conn[c] \notin {"accepted", "joined", "expired"})
    /\ UNCHANGED <<fresh, conn, silent, mailbox, answered, crashes>>

\* The client asks to be OFFLINE, an administrator disconnects the agent, or
\* a break begins.
RequestOffline ==
    /\ presence' = "OFFLINE"
    /\ orphan' = FALSE
    /\ UNCHANGED <<fresh, conn, silent, mailbox, answered, crashes>>

\* Nobody has updated last_seen for LAST_SEEN_THRESHOLD_SECONDS.
GrowStale ==
    /\ fresh
    /\ \A c \in Active : conn[c] # "joined"
    /\ fresh' = FALSE
    /\ UNCHANGED <<presence, conn, silent, mailbox, answered, crashes, orphan>>

Disconnect(c) ==
    LeaveOffline(c) \/ Ask(c) \/ StayOnline(c) \/ GoOffline(c)

PresenceNext ==
    \/ \E c \in Conns :
          \/ Accept(c) \/ Join(c) \/ Ping(c) \/ Vanish(c)
          \/ ExpirePing(c) \/ Leave(c) \/ Disconnect(c) \/ Crash(c)
    \/ \E c, d \in Conns : Answer(d, c) \/ Record(d, c)
    \/ RequestOnline \/ RequestOffline
    \/ GrowStale

PresenceSpec == PresenceInit /\ [][PresenceNext]_presenceVars

\* Time passes: only the age of last_seen is needed below.
PresenceFairness == WF_presenceVars(GrowStale)

-----------------------------------------------------------------------------
(***************************************************************************)
(* When every connection has ended and none was lost in a crash, the agent *)
(* is OFFLINE, however their checks and answers crossed, unless ONLINE was *)
(* requested after all of them had left (disconnect in agent.py).          *)
(***************************************************************************)
GoneIsOffline ==
    (\A c \in Conns : conn[c] \in {"new", "closed"}) /\ presence = "ONLINE" => orphan

(***************************************************************************)
(* An agent whose clients are all gone, be it in a crash, is not offered   *)
(* rooms for ever (ping_timeout_checker, and last_seen in online_agents).  *)
(***************************************************************************)
NoGhostAgents == []<>(Active # {} \/ ~Routable)
=============================================================================
