-------------------------------- MODULE Inbox --------------------------------
(***************************************************************************)
(* The notifications of one user: a table that requests and the reminder   *)
(* scheduler write, and the sockets of the user's room, told of a change   *)
(* after it is saved.  A client joins the room and fetches the list; what  *)
(* it shows is the list it got and what it heard since.  Presence is a key *)
(* in Redis that connections set and disconnections delete.                *)
(***************************************************************************)
EXTENDS Integers, FiniteSets

CONSTANTS
  Sockets,      \* connections of the user
  Jobs,         \* requests on the table at a time
  MaxNotices,   \* bound: notifications
  MaxJobs       \* bound: requests

ASSUME InboxAssumption == MaxNotices \in Nat /\ MaxJobs \in Nat

VARIABLES
  notice,   \* the table: [ids given -> "unread", "read" or "removed"]
  socket,   \* [Sockets -> where the client is and what it knows]
  job,      \* [Jobs -> request in progress]
  jobs,
  online,   \* online:<user>
  stopped,  \* history: the process stopped with sockets open
  crossed   \* history: notifications an update wrote back as they had been, or
            \* whose announcement was overtaken by the word that they were read

inboxVars == <<notice, socket, job, jobs, online, stopped, crossed>>

Notices == DOMAIN notice
Offline == [at |-> "offline"]
Over    == [at |-> "over"]
Works(j, what) == job' = [job EXCEPT ![j] = what]
Begins(j, what) == /\ job[j] = Over /\ jobs < MaxJobs
                   /\ jobs' = jobs + 1 /\ Works(j, what)

-----------------------------------------------------------------------------
(* Sockets.                                                                *)

\* knows: ids in the list or announced; seen: those shown as read.  list: "out" when
\* a list is on its way to the client, "in" when the client was in the room since it
\* was read, "current" when such a list has arrived.  listed and read: what the list
\* on its way says; late: history, those it shows as unread that the client was told
\* of as read before the list came.
Connects(s) ==
  /\ socket[s] = Offline
  /\ socket' = [socket EXCEPT ![s] =
       [at |-> "connected", room |-> FALSE, knows |-> {}, seen |-> {},
        list |-> "none", listed |-> {}, read |-> {}, late |-> {}]]
  /\ online' = TRUE
  /\ UNCHANGED <<notice, job, jobs, stopped, crossed>>

\* handleSubscribe and handleUnsubscribe.
Inside(c) == [c EXCEPT !.room = TRUE]
Outside(c) == [c EXCEPT !.room = FALSE, !.list = IF @ \in {"in", "out"} THEN "out" ELSE "none"]

Joins(s) ==
  /\ socket[s] # Offline /\ ~ socket[s].room
  /\ socket' = [socket EXCEPT ![s] = Inside(@)]
  /\ UNCHANGED <<notice, job, jobs, online, stopped, crossed>>

Leaves(s) ==
  /\ socket[s] # Offline /\ socket[s].room
  /\ socket' = [socket EXCEPT ![s] = Outside(@)]
  /\ UNCHANGED <<notice, job, jobs, online, stopped, crossed>>

\* findAll reads the table; a client that asks again waits for the new list only.
Asking(c, listed, read) ==
  [c EXCEPT !.listed = listed, !.read = read, !.list = IF c.room THEN "in" ELSE "out", !.late = {}]

FetchesList(s) ==
  /\ socket[s] # Offline
  /\ socket' = [socket EXCEPT ![s] = Asking(@, {n \in Notices : notice[n] # "removed"},
                                               {n \in Notices : notice[n] = "read"})]
  /\ UNCHANGED <<notice, job, jobs, online, stopped, crossed>>

\* The answer arrives.  The client keeps what it was told of meanwhile, and shows
\* what is listed as the list has it.
Answered(c) ==
  [c EXCEPT !.knows = @ \cup c.listed, !.seen = (@ \ c.listed) \cup c.read,
            !.list = IF @ = "in" THEN "current" ELSE "none", !.listed = {}, !.read = {}]

GetsList(s) ==
  /\ socket[s] # Offline /\ socket[s].list \in {"in", "out"}
  /\ socket' = [socket EXCEPT ![s] = Answered(@)]
  /\ UNCHANGED <<notice, job, jobs, online, stopped, crossed>>

\* handleDisconnect: the key goes, whatever other sockets the user has.
Disconnects(s) ==
  /\ socket[s] # Offline
  /\ socket' = [socket EXCEPT ![s] = Offline]
  /\ online' = FALSE
  /\ UNCHANGED <<notice, job, jobs, stopped, crossed>>

\* The key expires: nobody calls heartbeat.
Fades == online /\ online' = FALSE /\ UNCHANGED <<notice, socket, job, jobs, stopped, crossed>>

-----------------------------------------------------------------------------
(* create, markAsRead, update, markAllAsRead, remove.  What is emitted     *)
(* reaches the sockets that are in the room.                               *)

\* Mutation: nothing is sent to a user who is shown as offline.
ReachedOnline(s) == socket[s] # Offline /\ socket[s].room /\ online
Reached(s)       == socket[s] # Offline /\ socket[s].room

Hearing(c, new, read) ==
  [c EXCEPT !.knows = @ \cup new, !.seen = @ \cup (read \cap c.knows),
            !.late = @ \cup (read \cap (c.listed \ c.read))]
Told(new, read) ==
  [s \in Sockets |-> IF Reached(s) THEN Hearing(socket[s], new, read) ELSE socket[s]]

Creates(j) ==
  /\ Cardinality(Notices) < MaxNotices
  /\ LET n == Cardinality(Notices) + 1 IN
       /\ Begins(j, [at |-> "emit", id |-> n])
       /\ notice' = [k \in Notices \cup {n} |-> IF k = n THEN "unread" ELSE notice[k]]
  /\ UNCHANGED <<socket, online, stopped, crossed>>

Emits(j) ==
  /\ job[j].at = "emit"
  /\ socket' = Told({job[j].id}, {})
  /\ Works(j, Over)
  /\ UNCHANGED <<notice, jobs, online, stopped, crossed>>

\* findById, for markAsRead, update and remove.
Finds(j, n, for) ==
  /\ notice[n] # "removed"
  /\ Begins(j, [at |-> for, id |-> n, was |-> notice[n]])
  /\ UNCHANGED <<notice, socket, online, stopped, crossed>>

\* save of an entity that was removed meanwhile fails: its id is generated.
MarksRead(j) ==
  /\ job[j].at = "mark"
  /\ IF notice[job[j].id] = "removed"
     THEN Works(j, Over) /\ UNCHANGED notice
     ELSE /\ notice' = [notice EXCEPT ![job[j].id] = "read"]
          /\ Works(j, [at |-> "confirm", ids |-> {job[j].id}])
  /\ UNCHANGED <<socket, jobs, online, stopped, crossed>>

\* Title, text, schedule or activity change; is_read is saved as it was read.
Updates(j) ==
  /\ job[j].at = "update"
  /\ notice' = IF notice[job[j].id] = "removed" THEN notice
               ELSE [notice EXCEPT ![job[j].id] = job[j].was]
  /\ crossed' = IF notice[job[j].id] = job[j].was THEN crossed ELSE crossed \cup {job[j].id}
  /\ Works(j, Over)
  /\ UNCHANGED <<socket, jobs, online, stopped>>

Deletes(j) ==
  /\ job[j].at = "delete"
  /\ notice' = [notice EXCEPT ![job[j].id] = "removed"]
  /\ Works(j, Over)
  /\ UNCHANGED <<socket, jobs, online, stopped, crossed>>

MarksAll(j) ==
  /\ Begins(j, [at |-> "confirm", ids |-> 1 .. MaxNotices])
  /\ notice' = [n \in Notices |-> IF notice[n] = "unread" THEN "read" ELSE notice[n]]
  /\ UNCHANGED <<socket, online, stopped, crossed>>

\* Mutation: no word of what was read.
ConfirmsNothing(ids) == {}
Confirmed(ids)       == ids

\* confirmMarkRead, confirmMarkAllRead: all the client knows by then.
Confirms(j) ==
  /\ job[j].at = "confirm"
  /\ socket' = Told({}, Confirmed(job[j].ids))
  /\ crossed' = crossed \cup {n \in Notices \cap job[j].ids :
                   \E o \in Jobs : job[o].at = "emit" /\ job[o].id = n}
  /\ Works(j, Over)
  /\ UNCHANGED <<notice, jobs, online, stopped>>

JobFails(j) ==
  /\ job[j].at \in {"mark", "update", "delete"}
  /\ Works(j, Over)
  /\ UNCHANGED <<notice, socket, jobs, online, stopped, crossed>>

\* The process ends: sockets and jobs are gone, tables and keys stay.
Stops ==
  /\ ~ stopped /\ stopped' = TRUE
  /\ socket' = [s \in Sockets |-> Offline]
  /\ job' = [j \in Jobs |-> Over]
  /\ UNCHANGED <<notice, jobs, online, crossed>>

-----------------------------------------------------------------------------
InboxInit ==
  /\ notice = <<>>
  /\ socket = [s \in Sockets |-> Offline]
  /\ job = [j \in Jobs |-> Over] /\ jobs = 0
  /\ online = FALSE /\ stopped = FALSE /\ crossed = {}

InboxNext ==
  \/ \E s \in Sockets :
       \/ Connects(s) \/ Joins(s) \/ Leaves(s) \/ Disconnects(s)
       \/ FetchesList(s) \/ GetsList(s)
  \/ \E j \in Jobs : \/ Creates(j) \/ Emits(j) \/ MarksRead(j) \/ Updates(j) \/ Deletes(j)
                    \/ MarksAll(j) \/ Confirms(j) \/ JobFails(j)
  \/ \E j \in Jobs, n \in Notices, for \in {"mark", "update", "delete"} : Finds(j, n, for)
  \/ Fades \/ Stops

InboxSpec == InboxInit /\ [][InboxNext]_inboxVars

-----------------------------------------------------------------------------
(* Correctness.                                                            *)

InboxTypeOK ==
  /\ Notices \in {1 .. n : n \in 0 .. MaxNotices}
  /\ \A n \in Notices : notice[n] \in {"unread", "read", "removed"}
  /\ \A s \in Sockets : socket[s] = Offline \/
       socket[s] \in [at : {"connected"}, room : BOOLEAN, knows : SUBSET Notices,
                      seen : SUBSET Notices, list : {"none", "out", "in", "current"},
                      listed : SUBSET Notices, read : SUBSET Notices, late : SUBSET Notices]
  /\ \A j \in Jobs : job[j].at \in {"over", "emit", "mark", "update", "delete", "confirm"}
  /\ jobs \in 0 .. MaxJobs /\ online \in BOOLEAN /\ stopped \in BOOLEAN
  /\ crossed \subseteq Notices

Current(s) == socket[s] # Offline /\ socket[s].list = "current"

\* A client that was in its room when the list was read, and since, knows of every
\* notification, but for those about to be announced: each was saved before the list
\* was read, or is announced to the room after it, whichever the client gets first.
NothingIsMissed ==
  \A s \in Sockets : Current(s) =>
    \A n \in Notices :
      \/ n \in socket[s].knows \/ notice[n] = "removed"
      \/ \E j \in Jobs : job[j].at = "emit" /\ job[j].id = n

\* And it shows as read what is read, wherever it was read, unless two requests on
\* the notification crossed, or the client was told so while the list it shows, in
\* which the notification is unread, was on its way.
ReadsAreReported ==
  \A s \in Sockets : Current(s) =>
    \A n \in Notices \ (crossed \cup socket[s].late) :
      notice[n] = "read" =>
        \/ n \in socket[s].seen
        \/ \E j \in Jobs : job[j].at = "confirm" /\ n \in job[j].ids
=============================================================================
