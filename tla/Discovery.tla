----------------------------- MODULE Discovery -----------------------------
(* How the members of a group find each other with mDNS (discovery.rs).    *)
(* A member announces a tag of its group and the current hour; the thread  *)
(* that browses keeps the announcements of the own group, and dial_loop    *)
(* dials what sync_peers lists. The tags change every hour, and the clocks *)
(* of two devices may disagree about which hour it is.                     *)
(*                                                                         *)
(* advertise_sync takes two locks one after the other and its callers read *)
(* the group under a third: requests (create, join, leave) and the refresh *)
(* of dial_loop run on threads of their own and interleave between them.   *)
(*                                                                         *)
(* External: the mdns-sd daemon. Each device's daemon caches the last      *)
(* announcement it received from each other one and tells the browser when *)
(* that changes; an announcement replaced before it arrives is not seen.   *)
EXTENDS Integers, FiniteSets

CONSTANTS Devices,    \* the devices of the network
          Groups,     \* ids of groups
          Requests,   \* threads of one device that serve control requests
          None,
          MAX_SEEN,   \* most announced services remembered
          MaxHour,    \* bound: the hours are 0..MaxHour
          LastChange, \* bound: users change groups up to this hour
          MaxChanges  \* bound: changes of groups and refused announcements

VARIABLES clock,      \* the hour each device takes it to be
          group,      \* the group id in SyncState
          seen,       \* Seen: the group looked for, and its announcements
          sync_name,  \* what the device announces: a group and an hour
          cache,      \* external: what each daemon last received
          calls,      \* the calls under way
          changes     \* how many of these there were

vars == <<clock, group, seen, sync_name, cache, calls, changes>>

Tags == [group : Groups, hour : 0..MaxHour]

Threads == Requests \cup {"dial"}

Idle == [at |-> "idle", group |-> None]

TypeOK ==
    /\ clock \in [Devices -> 0..MaxHour]
    /\ group \in [Devices -> Groups \cup {None}]
    /\ seen \in [Devices -> [group : Groups \cup {None},
                             tags : [Devices -> Tags \cup {None}]]]
    /\ sync_name \in [Devices -> Tags \cup {None}]
    /\ cache \in [Devices -> [Devices -> Tags \cup {None}]]
    /\ changes \in 0..MaxChanges
    /\ calls \in [Devices -> [Threads -> [at : {"idle", "group", "seen", "name"},
                                          group : Groups \cup {None}]]]

NoTags == [d \in Devices |-> None]

\* A device comes up with the group of its state file, if it has one, and
\* start calls advertise.
Init ==
    /\ clock = [d \in Devices |-> 0]
    /\ group \in [Devices -> Groups \cup {None}]
    /\ seen = [d \in Devices |-> [group |-> None, tags |-> NoTags]]
    /\ sync_name = NoTags
    /\ cache = [d \in Devices |-> NoTags]
    /\ changes = 0
    /\ \E r \in Requests :
          calls = [d \in Devices |-> [t \in Threads |->
                     IF t = r THEN [Idle EXCEPT !.at = "group"] ELSE Idle]]

-----------------------------------------------------------------------------
\* The tags that a member of g may announce when the own clock says h.
wanted_tags_Exact(g, h) == {t \in Tags : t.group = g /\ t.hour = h}
wanted_tags(g, h) == {t \in Tags : t.group = g /\ t.hour \in {h - 1, h, h + 1}}

\* The devices that d would dial.
sync_peers(d) ==
    {e \in Devices \ {d} : seen[d].tags[e] \in wanted_tags(group[d], clock[d])}

\* What the browsing thread keeps after the announcement t (None: it was
\* withdrawn) of e arrived at d.
Heard(d, e, t) ==
    LET was == seen[d].tags
        full == Cardinality({f \in Devices : was[f] # None}) >= MAX_SEEN
    IN  IF t \notin wanted_tags(seen[d].group, clock[d]) THEN [was EXCEPT ![e] = None]
        ELSE IF full /\ was[e] = None THEN was
        ELSE [was EXCEPT ![e] = t]

Goes(d, r, at, g) == calls' = [calls EXCEPT ![d][r] = [at |-> at, group |-> g]]

-----------------------------------------------------------------------------
\* A user creates, joins or leaves a group (a device that was removed from
\* one joins the next without leaving): the state changes under its lock,
\* and advertise follows.
Change(d, r, g) ==
    /\ \A e \in Devices : clock[e] <= LastChange
    /\ changes < MaxChanges
    /\ calls[d][r] = Idle
    /\ g # group[d]
    /\ group' = [group EXCEPT ![d] = g]
    /\ changes' = changes + 1
    /\ Goes(d, r, "group", None)
    /\ UNCHANGED <<clock, seen, sync_name, cache>>

\* advertise reads the group.
Advertise(d, r) ==
    /\ calls[d][r].at = "group"
    /\ Goes(d, r, "seen", group[d])
    /\ UNCHANGED <<clock, group, seen, sync_name, cache, changes>>

\* dial_loop, which comes by every few seconds: the hour has changed.
refresh(d) ==
    /\ calls[d]["dial"] = Idle
    /\ sync_name[d] # None
    /\ sync_name[d].hour # clock[d]
    /\ Goes(d, "dial", "seen", sync_name[d].group)
    /\ UNCHANGED <<clock, group, seen, sync_name, cache, changes>>

\* advertise_sync, the first lock: which announcements to keep from now on.
LookFor(d, r) ==
    LET g == calls[d][r].group
    IN  /\ calls[d][r].at = "seen"
        /\ seen' = [seen EXCEPT ![d] =
                     [group |-> g, tags |-> IF @.group = g THEN @.tags ELSE NoTags]]
        /\ Goes(d, r, "name", g)
        /\ UNCHANGED <<clock, group, sync_name, cache, changes>>

\* The second lock: the old announcement is withdrawn and the new one
\* registered, with the hour of now.
Announce(d, r) ==
    LET g == calls[d][r].group
    IN  /\ calls[d][r].at = "name"
        /\ sync_name' = [sync_name EXCEPT ![d] =
                          IF g = None THEN None ELSE [group |-> g, hour |-> clock[d]]]
        /\ calls' = [calls EXCEPT ![d][r] = Idle]
        /\ UNCHANGED <<clock, group, seen, cache, changes>>

\* Or the daemon refuses the registration: nothing is announced, and
\* nothing tries again, since refresh goes by sync_name.
Unregistered(d, r) ==
    /\ changes < MaxChanges
    /\ calls[d][r].at = "name" /\ calls[d][r].group # None
    /\ changes' = changes + 1
    /\ sync_name' = [sync_name EXCEPT ![d] = None]
    /\ calls' = [calls EXCEPT ![d][r] = Idle]
    /\ UNCHANGED <<clock, group, seen, cache>>

\* The daemon of d learns what e announces now, and the browsing thread
\* takes the event. (d's own announcement comes back to it too; sync_peers
\* leaves it out, and so does this.)
Browse(d, e) ==
    /\ cache[d][e] # sync_name[e]
    /\ cache' = [cache EXCEPT ![d][e] = sync_name[e]]
    /\ seen' = [seen EXCEPT ![d].tags = Heard(d, e, sync_name[e])]
    /\ UNCHANGED <<clock, group, sync_name, calls, changes>>

\* The hour turns on d. The clocks of two devices are less than an hour
\* apart, and an hour is long for dial_loop, which comes by every 15 s, and
\* for any call.
Tick(d) ==
    /\ clock[d] < MaxHour
    /\ \A e \in Devices : clock[d] <= clock[e]
    /\ \A r \in Threads : calls[d][r] = Idle
    /\ sync_name[d] # None => sync_name[d].hour = clock[d]
    /\ clock' = [clock EXCEPT ![d] = @ + 1]
    /\ UNCHANGED <<group, seen, sync_name, cache, calls, changes>>

Steps(d) ==
    \/ refresh(d)
    \/ \E r \in Threads : Advertise(d, r) \/ LookFor(d, r) \/ Announce(d, r)
    \/ \E e \in Devices \ {d} : Browse(d, e)
    \/ Tick(d)

Next == \E d \in Devices :
    \/ Steps(d)
    \/ \E r \in Requests, g \in Groups \cup {None} : Change(d, r, g)
    \/ \E r \in Threads : Unregistered(d, r)

\* Threads go on, packets arrive in the end, hours pass: users do nothing.
Fairness == \A d \in Devices : WF_vars(Steps(d))

Spec == Init /\ [][Next]_vars /\ Fairness

-----------------------------------------------------------------------------
\* The announcement and the browser of d are about the group it is in. Two
\* calls that cross can leave them at a group that d has left.
Settled(d) ==
    /\ seen[d].group = group[d]
    /\ sync_name[d] # None /\ sync_name[d].group = group[d]

(* Two members of a group, whatever each of them did before and however    *)
(* their clocks differ, list each other once nobody changes groups any     *)
(* more: the announcements that were dropped because they came too early,  *)
(* or before the browser knew the group, are made up for by those of the   *)
(* next hours (discovery.rs wanted_tags, refresh, the browsing thread).    *)
MembersFound ==
    <>[](\A d, e \in Devices :
           d # e /\ Settled(d) /\ Settled(e) /\ group[d] = group[e] => e \in sync_peers(d))

(* What the module documentation says of who announces ("members of a      *)
(* group announce a tag derived from the group id"): a device at rest      *)
(* announces no group but its own. It does not hold: refresh takes the     *)
(* group from sync_name and announces it after a leave that came between.  *)
AnnouncesOwnGroup ==
    \A d \in Devices :
        /\ \A r \in Threads : calls[d][r] = Idle
        /\ sync_name[d] # None
        => sync_name[d].group = group[d]
=============================================================================
