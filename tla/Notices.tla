------------------------------- MODULE Notices -------------------------------
(***************************************************************************)
(* services/notification_planner: the pushes of one owner, planned by the   *)
(* worker from jobs notification.plan_user with quiet hours and a daily cap. *)
(* The scheduler makes a job of type care a day; jobs of the other types are *)
(* in the catalog, and only tests insert them.  Nothing sends a push.       *)
(*                                                                         *)
(* One worker plans at a time, with the now of its tick, in a transaction    *)
(* that reads the preferences, counts, reads the devices and writes; the     *)
(* preferences and devices may change in between.  How often a job is tried  *)
(* is in Outbox, how long a spirit is idle in SpiritState, push_on in       *)
(* Profile: whether a push is wanted, and which devices are enabled, is     *)
(* chosen at every use.                                                     *)
(***************************************************************************)
EXTENDS Integers, FiniteSets

CONSTANTS
    NoticeDevices, \* installations of the owner
    NoticeEvents,  \* resources of jobs other than care and promise
    NoticeZones,   \* offsets of time zones, in hours
    NoticeDay,     \* hours of a day
    QuietHours,    \* dnd_start and dnd_end that the owner may have
    DailyCap,      \* DAILY_ACTIVE_NOTIFICATION_LIMIT, 2
    MaxHour,       \* bound: the clock
    NoticeLag      \* bound: how old the now of a tick gets

ASSUME NoticesAssumption ==
    /\ NoticeZones \subseteq Nat /\ NoticeDay \in Nat \ {0}
    /\ QuietHours \subseteq [start : 0 .. NoticeDay - 1, end : 0 .. NoticeDay - 1]
    /\ {DailyCap, MaxHour, NoticeLag} \subseteq Nat

VARIABLES
    hour,        \* the clock
    noteZone,    \* timezone of user_preferences
    quiet,       \* dnd_start and dnd_end
    noticeJobs,  \* outbox_events of type notification.plan_user
    planner,     \* the pass of the worker
    notices      \* notification_deliveries, with the preferences of their plan

noticeVars == <<hour, noteZone, quiet, noticeJobs, planner, notices>>

NoticeDate(t, z) == (t + z) \div NoticeDay
LocalTime(t, z) == (t + z) % NoticeDay

\* The dedupe_key of a job: a care names the local date of its scan.
CareJobs == [type : {"care"}, of : 0 .. NoticeDate(MaxHour, NoticeDay)]
EventJobs == [type : {"event"}, of : NoticeEvents]
NoticeJobs == CareJobs \cup EventJobs

\* Of what is suppressed, instead of scheduled_for.
NotSent == -1

NoPlan == [at |-> NotSent, day |-> -1, zone |-> 0, quiet |-> [start |-> 0, end |-> 0]]

NoPass == [job |-> [type |-> "none", of |-> 0], now |-> 0, plan |-> NoPlan]

NoticesInit ==
    /\ hour = 0
    /\ noteZone \in NoticeZones
    /\ quiet \in QuietHours
    /\ noticeJobs = [j \in NoticeJobs |-> IF j \in EventJobs THEN "pending" ELSE "none"]
    /\ planner = NoPass
    /\ notices = {}

Nows == {n \in hour - NoticeLag .. hour : n >= 0}

-----------------------------------------------------------------------------
(* domain/notifications. *)

\* At t in zone z, with quiet hours q.
InDnd(t, z, q) ==
    LET l == LocalTime(t, z) IN
    IF q.start <= q.end THEN q.start <= l /\ l < q.end
    ELSE l >= q.start \/ l < q.end

\* Mutation of NextDndEnd: the end of the same day.
NextDndEndToday(t, z, q) == t - LocalTime(t, z) + q.end

\* The end of the quiet hours, of the next day if they began before midnight.
NextDndEnd(t, z, q) ==
    LET today == t - LocalTime(t, z) + q.end IN
    IF LocalTime(t, z) >= q.end THEN today + NoticeDay ELSE today

-----------------------------------------------------------------------------
(* The scheduler, the owner and the clock. *)

\* enqueue_due_notification_plan_jobs: a care that is due, outside of quiet hours.
ScanNotices(now) ==
    LET job == [type |-> "care", of |-> NoticeDate(now, noteZone)] IN
    /\ ~InDnd(now, noteZone, quiet)
    /\ noticeJobs[job] = "none"
    /\ noticeJobs' = [noticeJobs EXCEPT ![job] = "pending"]
    /\ UNCHANGED <<hour, noteZone, quiet, planner, notices>>

\* PATCH /spirit: timezone, dnd_start and dnd_end.  What is planned stays where it is.
PatchPreferences ==
    /\ noteZone' \in NoticeZones
    /\ quiet' \in QuietHours
    /\ <<noteZone', quiet'>> # <<noteZone, quiet>>
    /\ UNCHANGED <<hour, noticeJobs, planner, notices>>

NextHour ==
    /\ hour < MaxHour
    /\ hour' = hour + 1
    /\ UNCHANGED <<noteZone, quiet, noticeJobs, planner, notices>>

-----------------------------------------------------------------------------
(* process_due_notification_plans. *)

\* A pass plans the jobs of its batch one after the other, each as if it had been
\* claimed alone at the now of the tick.
ClaimNotice(j, now) ==
    /\ planner = NoPass
    /\ noticeJobs[j] = "pending"
    /\ noticeJobs' = [noticeJobs EXCEPT ![j] = "claimed"]
    /\ planner' = [job |-> j, now |-> now, plan |-> NoPlan]
    /\ UNCHANGED <<hour, noteZone, quiet, notices>>

\* Mutation of UsedOn: what is scheduled for later is not counted.
UsedOnDue(day, z) ==
    Cardinality({[type |-> n.type, of |-> n.of, day |-> n.day] :
        n \in {m \in notices : m.at <= planner.now /\ NoticeDate(m.at, z) = day}})

\* count_active_events: distinct keys, by the date at which they are scheduled.
UsedOn(day, z) ==
    Cardinality({[type |-> n.type, of |-> n.of, day |-> n.day] :
        n \in {m \in notices : NoticeDate(m.at, z) = day}})

\* plan_notification_job, up to the devices: the day it is for, and when it is sent.
Planned(j, now, wanted) ==
    LET z == noteZone
        day == NoticeDate(now, z)
        end == NextDndEnd(now, z, quiet)
        later == NoticeDate(end, z)
        plan(at, d) == [at |-> at, day |-> d, zone |-> z, quiet |-> quiet]
        suppressed == [NoPlan EXCEPT !.day = day]
    IN
    IF ~wanted \/ UsedOn(day, z) >= DailyCap THEN suppressed
    ELSE IF ~InDnd(now, z, quiet) THEN plan(now, day)
    ELSE IF j.type = "care" \/ (later # day /\ UsedOn(later, z) >= DailyCap) THEN suppressed
    ELSE plan(end, later)

\* wanted: push_on, and a care is due.
LookNotice(wanted) ==
    /\ planner # NoPass /\ planner.plan = NoPlan
    /\ planner' = [planner EXCEPT !.plan = Planned(planner.job, planner.now, wanted)]
    /\ UNCHANGED <<hour, noteZone, quiet, noticeJobs, notices>>

\* The dedupe_key names the spirit of a care, an event, and the day.
Delivery(device) ==
    [type |-> planner.job.type,
     of |-> IF planner.job.type = "care" THEN 0 ELSE planner.job.of,
     day |-> planner.plan.day, device |-> device, at |-> planner.plan.at,
     zone |-> planner.plan.zone, quiet |-> planner.plan.quiet]

\* upsert_notification_delivery: one row a key and device.
Upserted(new) ==
    LET Key(n) == [type |-> n.type, of |-> n.of, day |-> n.day, device |-> n.device] IN
    {n \in notices : \A m \in new : Key(n) # Key(m)} \cup new

\* The rows and complete_outbox_job, which is fenced: the job may be reclaimed, and
\* the rows are committed all the same.  The row of what is suppressed, for whatever
\* reason, is left out: nothing reads it.
PlanNotice(devices) ==
    /\ planner.plan # NoPlan
    /\ notices' = IF planner.plan.at = NotSent THEN notices
                  ELSE Upserted({Delivery(d) : d \in devices})
    /\ noticeJobs' = [noticeJobs EXCEPT ![planner.job] = IF @ = "claimed" THEN "done" ELSE @]
    /\ planner' = NoPass
    /\ UNCHANGED <<hour, noteZone, quiet>>

\* An exception or the end of the process ends the pass.
CrashNotices ==
    /\ planner # NoPass
    /\ planner' = NoPass
    /\ UNCHANGED <<hour, noteZone, quiet, noticeJobs, notices>>

\* reclaim_expired_outbox, whatever the pass does.  A job that is dead is as one that
\* stays claimed.
ReclaimNotice(j) ==
    /\ noticeJobs[j] = "claimed"
    /\ noticeJobs' = [noticeJobs EXCEPT ![j] = "pending"]
    /\ UNCHANGED <<hour, noteZone, quiet, planner, notices>>

NoticesNext ==
    \/ \E now \in Nows : ScanNotices(now) \/ \E j \in NoticeJobs : ClaimNotice(j, now)
    \/ \E j \in NoticeJobs : ReclaimNotice(j)
    \/ \E wanted \in BOOLEAN : LookNotice(wanted)
    \/ \E devices \in SUBSET NoticeDevices : PlanNotice(devices)
    \/ CrashNotices \/ PatchPreferences \/ NextHour

NoticesSpec == NoticesInit /\ [][NoticesNext]_noticeVars
-----------------------------------------------------------------------------
(* Properties. *)

NoticesTypeOK ==
    /\ \A j \in NoticeJobs : noticeJobs[j] \in {"none", "pending", "claimed", "done"}

\* At most two pushes a day (docs/p17-integration.md:22), of all that were planned in
\* one time zone: whatever is planned again, for the next morning, for a day that an
\* earlier job was late for, or in another zone in between.
DayCapped ==
    \A z \in NoticeZones : \A day \in {NoticeDate(n.at, z) : n \in notices} :
        Cardinality({[type |-> n.type, of |-> n.of, day |-> n.day] :
            n \in {m \in notices : m.zone = z /\ NoticeDate(m.at, z) = day}}) <= DailyCap

\* No push is scheduled in the quiet hours, in zone and times, that its plan has read,
\* however the owner changes them meanwhile, and none before it was planned.
QuietKept ==
    /\ \A n \in notices : ~InDnd(n.at, n.zone, n.quiet)
    /\ planner.plan # NoPlan => planner.plan.at = NotSent \/ planner.plan.at >= planner.now

\* What is planned keeps to the cap and to the quiet hours.
NoticesInv == NoticesTypeOK /\ DayCapped /\ QuietKept
=============================================================================
