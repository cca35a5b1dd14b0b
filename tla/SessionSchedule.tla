---- MODULE SessionSchedule ----
(* contracts/session_registry: the calendar of one mentor (every key of it *)
(* carries the mentor's address). Bookings, their status, the index of     *)
(* half-hour buckets that finds the neighbours of a new booking, and the   *)
(* counters that the quota and the abuse check read. Times are in units of *)
(* five minutes. The monitoring of prices, load and welfare may refuse a   *)
(* booking and changes nothing read here.                                  *)
EXTENDS Host, FiniteSets

CONSTANTS
    StartTimes, Lengths,  \* what is asked for
    MaxBookings, MaxCancels,  \* bounds: sessions registered and cancelled
    QuotaMaxSessions, \* RESOURCE_QUOTA_MAX_SESSIONS
    AbuseAfter        \* requests before the rate of cancellations counts

SlotSize == 6               \* SLOT_SIZE_SECS, half an hour
SchedulingBuffer == 3       \* SCHEDULING_BUFFER_SECS, a quarter of an hour
RequiredInteraction == 2    \* REQUIRED_INTERACTION_MINUTES
SessionStatuses == {"Pending", "Confirmed", "Completed", "Cancelled"}
Terminal == {"Completed", "Cancelled"}

VARIABLES
    bookings,   \* DataKey::Session(id), id in the order of registration
    buckets,    \* DataKey::MentorScheduleSlot(mentor, bucket): the session there
    active,     \* DataKey::ActiveSessions(mentor)
    requests,   \* DataKey::TotalRequests(mentor)
    cancellations,  \* DataKey::CancelledRequests(mentor)
    revived     \* history: sessions that went on after they had ended

schedule_vars == <<bookings, buckets, active, requests, cancellations, revived>>

ScheduleInit ==
    /\ now = 0
    /\ bookings = NothingStored /\ buckets = NothingStored
    /\ active = 0 /\ requests = 0 /\ cancellations = 0 /\ revived = {}

session_end(b) == b.start + b.length

\* Buckets from the one that holds the start to the one that holds the last moment.
buckets_of(from, to) == {k \in 0 .. to : from \div SlotSize <= k /\ k < (to + SlotSize - 1) \div SlotSize}

\* Mutant: no buffer after the session that is already there.
too_close_after(b, other) ==
    b.start < session_end(other) /\ other.start < session_end(b) + SchedulingBuffer

too_close(b, other) ==
    /\ b.start < session_end(other) + SchedulingBuffer
    /\ other.start < session_end(b) + SchedulingBuffer

\* The buckets around the request, widened by the buffer, name the sessions to compare with.
check_scheduling_conflicts(b) ==
    LET from == IF b.start < SchedulingBuffer THEN 0 ELSE b.start - SchedulingBuffer
    IN  \A k \in buckets_of(from, session_end(b) + SchedulingBuffer) \cap DOMAIN buckets :
          ~too_close(b, bookings[buckets[k]])

\* Later reservations take over a bucket that an earlier session also touches.
reserve_time_buckets(b, id) ==
    LET mine == buckets_of(b.start, session_end(b))
    IN  [k \in DOMAIN buckets \cup mine |-> IF k \in mine THEN id ELSE buckets[k]]

\* Whoever holds them.
release_time_buckets(b) ==
    [k \in DOMAIN buckets \ buckets_of(b.start, session_end(b)) |-> buckets[k]]

\* At least four fifths of the requests, this one included, were cancelled.
is_abusive == requests + 1 >= AbuseAfter /\ cancellations * 10 >= (requests + 1) * 8

\* By the backend; schedule_session also comes here once its commitment is verified.
register_session(start, length) ==
    LET id == requests + 1
        b == [start |-> start, length |-> length, status |-> "Pending"]
    IN  /\ requests < MaxBookings
        /\ length > 0
        /\ check_scheduling_conflicts(b)
        /\ active + 1 <= QuotaMaxSessions
        /\ ~is_abusive
        /\ bookings' = put(bookings, id, b)
        /\ buckets' = reserve_time_buckets(b, id)
        /\ active' = active + 1 /\ requests' = requests + 1
        /\ UNCHANGED <<now, cancellations, revived>>

\* Mutant: every terminal status lowers the counter, also one that follows another.
ends_again(old, status) == status \in Terminal

ends(old, status) == status \in Terminal /\ old \notin Terminal

\* By the backend or the session oracle: any status may follow any other.
update_status(id, status) ==
    LET b == bookings[id]
        newly_cancelled == status = "Cancelled" /\ b.status # "Cancelled"
    IN  /\ id \in DOMAIN bookings
        /\ status = "Completed" => b.length >= RequiredInteraction
        /\ bookings' = [bookings EXCEPT ![id].status = status]
        /\ active' = IF ends(b.status, status) /\ active > 0 THEN active - 1 ELSE active
        /\ cancellations' = IF newly_cancelled THEN cancellations + 1 ELSE cancellations
        /\ cancellations' <= MaxCancels
        /\ buckets' = IF newly_cancelled THEN release_time_buckets(b) ELSE buckets
        /\ revived' = IF b.status \in Terminal /\ status \notin {b.status, "Cancelled"}
                       THEN revived \cup {id} ELSE revived
        /\ UNCHANGED <<now, requests>>

cancel_session(id) == update_status(id, "Cancelled")

\* The override is a status change of the backend like any other.
emergency_scheduling_override(id) == update_status(id, "Confirmed")

ScheduleNext ==
    \/ \E start \in StartTimes, length \in Lengths : register_session(start, length)
    \/ \E id \in DOMAIN bookings :
         \/ \E status \in {"Pending", "Completed"} : update_status(id, status)
         \/ cancel_session(id)
         \/ emergency_scheduling_override(id)

-----------------------------------------------------------------------------
Standing == {id \in DOMAIN bookings : bookings[id].status # "Cancelled"}

\* All bookings so far started on a bucket boundary and none went on after it ended.
Aligned == revived = {} /\ \A id \in DOMAIN bookings : bookings[id].start % SlotSize = 0

\* check_scheduling_conflicts: no two standing bookings overlap or lie within the buffer, and
\* its index is exact (each bucket names the one standing session that touches it), in a
\* calendar whose bookings start on bucket boundaries.
AlignedCalendarIsExclusive ==
    Aligned =>
      /\ \A i, j \in Standing : i # j => ~too_close(bookings[i], bookings[j])
      /\ DOMAIN buckets =
           UNION {buckets_of(bookings[i].start, session_end(bookings[i])) : i \in Standing}
      /\ \A k \in DOMAIN buckets : buckets[k] \in Standing

\* The counter behind the quota is the number of sessions that are neither completed nor
\* cancelled, however often a status is reported, until one goes on after it ended.
ActiveIsExact ==
    revived = {} => active = Cardinality({id \in DOMAIN bookings : bookings[id].status \notin Terminal})

\* "Panics with "SessionConflict" if an overlap (including the mandatory buffer) is detected"
\* and buckets "are only used to *discover* nearby sessions": two sessions that were never
\* cancelled do not overlap. It fails for starts within a bucket: a second session takes the
\* bucket over and the first is no longer discovered.
NoDoubleBooking ==
    revived = {} =>
      \A i, j \in Standing : i # j =>
        (bookings[i].start >= session_end(bookings[j]) \/ bookings[j].start >= session_end(bookings[i]))
====
