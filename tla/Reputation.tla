---- MODULE Reputation ----
(* contracts/reputation: the reviews of one mentor, the running sum and    *)
(* count behind the average, disputes of a review and the conduct          *)
(* counters. Whether a review needs investigation comes from the           *)
(* heuristics over times and pairs and is left open here.                  *)
EXTENDS Host, Sequences, FiniteSets, FiniteSetsExt

CONSTANTS
    Sessions,           \* sessions with the mentor
    Ratings,            \* ratings given
    AdjustedRatings,    \* ratings set by an arbitrator, which nothing checks
    DisputeWindow,      \* REVIEW_DISPUTE_WINDOW_SECS
    MaxUpdates,         \* bound on direct updates
    ReviewClock         \* bound on time

VARIABLES
    reviews,        \* DataKey::Review(session): rating, time, a partial function
    review_disputes,\* DataKey::ReviewDispute(session): status, time filed
    rating_sum, rating_count,       \* MentorRatingSum, MentorReviewCount
    complaints, low_streak,         \* MentorComplaintCount, MentorConsecutiveLowQuality
    unreviewed,     \* history: ratings that update_reputation added
    migrated        \* history: a legacy rating replaced the sums

reputation_vars ==
    <<reviews, review_disputes, rating_sum, rating_count, complaints, low_streak,
      unreviewed, migrated>>

ReputationInit ==
    /\ now = 0
    /\ reviews = NothingStored /\ review_disputes = NothingStored
    /\ rating_sum = 0 /\ rating_count = 0 /\ complaints = 0 /\ low_streak = 0
    /\ unreviewed = << >> /\ migrated = FALSE

valid_rating(r) == 1 <= r /\ r <= 5

\* The counters of track_mentor_conduct; every event that is not a low rating ends the streak.
track_mentor_conduct(low_quality, complaint) ==
    /\ complaints' = IF complaint THEN complaints + 1 ELSE complaints
    /\ low_streak' = IF low_quality THEN low_streak + 1 ELSE 0

\* By the learner, once per session, after the escrow contract says the session was released.
submit_review(s, rating, investigation_required) ==
    /\ valid_rating(rating) /\ s \notin DOMAIN reviews
    /\ reviews' = put(reviews, s, [rating |-> rating, at |-> now])
    /\ IF investigation_required THEN track_mentor_conduct(rating <= 2, FALSE)
       ELSE UNCHANGED <<complaints, low_streak>>
    /\ rating_sum' = rating_sum + rating /\ rating_count' = rating_count + 1
    /\ UNCHANGED <<now, review_disputes, unreviewed, migrated>>

\* By the mentor, within the window, once per session for good.
file_review_dispute(s) ==
    /\ s \in DOMAIN reviews /\ s \notin DOMAIN review_disputes
    /\ now <= reviews[s].at + DisputeWindow
    /\ review_disputes' = put(review_disputes, s, [status |-> "pending", at |-> now])
    /\ track_mentor_conduct(FALSE, TRUE)
    /\ UNCHANGED <<now, reviews, rating_sum, rating_count, unreviewed, migrated>>

\* checked_sub(..).unwrap_or(0)
less(x, y) == IF y <= x THEN x - y ELSE 0

\* Mutant: the dispute stays open when its review is removed.
settled_if_kept(remove_review, adjusted) ==
    IF remove_review THEN "pending" ELSE IF adjusted # 0 THEN "adjusted" ELSE "rejected"

\* The status of a resolved dispute; adjusted is 0 for None.
settled(remove_review, adjusted) ==
    IF remove_review THEN "removed" ELSE IF adjusted # 0 THEN "adjusted" ELSE "rejected"

\* Mutant: the new rating is added to the old one.
adjusted_sum_twice(old, new) == rating_sum + new

adjusted_sum(old, new) == less(rating_sum, old) + new

\* By whoever calls as the arbitrator: remove the review, change its rating or reject.
resolve_review_dispute(s, remove_review, adjusted) ==
    LET old == reviews[s].rating
    IN  /\ s \in DOMAIN review_disputes /\ review_disputes[s].status = "pending"
        /\ s \in DOMAIN reviews
        /\ review_disputes' = [review_disputes EXCEPT ![s].status = settled(remove_review, adjusted)]
        /\ \/ /\ remove_review
              /\ reviews' = del(reviews, s)
              /\ rating_sum' = less(rating_sum, old) /\ rating_count' = less(rating_count, 1)
           \/ /\ ~remove_review /\ adjusted # 0
              /\ reviews' = [reviews EXCEPT ![s].rating = adjusted]
              /\ rating_sum' = adjusted_sum(old, adjusted)
              /\ UNCHANGED rating_count
           \/ /\ ~remove_review /\ adjusted = 0
              /\ UNCHANGED <<reviews, rating_sum, rating_count>>
        /\ UNCHANGED <<now, complaints, low_streak, unreviewed, migrated>>

\* Anybody; a rating without a review.
update_reputation(rating) ==
    /\ valid_rating(rating) /\ Len(unreviewed) < MaxUpdates
    /\ rating_sum' = rating_sum + rating /\ rating_count' = rating_count + 1
    /\ unreviewed' = Append(unreviewed, rating)
    /\ UNCHANGED <<now, reviews, review_disputes, complaints, low_streak, migrated>>

\* Replaces the books, whatever reviews there are.
migrate_legacy_rating(rating, count) ==
    /\ rating_sum' = rating * count /\ rating_count' = count
    /\ migrated' = TRUE
    /\ UNCHANGED <<now, reviews, review_disputes, complaints, low_streak, unreviewed>>

ReputationTick == CloseLedger(ReviewClock) /\ UNCHANGED reputation_vars

ReputationNext ==
    \/ \E s \in Sessions :
         \/ \E r \in Ratings, flagged \in BOOLEAN : submit_review(s, r, flagged)
         \/ file_review_dispute(s)
         \/ \E remove_review \in BOOLEAN, r \in AdjustedRatings \cup {0} :
              resolve_review_dispute(s, remove_review, r)
    \/ \E r \in Ratings : update_reputation(r) \/ migrate_legacy_rating(r, 1)
    \/ ReputationTick

-----------------------------------------------------------------------------
\* The sum and the count behind the average are those of the reviews that stand, at their last
\* rating, and of the direct updates, whatever was disputed, removed, adjusted and reviewed
\* again, as long as no legacy rating was migrated over them.
RatingBooksAreExact ==
    ~migrated =>
      /\ rating_count = Cardinality(DOMAIN reviews) + Len(unreviewed)
      /\ rating_sum = MapThenSumSet(LAMBDA s : reviews[s].rating, DOMAIN reviews)
                      + MapThenSumSet(LAMBDA i : unreviewed[i], DOMAIN unreviewed)

\* A pending dispute is about the review that was there when it was filed: resolving it never
\* removes or changes a review that was submitted later under the same session.
DisputeMeetsItsReview ==
    \A s \in DOMAIN review_disputes : review_disputes[s].status = "pending" =>
      s \in DOMAIN reviews /\ reviews[s].at <= review_disputes[s].at
        /\ review_disputes[s].at <= reviews[s].at + DisputeWindow
====
