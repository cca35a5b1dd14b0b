---- MODULE Subscription ----
(* contracts/subscription: monthly plans a learner pays in advance and     *)
(* renews from a pre-authorized allowance, and streams that pay a mentor   *)
(* by the second. One learner; the plans' prices are constants.            *)
EXTENDS Host, Sequences

CONSTANTS
    Price, SessionsPerMonth,   \* of the plan
    Month,                     \* SECONDS_PER_MONTH
    RenewalGrace,              \* RENEWAL_GRACE_SECS
    ExpiryGrace,               \* SUBSCRIPTION_EXPIRY_GRACE_SECS
    SubFee,                    \* PlatformFeeBps
    Allowances,                \* amounts authorized for renewals
    GamingAfter, GamingVolume, \* the limits of detect_fee_gaming
    StreamRate, StreamDeposits, \* rate_per_second and deposits of streams
    Wallet,                    \* the learner's tokens at the start
    MaxSubs, MaxStreams, MaxAuthorizations, MaxSubTime   \* bounds

\* Amounts and times are not negative, a month is not empty, and the fee is checked to be a share.
ASSUME SubscriptionAssumption ==
    /\ Price \in Nat /\ SessionsPerMonth \in Nat /\ Month \in Nat \ {0}
    /\ RenewalGrace \in Nat /\ ExpiryGrace \in Nat /\ SubFee \in 0..10000
    /\ Allowances \subseteq Nat /\ StreamRate \in Nat /\ StreamDeposits \subseteq Nat /\ Wallet \in Nat

VARIABLES
    wallet,          \* the learner's balance
    sub_treasury,    \* fees received by the treasury
    sub_escrow,      \* the escrow address' balance
    mentor_revenue,  \* MentorRevenue
    subs,            \* Sub(0 ..), from 1 here, with the RenewalAllowance of each
    grace_renewals,  \* GraceRenewalCount and GraceRenewalVolume of the learner
    streams,         \* StreamSub(0 ..), from 1 here
    sub_history,     \* history: per subscription the payments, sessions and what was authorized
    authorizations   \* history: the number of authorize_renewal calls

subscription_vars ==
    <<wallet, sub_treasury, sub_escrow, mentor_revenue, subs, grace_renewals, streams,
      sub_history, authorizations>>

SubscriptionInit ==
    /\ now = 0
    /\ wallet = Wallet /\ sub_treasury = 0 /\ sub_escrow = 0 /\ mentor_revenue = 0
    /\ subs = << >> /\ grace_renewals = [count |-> 0, volume |-> 0] /\ streams = << >>
    /\ sub_history = << >> /\ authorizations = 0

\* The fee is rounded down, the mentor's part goes to the escrow.
route_payment(amount) ==
    LET fee == (amount * SubFee) \div 10000 IN
    /\ amount <= wallet
    /\ wallet' = wallet - amount
    /\ sub_treasury' = sub_treasury + fee
    /\ sub_escrow' = sub_escrow + (amount - fee)
    /\ mentor_revenue' = mentor_revenue + (amount - fee)

subscribe ==
    /\ Len(subs) < MaxSubs
    /\ route_payment(Price)
    /\ subs' = Append(subs, [next_billing |-> now + Month, used |-> 0, status |-> "Active",
                             allowance |-> 0])
    /\ sub_history' = Append(sub_history, [since |-> now, payments |-> 1, sessions |-> 0,
                                           authorized |-> 0, pulled |-> 0])
    /\ UNCHANGED <<now, grace_renewals, streams, authorizations>>

lapsed(s) == now >= s.next_billing + ExpiryGrace

\* Mutant: the allowance is checked and not used up.
allowance_after_kept(s) == s.allowance

allowance_after(s) == s.allowance - Price

\* Mutant: the next billing date is counted from the renewal without the early minute.
next_billing_after_now(s) == now + RenewalGrace

next_billing_after(s) == s.next_billing + Month

expired(s) == [s EXCEPT !.status = "Expired", !.allowance = 0]

\* Too late, or not enough allowance or money: the subscription expires, and the call succeeds.
renew_expires(i) ==
    LET s == subs[i] IN
    /\ s.status = "Active"
    /\ lapsed(s) \/ (now + RenewalGrace >= s.next_billing /\ (s.allowance < Price \/ wallet < Price))
    /\ subs' = [subs EXCEPT ![i] = expired(s)]
    /\ UNCHANGED <<now, wallet, sub_treasury, sub_escrow, mentor_revenue, grace_renewals, streams,
                   sub_history, authorizations>>

\* Early renewals are counted for life, and too many of too little volume end all renewals of
\* the learner, in time or early.
renew(i) ==
    LET s == subs[i]
        early == now < s.next_billing
        counted == IF early THEN [count |-> grace_renewals.count + 1,
                                  volume |-> grace_renewals.volume + Price]
                   ELSE grace_renewals
    IN  /\ s.status = "Active" /\ ~lapsed(s) /\ now + RenewalGrace >= s.next_billing
        /\ s.allowance >= Price
        /\ ~(counted.count > GamingAfter /\ counted.volume < GamingVolume)
        /\ grace_renewals' = counted
        /\ route_payment(Price)
        /\ subs' = [subs EXCEPT ![i].allowance = allowance_after(s),
                                ![i].next_billing = next_billing_after(s), ![i].used = 0]
        /\ sub_history' = [sub_history EXCEPT ![i].payments = @ + 1, ![i].pulled = @ + Price]
        /\ UNCHANGED <<now, streams, authorizations>>

\* A cancelled or paused subscription keeps its allowance; nothing resumes a paused one.
cancel_subscription(i) ==
    /\ subs[i].status # "Cancelled"
    /\ subs' = [subs EXCEPT ![i].status = "Cancelled"]
    /\ UNCHANGED <<now, wallet, sub_treasury, sub_escrow, mentor_revenue, grace_renewals, streams,
                   sub_history, authorizations>>

pause_subscription(i) ==
    /\ subs[i].status = "Active"
    /\ subs' = [subs EXCEPT ![i].status = "Paused"]
    /\ UNCHANGED <<now, wallet, sub_treasury, sub_escrow, mentor_revenue, grace_renewals, streams,
                   sub_history, authorizations>>

\* Mutant: a session more than the plan has.
sessions_left_one_more(s) == s.used <= SessionsPerMonth

sessions_left(s) == s.used < SessionsPerMonth

\* On a lapsed subscription the call fails, and its change to Expired is undone with it.
use_session(i) ==
    /\ subs[i].status = "Active" /\ ~lapsed(subs[i])
    /\ sessions_left(subs[i])
    /\ subs' = [subs EXCEPT ![i].used = @ + 1]
    /\ sub_history' = [sub_history EXCEPT ![i].sessions = @ + 1]
    /\ UNCHANGED <<now, wallet, sub_treasury, sub_escrow, mentor_revenue, grace_renewals, streams,
                   authorizations>>

\* Expires without taking the allowance away.
check_expiry(i) ==
    /\ subs[i].status = "Active" /\ lapsed(subs[i])
    /\ subs' = [subs EXCEPT ![i].status = "Expired"]
    /\ UNCHANGED <<now, wallet, sub_treasury, sub_escrow, mentor_revenue, grace_renewals, streams,
                   sub_history, authorizations>>

\* Replaces the allowance, whatever the status.
authorize_renewal(i, max) ==
    /\ authorizations < MaxAuthorizations
    /\ authorizations' = authorizations + 1
    /\ subs' = [subs EXCEPT ![i].allowance = max]
    /\ sub_history' = [sub_history EXCEPT ![i].authorized = max, ![i].pulled = 0]
    /\ UNCHANGED <<now, wallet, sub_treasury, sub_escrow, mentor_revenue, grace_renewals, streams>>

subscribe_streaming(deposit) ==
    /\ Len(streams) < MaxStreams
    /\ deposit <= wallet
    /\ wallet' = wallet - deposit
    /\ sub_escrow' = sub_escrow + deposit
    /\ streams' = Append(streams, [start |-> now, deposit |-> deposit, withdrawn |-> 0,
                                   active |-> TRUE, ended_at |-> 0, paid |-> 0, refunded |-> 0])
    /\ UNCHANGED <<now, sub_treasury, mentor_revenue, subs, grace_renewals, sub_history,
                   authorizations>>

\* By the rate and the time until now or the end, at most the deposit.
earned(st) ==
    LET e == ((IF st.active THEN now ELSE st.ended_at) - st.start) * StreamRate
    IN  IF e < st.deposit THEN e ELSE st.deposit

withdraw_earned(i) ==
    LET due == earned(streams[i]) - streams[i].withdrawn IN
    /\ due > 0 /\ due <= sub_escrow
    /\ streams' = [streams EXCEPT ![i].withdrawn = @ + due, ![i].paid = @ + due]
    /\ sub_escrow' = sub_escrow - due
    /\ UNCHANGED <<now, wallet, sub_treasury, mentor_revenue, subs, grace_renewals, sub_history,
                   authorizations>>

\* Mutant: the learner gets what the last payment to the mentor leaves.
learner_refund_of_last(st) == st.deposit - (earned(st) - st.withdrawn)

learner_refund(st) == st.deposit - earned(st)

cancel_streaming(i) ==
    LET st == streams[i]
        due == earned(st) - st.withdrawn
    IN  /\ st.active
        /\ due + learner_refund(st) <= sub_escrow
        /\ streams' = [streams EXCEPT ![i] =
             [st EXCEPT !.active = FALSE, !.ended_at = now, !.withdrawn = earned(st),
                        !.paid = @ + due, !.refunded = learner_refund(st)]]
        /\ sub_escrow' = sub_escrow - due - learner_refund(st)
        /\ wallet' = wallet + learner_refund(st)
        /\ UNCHANGED <<now, sub_treasury, mentor_revenue, subs, grace_renewals, sub_history,
                       authorizations>>

SubscriptionTick == CloseLedger(MaxSubTime) /\ UNCHANGED subscription_vars

SubscriptionNext ==
    \/ subscribe
    \/ \E i \in DOMAIN subs :
         \/ renew_expires(i) \/ renew(i) \/ cancel_subscription(i) \/ pause_subscription(i)
         \/ use_session(i) \/ check_expiry(i) \/ \E max \in Allowances : authorize_renewal(i, max)
    \/ \E d \in StreamDeposits : subscribe_streaming(d)
    \/ \E i \in DOMAIN streams : withdraw_earned(i) \/ cancel_streaming(i)
    \/ SubscriptionTick

SubscriptionSpec == SubscriptionInit /\ [][SubscriptionNext]_<<now, subscription_vars>>

-----------------------------------------------------------------------------
\* Renewals, which anybody may call and repeat, take no more than the learner authorized last.
AllowanceIsTheLimit ==
    \A i \in DOMAIN subs : sub_history[i].pulled <= sub_history[i].authorized

\* A month is charged once: the number of payments is at most one more than the months begun
\* before the early minute, whoever calls renew how often and when.
MonthsAreChargedOnce ==
    \A i \in DOMAIN subs :
        sub_history[i].payments <= 1 + (now - sub_history[i].since + RenewalGrace) \div Month

\* Sessions are paid for: over the life of a subscription, renewals, early renewals and
\* expiries included, at most the plan's number per payment are used.
SessionsArePaid ==
    \A i \in DOMAIN subs : sub_history[i].sessions <= sub_history[i].payments * SessionsPerMonth

\* A stream pays out its deposit at most once, to the mentor and the learner together, and in
\* full when it is cancelled; the escrow address still has what it owes to streams and mentors.
StreamsPayTheirDeposit ==
    /\ \A i \in DOMAIN streams :
         LET st == streams[i] IN
         /\ st.paid + st.refunded <= st.deposit
         /\ ~st.active => st.paid + st.refunded = st.deposit
    /\ sub_escrow >= mentor_revenue
====
