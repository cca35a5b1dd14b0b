----------------------------- MODULE MCPlatform -----------------------------
(***************************************************************************)
(* Small instances, for TLC, of the contracts and shared checks around the *)
(* sessions: oracles, credentials, monitors, guards, assessments and the   *)
(* care for learners and mentors. They share no state but the clock, so    *)
(* each part is explored while the others are at rest.                     *)
(***************************************************************************)
EXTENDS Oracles, Credentials, Monitors, Guards, Assessments, SessionCare

CONSTANTS
    Explored,   \* the parts to explore
    c1, c2      \* chunks of a recording

VARIABLE contract   \* the part explored in this behaviour

\* Answers of three sources of which enough agree, one contradicts, or one is unsure.
result(src, ok, c) == [source |-> src, valid |-> ok, confidence |-> c]
CredValidations ==
    {{result("a", TRUE, 7000), result("b", TRUE, 7000), result("c", TRUE, 7000)},
     {result("a", TRUE, 9000), result("b", TRUE, 9000), result("c", FALSE, 9000)},
     {result("a", TRUE, 6000), result("b", TRUE, 7000), result("c", TRUE, 7000)}}
CredBundleSessions == {<<"s1", "s2">>}

\* Ledger entries that agree with their rate and cap, and entries that do not.
entry(source, amount, bps, gross, ref) ==
    [source |-> source, amount |-> amount, bps |-> bps, gross |-> gross, account |-> "a", ref |-> ref]
MonitorEntries ==
    {entry("EscrowFee", 5, 500, 100, "r1"), entry("EscrowFee", 4, 500, 100, "r2"),
     entry("ReferralReward", 20, 0, 100, "r1"), entry("ReferralReward", 50, 10000, 100, "r2"),
     entry("TreasuryAlloc", -5, 0, 5, "r1"), entry("InsuranceYield", 2, 0, 0, "r1"),
     entry("TreasuryDeposit", -5, 20000, 5, "r2")}
MonitorCaps ==
    {[lifetime |-> 60, global |-> 60, multiplier |-> 10000],
     [lifetime |-> 100, global |-> 50, multiplier |-> 20000]}
MonitorConfigs ==
    {[warn |-> 2, disputes |-> 1, volume |-> 3], [warn |-> 1, disputes |-> 2, volume |-> 1]}
MonitorEscrows ==
    {[status |-> "Active", total |-> 2, done |-> 0, at |-> 0],
     [status |-> "Released", total |-> 2, done |-> 2, at |-> 1],
     [status |-> "Resolved", total |-> 0, done |-> 0, at |-> 0]}

\* Limits per day, per month and per transaction.
LowLimits == <<2, 3, 4>>
HighLimits == <<3, 4, 6>>

\* How many reviews each reviewer of a network gave, and prices over time.
Splits == {<< >>, <<4>>, <<3, 3, 3, 3>>, <<5, 4, 1>>}
Moves ==
    {<< >>, <<<<0, 100>>, <<1, 150>>>>,
     <<<<0, 100>>, <<0, 100>>, <<1, 300>>, <<1, 200>>, <<2, 200>>, <<2, 100>>, <<5, 900>>>>}

\* A recording and the one that repeats its last chunk.
Chunks == {<<c1, c2, c2>>, <<c1, c2, c2, c2>>}

OracleParts ==
    {"prices", "validators", "calendar", "attested"}
CredentialParts ==
    {"certificates", "learning", "kyc", "privacy", "verification", "expertise",
     "bundles", "merits"}
MonitorParts ==
    {"reconciliation", "dispute_stats", "metrics", "stats", "analytics", "renewals",
     "subscribers", "reports", "detector", "credit", "templates", "forum"}
GuardParts ==
    {"rbac", "velocity", "limiter", "breaker", "registry", "rotation", "keys",
     "consensus", "guard", "intents"}
OversightParts ==
    {"market", "community", "outcomes", "baseline", "conduct", "ratings"}
CareParts ==
    {"care", "load", "access", "recordings", "descriptions", "availability",
     "wellness", "specialties", "pricing", "prices_set"}

\* The first super admin is any of them: they are interchangeable.
AtRest ==
    /\ rbac.super_admin = CHOOSE a \in Officers : TRUE
    /\ contract # "assessments" => assessed \in NewDataAccessMonitoring

MCInit ==
    /\ contract \in Explored
    /\ OracleInit /\ AttestedInit /\ CredentialsInit /\ MonitorsInit
    /\ RbacInit /\ VelocityInit /\ LimiterInit /\ BreakerInit /\ RegistryInit /\ KeysInit
    /\ ConsensusInit /\ GuardInit /\ IntentsInit
    /\ AssessmentsInit
    /\ MarketInit /\ CommunityInit
    /\ CareInit /\ AccessInit /\ RecordingsInit /\ PlanInit /\ WellnessInit /\ PricingInit
    /\ AtRest

resting(names, state) == IF contract \in names THEN TRUE ELSE UNCHANGED state

MCNext ==
    /\ \/ contract = "prices" /\ PriceNext /\ UNCHANGED attested_vars
       \/ contract = "validators" /\ ValidatorNext /\ UNCHANGED attested_vars
       \/ contract = "calendar" /\ CalendarNext /\ UNCHANGED attested_vars
       \/ contract = "attested" /\ AttestedNext /\ UNCHANGED oracle_vars
       \/ contract = "certificates" /\ CertificatesNext
       \/ contract = "learning" /\ LearningNext
       \/ contract = "kyc" /\ KycNext
       \/ contract = "privacy" /\ PrivacyNext
       \/ contract = "verification" /\ VerificationNext
       \/ contract = "expertise" /\ ExpertiseNext
       \/ contract = "bundles" /\ BundlesNext
       \/ contract = "merits" /\ MeritNext
       \/ contract = "reconciliation" /\ ReconciliationNext
       \/ contract = "dispute_stats" /\ DisputeStatsNext
       \/ contract = "metrics" /\ MetricsNext
       \/ contract = "stats" /\ StatsNext
       \/ contract = "analytics" /\ AnalyticsNext
       \/ contract = "renewals" /\ RenewalsNext
       \/ contract = "subscribers" /\ SubscribersNext
       \/ contract = "reports" /\ ReportsNext
       \/ contract = "detector" /\ DetectorNext
       \/ contract = "credit" /\ CreditNext
       \/ contract = "templates" /\ TemplatesNext
       \/ contract = "forum" /\ ForumNext
       \/ contract = "rbac" /\ RbacNext
       \/ contract = "velocity" /\ VelocityNext
       \/ contract = "limiter" /\ LimiterNext
       \/ contract = "breaker" /\ BreakerNext
       \/ contract = "registry" /\ RegistryNext
       \/ contract = "rotation" /\ RotationNext
       \/ contract = "keys" /\ KeysNext
       \/ contract = "consensus" /\ ConsensusNext
       \/ contract = "guard" /\ GuardNext
       \/ contract = "intents" /\ IntentsNext
       \/ contract = "assessments" /\ AssessmentsNext
       \/ contract = "market" /\ MarketNext
       \/ contract = "community" /\ CommunityNext
       \/ contract = "outcomes" /\ OutcomesNext
       \/ contract = "baseline" /\ BaselineNext
       \/ contract = "conduct" /\ ConductNext
       \/ contract = "ratings" /\ RatingsNext
       \/ contract = "care" /\ CareNext
       \/ contract = "load" /\ LoadNext
       \/ contract = "access" /\ AccessNext
       \/ contract = "recordings" /\ RecordingsNext
       \/ contract = "descriptions" /\ DescriptionNext
       \/ contract = "availability" /\ AvailabilityNext
       \/ contract = "wellness" /\ WellnessNext
       \/ contract = "specialties" /\ SpecialtiesNext
       \/ contract = "pricing" /\ PricingNext
       \/ contract = "prices_set" /\ PricesNext
    /\ resting(OracleParts, <<oracle_vars, attested_vars>>) /\ resting(CredentialParts, credential_vars)
    /\ resting(MonitorParts, monitor_vars) /\ resting(GuardParts, guard_vars)
    /\ resting({"assessments"}, assessed)
    /\ resting(OversightParts, watch_state) /\ resting(CareParts, care_state)
    /\ UNCHANGED contract

MCSpec ==
    /\ MCInit
    /\ [][MCNext]_<<contract, now, oracle_vars, attested_vars, credential_vars, monitor_vars,
                    guard_vars, assessed, watch_state, care_state>>

-----------------------------------------------------------------------------
(* What the contracts around the sessions promise together. Each part is   *)
(* stated and explained in the module of its contract.                     *)

\* Averages, counters, indexes and lists agree with the records they stand for: prices and
\* their ring buffer, certificates, identities, bundles, badges, endorsements, statistics,
\* revenue windows, scores, posts, roles and interfaces, also where a page is overwritten or
\* an entry removed.
BooksAreTrue ==
    /\ TwapIsAnAverage /\ RingIsLatest
    /\ CertificateBooks /\ KycIsFound /\ ReadersAgree /\ BundlesArePartitioned
    /\ BadgesAreCounted /\ EndorsementsAreCounted
    /\ AverageIsBetween /\ MetricsAreReal /\ PeriodsAddUp /\ RollingIsWindow
    /\ PendingIsComplete /\ ScoresAreExplained /\ ForumBooks
    /\ RolesAgree /\ RegistryAgrees /\ ScoresAddUp /\ ControlIsRecorded

\* What is limited stays within its limit and needs what it needs: a proof is used once,
\* personal data are read at their pace and with consent, spending, calls and failures are
\* counted in their windows, recoveries, rotations and blocks have their quorum, a lock has
\* one holder, approvals come in time and proposals fit their template.
LimitsHold ==
    /\ ProofsAreUsedOnce /\ AccessIsPaced /\ DisputesAreBounded /\ ProposalsFitTemplates
    /\ SpendingIsLimited /\ CallsAreLimited /\ BreakerHolds /\ GuardIsExclusive
    /\ RecoveriesHaveQuorum /\ RotationsAreProposed /\ CertificatesHaveQuorum
    /\ ApprovalsAreInTime
    /\ AccessNeedsConsent /\ CriticalAcceptsNothing /\ DescriptionsAreCalm

\* A verdict rests on what was recorded: a price on settled quotes, a completion on two
\* confirmations or a timeout, a report on its range, a suspicion, a penalty or a suspension
\* on the history that explains it, whatever was reported, corrected or forgotten in between.
VerdictsAreGrounded ==
    /\ QuotesAreSettled /\ CompletionIsEarned
    /\ IntegrityIsEarned /\ ReportsPass /\ FlagIsAboutTheLatest /\ VerdictIsOfRange
    /\ VerdictsAreEarned
    /\ CompliantIsLeftAlone /\ SuspicionHasAPair /\ GamingNeedsABaseline
    /\ PredatoryIsASeries /\ SuspensionIsGrave /\ PenaltyOnlyLowers /\ SteadyGradesAreFree
    /\ SuspensionIsRecorded /\ AdviceIsFair /\ UnfairLoadIsArtificial
    /\ BreachHasAReader /\ ContainedReadOthers /\ VerifiedIsComplete
    /\ FairestIsAssigned /\ KindIsNeeded /\ VerdictIsOfHistory /\ EnforcedIsFair
    /\ SuspectedPricesMatch

\* Protection stands until its time: ejected feeders, backed identities, held transfers,
\* closed posts, waiting reports, handovers, keys, alarms, suspensions and revoked consents
\* are not undone by another call in between.
ProtectionStands ==
    /\ EjectionStands /\ IdentityIsBacked
    /\ StatsAreOfThisLedger /\ NewReportsAwait /\ HoldsStand /\ PostsStayClosed
    /\ HandoversWait /\ KeysAreKept /\ AlarmsStand /\ ProtectionWaits
    /\ SuspendedIsNotBooked /\ RevocationStands /\ LateChangesCloseTheSlot
    /\ PressureFollowsDemand
=============================================================================
