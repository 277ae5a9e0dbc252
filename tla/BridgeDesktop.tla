---------------------------- MODULE BridgeDesktop ----------------------------
(***************************************************************************)
(* The bridge as the user sees it: the level it last gave the kernel, how  *)
(* long ago the headset answered, and the level it has deferred.           *)
(***************************************************************************)
EXTENDS Bridge

Shown == [k \in Key |-> IF k \in Attached THEN battery[k].device ELSE None]

Age == [k \in Key |-> IF k \in Attached THEN battery[k].lastReading ELSE 0]

Doubt == [k \in Key |-> IF k \in Attached THEN battery[k].deferred ELSE None]

\* The bounds of ShownLevelIsRecent and of EntriesGoForCause.
EntryLifetime ==
  OfflineGrace + MissingGrace + MaxRegular + UnansweredRetry + 2 * MaxTick
EntryPatience == Least(OfflineGrace, MissingGrace)

D == INSTANCE Desktop WITH
       Entry <- Key,
       MaxStep <- MaxPlausibleStep,
       Tolerance <- ConfirmTolerance,
       Patience <- EntryPatience,
       Lifetime <- EntryLifetime,
       LongestStep <- MaxTick + 1,
       shown <- Shown,
       age <- Age,
       doubt <- Doubt

\* The bridge keeps the promises of Desktop: through every interleaving of polls,
\* answers, failing pushes, withdrawals, stops and restarts, the entries appear,
\* move, age and go only as Desktop says.
ImplementsDesktop == D!Spec
=============================================================================
