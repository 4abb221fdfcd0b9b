------------------------------ MODULE Learning ------------------------------
(***************************************************************************)
(* One learner on top of the catalogue: sessions and their hints, checks   *)
(* and the progress they leave, the views the list, dashboard and progress *)
(* pages show, and the milestone banner that a challenge page derives from *)
(* two snapshots of the progress.  Requests are handled only while the     *)
(* process serves, and are lost with it; the browser tabs live on.         *)
(***************************************************************************)
EXTENDS Catalogue, FiniteSetsExt

CONSTANTS
  Reveals,      \* requests for a hint that are handled at the same time
  Tabs,         \* challenge pages that check and celebrate
  NumSessions,  \* bound on the sessions ever started
  MaxBoots,     \* bound on how often the process starts
  None          \* no request, no data, no banner

ASSUME CountsAssumption == IsFiniteSet(Slugs) /\ NumSessions \in Nat

\* FIXED_CATEGORIES is a fixed list of ten slugs, and none of them is "all", the
\* value the filter of the list page starts with.
ASSUME KnownAssumption == IsFiniteSet(Known) /\ "all" \notin Known

\* What is taken of releases.  The hints of a directory are numbered from 1
\* without a gap.  No challenge moves to another category: a page that compares
\* two snapshots would otherwise celebrate a category that has lost its last
\* challenge in between.
ASSUME HintsAssumption ==
  \A r \in Releases, s \in Slugs : r.disk[s] # NoEntry =>
    LET all == r.disk[s].hints IN IsFiniteSet(all) /\ all = 1..Cardinality(all)
ASSUME CategoriesAssumption ==
  \A r, q \in Releases : \A s \in R!Listed(r) \cap R!Listed(q) :
    r.disk[s].category = q.disk[s].category

Sessions == 1..NumSessions

VARIABLES
  boots,        \* starts of the process so far
  slugOf,       \* challenge of each session, or NoSlug
  used,         \* hints_used of each session
  solved,       \* challenges whose progress row says solved
  reveal,       \* per reveal request: [session, next, found], or None
  check,        \* per tab: the check under way, or None
  fetch,        \* per tab: the totals a progress request has read, or None
  data,         \* per tab: the cached answer of GET /api/progress
  awaiting,     \* per tab: the snapshot a passed check compares with, or None
  banner,       \* per tab: the celebration on display
  everComplete  \* history: categories that have been solved completely

requests == <<reveal, check, fetch>>
browser == <<data, awaiting, banner>>
learner == <<slugOf, used, solved, requests, browser>>
vars == <<bootVars, boots, learner, everComplete>>

-----------------------------------------------------------------------------
(* The read-only endpoints and what the pages make of them.                *)

Stored == {s \in Slugs : rows[s] # NoEntry}

\* GET /api/challenges joins each challenge with its category.
Listing == {s \in Stored : rows[s] \in categories}

\* GET /api/progress: its first query...
Totals == [total |-> Cardinality(Stored), solved |-> Cardinality(Stored \cap solved)]

\* Mutant: the join with progress counts attempted rows, not solved ones.
BreakdownAttempted ==
  [c \in categories |->
    [total |-> Cardinality({s \in Stored : rows[s] = c}),
     solved |-> Cardinality({s \in Stored : rows[s] = c /\ \E i \in Sessions : slugOf[i] = s})]]

\* ...and its second, one line per category, the empty ones included.
Breakdown ==
  [c \in categories |->
    [total |-> Cardinality({s \in Stored : rows[s] = c}),
     solved |-> Cardinality({s \in Stored \cap solved : rows[s] = c})]]

\* GET /api/public-stats.
PublicStats == [challenges |-> Cardinality(Stored), categories |-> Cardinality(categories)]

\* GET /api/categories, from which the list page fills its select.
CategoryList == categories
Offered == {"all"} \cup CategoryList

\* Its filters; "all" is their initial value.
Filtered(category, status) ==
  {s \in Listing : /\ category \in {"all", rows[s]}
                   /\ status = "solved" => s \in solved
                   /\ status = "unsolved" => s \notin solved}

\* The dashboard recommends unsolved challenges, or solved ones to revisit.
Recommended == IF Listing \ solved # {} THEN Listing \ solved ELSE Listing

\* GET /api/challenges/:slug.
Detail(s) ==
  IF s \in Stored THEN [category |-> rows[s], hintCount |-> Cardinality(hints[s])]
  ELSE NoEntry

\* GET /api/sessions/:id/hints: the first hints_used of the hints, by order.
HintsState(i) ==
  LET all == hints[slugOf[i]]
  IN [revealed |-> {h \in all : Cardinality({g \in all : g < h}) < used[i]},
      total |-> Cardinality(all)]

\* The button that asks for the next hint; the challenge's own count stands in
\* until the list of hints is there.
CanReveal(i) ==
  \A total \in {HintsState(i).total, Detail(slugOf[i]).hintCount} :
    Cardinality(HintsState(i).revealed) < total

CategoryStatus(row) ==
  CASE row.total = 0 -> "none"
    [] row.total > 0 /\ row.solved = 0 -> "not-started"
    [] row.total > 0 /\ row.solved = row.total -> "complete"
    [] OTHER -> "in-progress"

\* The progress page counts them on its own.
CategoriesComplete ==
  {c \in categories : 0 < Breakdown[c].total /\ Breakdown[c].solved = Breakdown[c].total}

-----------------------------------------------------------------------------
(* Snapshots and celebrations.                                             *)

SnapshotProgress(progress, c) ==
  IF progress = None \/ c \notin DOMAIN progress.cats THEN None
  ELSE [solved |-> progress.solved, category |-> c, row |-> progress.cats[c]]

DetectCelebration(before, after) ==
  IF before = None \/ after = None THEN None
  ELSE IF before.solved = 0 /\ after.solved = 1 THEN [kind |-> "first-solve"]
  ELSE LET c == before.category
       IN IF /\ c \in DOMAIN after.cats
             /\ 0 < before.row.total /\ before.row.solved < before.row.total
             /\ after.cats[c].solved = after.cats[c].total
          THEN [kind |-> "category-complete", category |-> c]
          ELSE None

Celebrate(t, before, after) ==
  LET outcome == DetectCelebration(before, after)
  IN banner' = [banner EXCEPT ![t] = IF outcome = None THEN @ ELSE outcome]

-----------------------------------------------------------------------------
Init ==
  /\ BootInit /\ boots = 0
  /\ slugOf = [i \in Sessions |-> NoSlug] /\ used = [i \in Sessions |-> 0]
  /\ solved = {} /\ everComplete = {}
  /\ reveal = [r \in Reveals |-> None]
  /\ check = [t \in Tabs |-> None] /\ fetch = [t \in Tabs |-> None]
  /\ data = [t \in Tabs |-> None] /\ awaiting = [t \in Tabs |-> None]
  /\ banner = [t \in Tabs |-> None]

\* The process boots; what a request of its predecessor held is gone, and the
\* pages learn that it failed.
Boot ==
  /\ BootNext
  /\ IF phase = "down" /\ phase' # "down"
     THEN boots < MaxBoots /\ boots' = boots + 1
     ELSE UNCHANGED boots
  /\ IF phase = "serving"
     THEN /\ reveal' = [r \in Reveals |-> None]
          /\ check' = [t \in Tabs |-> None] /\ fetch' = [t \in Tabs |-> None]
          /\ awaiting' = [t \in Tabs |-> None]
     ELSE UNCHANGED <<requests, awaiting>>
  /\ UNCHANGED <<slugOf, used, solved, data, banner>>

Serving == phase = "serving" /\ UNCHANGED <<bootVars, boots>>

\* A start inserts the next session row, hints_used at its default.
StartSession(s) ==
  /\ Serving /\ s \in Stored
  /\ \E i \in Sessions :
       /\ slugOf[i] = NoSlug /\ \A j \in 1..(i - 1) : slugOf[j] # NoSlug
       /\ slugOf' = [slugOf EXCEPT ![i] = s]
  /\ UNCHANGED <<used, solved, requests, browser>>

\* revealNextHint reads the session, then the hint that would be next.
RevealReads(r, i) ==
  /\ Serving /\ reveal[r] = None /\ slugOf[i] # NoSlug
  /\ reveal' = [reveal EXCEPT ![r] =
       [session |-> i, next |-> used[i] + 1,
        found |-> used[i] + 1 \in hints[slugOf[i]]]]
  /\ UNCHANGED <<slugOf, used, solved, check, fetch, browser>>

\* Mutant: the update adds one to whatever the row holds.
RevealWritesPlusOne(r) ==
  /\ Serving /\ reveal[r] # None
  /\ used' = IF reveal[r].found
             THEN [used EXCEPT ![reveal[r].session] = @ + 1] ELSE used
  /\ reveal' = [reveal EXCEPT ![r] = None]
  /\ UNCHANGED <<slugOf, solved, check, fetch, browser>>

\* With no such hint it answers null, else it writes the index it computed.
RevealWrites(r) ==
  /\ Serving /\ reveal[r] # None
  /\ used' = IF reveal[r].found
             THEN [used EXCEPT ![reveal[r].session] = reveal[r].next] ELSE used
  /\ reveal' = [reveal EXCEPT ![r] = None]
  /\ UNCHANGED <<slugOf, solved, check, fetch, browser>>

\* "Check My Fix": the snapshot is of whatever the cache holds.
AskCheck(t, i) ==
  /\ Serving /\ check[t] = None /\ slugOf[i] # NoSlug
  /\ check' = [check EXCEPT ![t] =
       [session |-> i, before |-> SnapshotProgress(data[t], Detail(slugOf[i]).category),
        result |-> None]]
  /\ UNCHANGED <<slugOf, used, solved, reveal, fetch, browser>>

\* The check runs in the container; a pass makes the progress row solved, a
\* failure leaves a solved row solved.
CheckRuns(t, result) ==
  /\ Serving /\ check[t] # None /\ check[t].result = None
  /\ solved' = IF result = "passed" THEN solved \cup {slugOf[check[t].session]}
               ELSE solved
  /\ check' = [check EXCEPT ![t].result = result]
  /\ UNCHANGED <<slugOf, used, reveal, fetch, browser>>

\* An answer invalidates the progress: a fetch of it that still runs is
\* cancelled, unless it is the first one.
Invalidated(t) == IF data[t] = None THEN fetch ELSE [fetch EXCEPT ![t] = None]

\* The answer.  Whoever waited for a fetch that it cancels gets what the cache
\* holds.  After a pass the page refetches the progress and waits for it.
CheckAnswered(t) ==
  /\ Serving /\ check[t] # None /\ check[t].result # None
  /\ check' = [check EXCEPT ![t] = None]
  /\ fetch' = Invalidated(t)
  /\ IF awaiting[t] = None THEN UNCHANGED banner
     ELSE Celebrate(t, awaiting[t].before, data[t])
  /\ awaiting' = [awaiting EXCEPT ![t] =
       IF check[t].result = "passed" THEN [before |-> check[t].before] ELSE None]
  /\ UNCHANGED <<slugOf, used, solved, reveal, data>>

\* The progress request, for the page or for a waiting celebration.
FetchTotals(t) ==
  /\ Serving /\ fetch[t] = None
  /\ fetch' = [fetch EXCEPT ![t] = Totals]
  /\ UNCHANGED <<slugOf, used, solved, reveal, check, browser>>

FetchBreakdown(t) ==
  /\ Serving /\ fetch[t] # None
  /\ LET fresh == [solved |-> fetch[t].solved, total |-> fetch[t].total,
                   cats |-> Breakdown]
     IN /\ data' = [data EXCEPT ![t] = fresh]
        /\ IF awaiting[t] = None THEN UNCHANGED banner
           ELSE Celebrate(t, awaiting[t].before, fresh)
  /\ fetch' = [fetch EXCEPT ![t] = None]
  /\ awaiting' = [awaiting EXCEPT ![t] = None]
  /\ UNCHANGED <<slugOf, used, solved, reveal, check>>

\* A refetch that fails resolves with the cached data.
FetchFails(t) ==
  /\ Serving /\ awaiting[t] # None
  /\ Celebrate(t, awaiting[t].before, data[t])
  /\ fetch' = [fetch EXCEPT ![t] = None]
  /\ awaiting' = [awaiting EXCEPT ![t] = None]
  /\ UNCHANGED <<slugOf, used, solved, reveal, check, data>>

\* The banner's timer or its close button.
Dismiss(t) ==
  /\ banner[t] # None
  /\ banner' = [banner EXCEPT ![t] = None]
  /\ UNCHANGED <<bootVars, boots, slugOf, used, solved, requests, data, awaiting>>

Complete(c) ==
  LET all == {s \in Stored : rows[s] = c} IN all # {} /\ all \subseteq solved

Step ==
  \/ Boot
  \/ \E s \in Slugs : StartSession(s)
  \/ \E r \in Reveals : RevealWrites(r) \/ (\E i \in Sessions : RevealReads(r, i))
  \/ \E t \in Tabs :
       \/ \E i \in Sessions : AskCheck(t, i)
       \/ \E result \in {"passed", "failed"} : CheckRuns(t, result)
       \/ CheckAnswered(t) \/ FetchTotals(t) \/ FetchBreakdown(t)
       \/ FetchFails(t) \/ Dismiss(t)

Next == Step /\ everComplete' = everComplete \cup {c \in Known : Complete(c)'}

Spec == Init /\ [][Next]_vars
-----------------------------------------------------------------------------
\* Every page counts the same challenges: the list, the totals, the lines per
\* category and the public statistics agree while the process serves, each
\* challenge is found under one of the categories on offer, and the dashboard
\* never recommends a solved challenge while an unsolved one is left.  They are
\* five queries with different joins.
ViewsAgree ==
  phase = "serving" =>
    LET solvedRows == {s \in Listing : s \in solved}
        begun == {c \in categories : CategoryStatus(Breakdown[c]) # "none"}
    IN /\ Totals = [total |-> Cardinality(Listing), solved |-> Cardinality(solvedRows)]
       /\ PublicStats.challenges = Totals.total
       /\ MapThenSumSet(LAMBDA c : Breakdown[c].total, categories) = Totals.total
       /\ MapThenSumSet(LAMBDA c : Breakdown[c].solved, categories) = Totals.solved
       /\ UNION {Filtered(c, "all") : c \in Offered \ {"all"}} = Listing
       /\ (CategoriesComplete = begun) = (Recommended \subseteq solved)

\* A session is never charged for a hint that no release gave its challenge,
\* however many requests ask for the next one at the same time and whichever
\* release is deployed between two of them.  The reveal takes hints_used for an
\* index and the list of hints takes it for a count: while the process serves,
\* both name the same hints, and the page offers the next hint if there is one.
ChargedExist ==
  \A i \in Sessions : used[i] > 0 =>
    /\ \E r \in Releases : /\ r.disk[slugOf[i]] # NoEntry
                           /\ used[i] \in r.disk[slugOf[i]].hints
    /\ phase = "serving" =>
         /\ HintsState(i).revealed = {h \in hints[slugOf[i]] : h <= used[i]}
         /\ CanReveal(i) = (used[i] + 1 \in hints[slugOf[i]])

\* A banner is earned: "first incident solved" stands on a solved challenge and
\* "category cleared" on a category that has been complete, whatever other
\* tabs, restarts, deployments and failed refetches came between its snapshots.
CelebrationEarned ==
  \A t \in Tabs : banner[t] # None =>
    IF banner[t].kind = "first-solve" THEN solved # {}
    ELSE banner[t].category \in everComplete
=============================================================================
