----------------------------- MODULE Dashboard ------------------------------
(***************************************************************************)
(* The dashboard page (app/(dashboard)/dashboard/page.tsx) and its         *)
(* WorkerMemoryChart (components/dashboard/worker-memory-chart.tsx).       *)
(*                                                                         *)
(* The page calls fetchStats on mount and on every worker_stats_updated,   *)
(* backup_completed or backup_failed event; each reply sets the stats or   *)
(* the error, and the error replaces the whole page.  The chart is         *)
(* rendered only once the page shows its stats.  It fetches the workers'   *)
(* report windows on mount and on every worker_stats_updated event; it     *)
(* numbers the workers of the data it holds by their sorted ids (key k is  *)
(* the k-th smallest id) and draws the lines whose keys are in             *)
(* activeWorkers.  The legend toggles a key, keeping at least one.         *)
(*                                                                         *)
(* The page's stats are abstracted to a revision number that every change  *)
(* increments; a worker's report window to its id, so the chart's data is *)
(* the set of worker ids it holds.  Memory values, buckets and colours are *)
(* left out: no property reads them.                                       *)
(***************************************************************************)
EXTENDS Naturals, FiniteSets

CONSTANTS
    Workers,      \* worker ids, ordered as numbers
    MaxChanges,   \* bound on events (changes of the server's stats)
    MaxToggles    \* bound on legend clicks

MaxFetches == MaxChanges + 1
StatsReqs == [n : 1..MaxFetches, ver : 0..MaxChanges]
ChartReqs == [n : 1..MaxFetches + MaxToggles, data : SUBSET Workers,
              zero : BOOLEAN]

\* The key (worker_k) the chart gives worker w of data: its sorted index.
Key(w, data) == Cardinality({v \in data : v < w})

\* The keys of the workers in data.
Keys(data) == 0..Cardinality(data) - 1

VARIABLES
    rev,        \* server: revision of the dashboard stats
    workers,    \* server: the workers whose reports the stats hold
    nChg,       \* events so far
    loading,    \* the page's loading
    error,      \* the page's error is set
    shown,      \* the revision of the stats the page shows
    reqs,       \* getDashboardStats requests awaiting their reply
    nReq,       \* getDashboardStats requests issued
    mounted,    \* WorkerMemoryChart is mounted (its effects have run)
    cLoading,   \* the chart's loading
    data,       \* the workers in the chart's stats
    active,     \* activeWorkers: the keys drawn
    cReqs,      \* getWorkersStats requests awaiting their reply
    nCReq,      \* getWorkersStats requests issued
    nTog        \* legend clicks so far

vars == <<rev, workers, nChg, loading, error, shown, reqs, nReq, mounted,
          cLoading, data, active, cReqs, nCReq, nTog>>

TypeOK ==
    /\ {rev, shown, nChg} \subseteq 0..MaxChanges
    /\ workers \subseteq Workers /\ data \subseteq Workers
    /\ {loading, error, mounted, cLoading} \subseteq BOOLEAN
    /\ reqs \subseteq StatsReqs /\ nReq \in 0..MaxFetches
    /\ active \subseteq 0..Cardinality(Workers) - 1
    /\ cReqs \subseteq ChartReqs /\ nCReq \in 0..MaxFetches + MaxToggles
    /\ nTog \in 0..MaxToggles

\* The page's mount fetch is in flight; any set of workers is reporting.
Init ==
    /\ rev = 0 /\ nChg = 0 /\ workers \in SUBSET Workers
    /\ loading = TRUE /\ error = FALSE /\ shown = 0
    /\ reqs = {[n |-> 1, ver |-> 0]} /\ nReq = 1
    /\ mounted = FALSE /\ cLoading = TRUE /\ data = {} /\ active = {}
    /\ cReqs = {} /\ nCReq = 0 /\ nTog = 0

\* The page renders its stats, and the chart with them.
StatsShown == ~loading /\ ~error

\* The page's fetchStats: getDashboardStats sent, answered with revision v.
FetchStats(v) ==
    /\ nReq' = nReq + 1
    /\ reqs' = reqs \cup {[n |-> nReq + 1, ver |-> v]}

\* The chart's fetchStats, made while activeWorkers had size s: the server
\* answers with the current workers, and the reply's .then sees s.
ChartFetch(w, s) ==
    /\ nCReq' = nCReq + 1
    /\ cReqs' = cReqs \cup {[n |-> nCReq + 1, data |-> w, zero |-> s = 0]}

\* A getDashboardStats reply: .then(setStats) or .catch(setError), then
\* .finally(setLoading(false)).  An error unmounts the chart for good.
StatsReply(r) ==
    /\ r \in reqs
    /\ reqs' = reqs \ {r}
    /\ loading' = FALSE
    /\ \/ shown' = r.ver /\ UNCHANGED <<error, mounted>>
       \/ error' = TRUE /\ mounted' = FALSE /\ UNCHANGED shown
    /\ UNCHANGED <<rev, workers, nChg, nReq, cLoading, data, active, cReqs,
                   nCReq, nTog>>

\* The chart's first render after the page shows its stats: fresh state,
\* and the effect on [fetchStats] calls fetchStats.
ChartMount ==
    /\ StatsShown /\ ~mounted
    /\ nCReq < MaxFetches + MaxToggles
    /\ mounted' = TRUE
    /\ cLoading' = TRUE /\ data' = {} /\ active' = {}
    /\ ChartFetch(workers, 0)
    /\ UNCHANGED <<rev, workers, nChg, loading, error, shown, reqs, nReq, nTog>>

\* A backup_completed or backup_failed event: the page's handler calls
\* fetchStats (it is subscribed while loading too).
BackupEvent ==
    /\ nChg < MaxChanges
    /\ nChg' = nChg + 1
    /\ rev' = rev + 1
    /\ FetchStats(rev + 1)
    /\ UNCHANGED <<workers, loading, error, shown, mounted, cLoading, data,
                   active, cReqs, nCReq, nTog>>

\* A worker_stats_updated event after the reporting workers became w: both
\* the page's and the mounted chart's handlers call their fetchStats.
WorkerStatsUpdated(w) ==
    /\ nChg < MaxChanges
    /\ nChg' = nChg + 1
    /\ rev' = rev + 1
    /\ workers' = w
    /\ FetchStats(rev + 1)
    /\ IF mounted
       THEN ChartFetch(w, Cardinality(active))
       ELSE UNCHANGED <<cReqs, nCReq>>
    /\ UNCHANGED <<loading, error, shown, mounted, cLoading, data, active,
                   nTog>>

\* A getWorkersStats reply: setStats(data), and when the activeWorkers the
\* closure saw was empty and data is not, every key becomes active; a
\* failure is only logged.  finally setLoading(false).  A reply reaching an
\* unmounted chart changes nothing.
ChartReply(r) ==
    /\ r \in cReqs
    /\ cReqs' = cReqs \ {r}
    /\ IF mounted
       THEN /\ cLoading' = FALSE
            /\ \/ /\ data' = r.data
                  /\ active' = IF r.zero /\ r.data # {}
                               THEN Keys(r.data) ELSE active
               \/ UNCHANGED <<data, active>>
       ELSE UNCHANGED <<cLoading, data, active>>
    /\ UNCHANGED <<rev, workers, nChg, loading, error, shown, reqs, nReq,
                   mounted, nCReq, nTog>>

\* toggleWorker(key), from the legend of the chart's data: remove the key
\* unless it is the only one left, or add it.  A change of activeWorkers'
\* size makes a new fetchStats, and the mount effect calls it.
ToggleWorker(k) ==
    /\ mounted /\ ~cLoading /\ k \in Keys(data)
    /\ nTog < MaxToggles
    /\ nTog' = nTog + 1
    /\ LET next == IF k \notin active THEN active \cup {k}
                   ELSE IF Cardinality(active) > 1 THEN active \ {k}
                   ELSE active
       IN /\ active' = next
          /\ IF next # active
             THEN ChartFetch(workers, Cardinality(next))
             ELSE UNCHANGED <<cReqs, nCReq>>
    /\ UNCHANGED <<rev, workers, nChg, loading, error, shown, reqs, nReq,
                   mounted, cLoading, data>>

Next ==
    \/ \E r \in reqs : StatsReply(r)
    \/ \E r \in cReqs : ChartReply(r)
    \/ ChartMount \/ BackupEvent
    \/ \E w \in SUBSET Workers : WorkerStatsUpdated(w)
    \/ \E k \in 0..Cardinality(Workers) - 1 : ToggleWorker(k)

\* Replies arrive and effects run; events and clicks are not forced.
Fairness ==
    /\ \A r \in StatsReqs : WF_vars(StatsReply(r))
    /\ \A r \in ChartReqs : WF_vars(ChartReply(r))
    /\ WF_vars(ChartMount)

Spec == Init /\ [][Next]_vars /\ Fairness

-----------------------------------------------------------------------------
(* Properties                                                              *)

\* The dashboard shows current data: once every fetchStats of the page has
\* answered (and none failed) the page shows the server's latest stats; and
\* a chart holding some worker's data draws at least one of its lines, as
\* toggleWorker's "keep at least one visible" intends.
DashboardShownCurrent ==
    /\ (reqs = {} /\ ~loading /\ ~error) => shown = rev
    /\ (mounted /\ data # {}) => active \cap Keys(data) # {}

=============================================================================
