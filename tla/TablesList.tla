----------------------------- MODULE TablesList -----------------------------
(***************************************************************************)
(* The table list of a deployed replication pipeline,                      *)
(* components/Replicator/Detail/TablesList/index.tsx.                      *)
(*                                                                         *)
(* Two passive effects run after renders.  React runs them some time after *)
(* the commit, and flushes the ones still due before the next render and   *)
(* before it applies any setState.  The search effect (deps [search,       *)
(* tables]) calls a debounced filter that is created anew on every render, *)
(* so each run arms its own 300 ms timer holding the search and tables of  *)
(* its render; no timer is ever cancelled, not even on unmount.  Timers    *)
(* with the same delay fire in the order they were armed: `timers` is a    *)
(* queue.  The poll effect (deps [offsetBasePath]) subscribes to           *)
(* pollTableStatus when the path is non-empty and unsubscribes in its      *)
(* cleanup, which drops responses not yet delivered; a response whose      *)
(* callback is already running still calls setStatusMap.  The status map  *)
(* is abstracted to the path whose poll response built it.                 *)
(***************************************************************************)
EXTENDS Naturals, Sequences, SequencesExt

CONSTANTS
    Paths,        \* non-empty offsetBasePath values
    NoPath,       \* the empty or missing offsetBasePath
    Chars,        \* the characters of table names and search strings
    LowerCase,    \* String.prototype.toLowerCase on one character
    TablesValues, \* the `tables` values the detail context provides:
                  \* sequences of table names, a name a sequence of Chars
    Searches,     \* search box values, sequences of Chars, <<>> included
    MaxTimers,    \* bound on armed debounce timers
    MaxSubs       \* bound on subscriptions to one path

ASSUME TablesListAssumption ==
    /\ NoPath \notin Paths
    /\ LowerCase \in [Chars -> Chars]
    /\ <<>> \in Searches
    /\ TablesValues # {}
    /\ TablesValues \subseteq Seq(Seq(Chars))
    /\ Searches \subseteq Seq(Chars)
    /\ MaxTimers \in Nat \ {0}
    /\ MaxSubs \in Nat \ {0}

VARIABLES
    mounted,    \* the view is mounted
    path,       \* the offsetBasePath prop
    tables,     \* the tables prop
    search,     \* the search state
    filtered,   \* the filteredTables state
    timers,     \* armed debounce timers: [search, tables] of their render
    subs,       \* subs[q]: live pollTableStatus subscriptions for path q
    effPath,    \* the offsetBasePath the poll effect last ran with
    searchDue,  \* the last render changed search or tables, and its
                \* search effect has not run yet
    statusFrom, \* the path whose poll response built statusMap, or NoPath
    lateUpdate  \* a setState has reached the unmounted view

vars == <<mounted, path, tables, search, filtered, timers, subs, effPath,
          searchDue, statusFrom, lateUpdate>>

TypeOK ==
    /\ mounted \in BOOLEAN
    /\ path \in Paths \cup {NoPath}
    /\ tables \in TablesValues
    /\ search \in Searches
    /\ filtered \in Seq(Seq(Chars))
    /\ timers \in Seq([search : Searches, tables : TablesValues])
    /\ subs \in [Paths -> 0..MaxSubs]
    /\ effPath \in Paths \cup {NoPath}
    /\ searchDue \in BOOLEAN
    /\ statusFrom \in Paths \cup {NoPath}
    /\ lateUpdate \in BOOLEAN

(* toLowerCase of a string.                                                *)
Lower(s) == [i \in DOMAIN s |-> LowerCase[s[i]]]

(* filterTableBySearch (lines 82-98): all tables for an empty search, else *)
(* those whose lower-cased name contains the lower-cased search, in order. *)
FilterTables(ts, s) ==
    IF s = <<>> THEN ts
    ELSE SelectSeq(ts, LAMBDA name : Lower(s) \in SubSeqs(Lower(name)))

(* The filter returns table names: a selection of a sequence of strings  *)
(* is a sequence of strings.  Proving this for every input needs induction *)
(* over SelectSeq, so proofs take it as a hypothesis and TLC checks it on  *)
(* every instance it runs.                                                 *)
FilterTyped ==
    \A ts \in TablesValues, s \in Searches : FilterTables(ts, s) \in Seq(Seq(Chars))

(* Subscribe to, and unsubscribe from, the poll of path q; the empty path  *)
(* returns early from the effect and registers no cleanup (lines 104-106). *)
Subscribe(s, q) == IF q = NoPath THEN s ELSE [s EXCEPT ![q] = @ + 1]

Unsubscribe(s, q) == IF q = NoPath THEN s ELSE [s EXCEPT ![q] = @ - 1]

(* A call of setFilteredTables or setStatusMap: it updates the state of a  *)
(* mounted view, and is only a warning on an unmounted one.                *)
SetState(var, val) ==
    IF mounted THEN var' = val /\ UNCHANGED lateUpdate
    ELSE lateUpdate' = TRUE /\ UNCHANGED var

(* The effects still due after the last commit.                            *)
EffectsDue == searchDue \/ effPath # path

(* Mutant: the poll effect returns no cleanup.                             *)
FlushNoCleanup(tq) ==
    /\ timers' = IF searchDue
                 THEN Append(tq, [search |-> search, tables |-> tables])
                 ELSE tq
    /\ subs' = IF effPath # path THEN Subscribe(subs, path) ELSE subs
    /\ effPath' = path
    /\ searchDue' = FALSE

(* React flushes the passive effects that are due, with the timer queue   *)
(* tq: the search effect arms a timer with the render's search and tables *)
(* (line 101), and the poll effect, when the path changed, runs the old    *)
(* run's cleanup (lines 131-133) and subscribes to the new path (lines     *)
(* 103-129).                                                               *)
Flush(tq) ==
    /\ timers' = IF searchDue
                 THEN Append(tq, [search |-> search, tables |-> tables])
                 ELSE tq
    /\ subs' = IF effPath # path THEN Subscribe(Unsubscribe(subs, effPath), path)
               ELSE subs
    /\ effPath' = path
    /\ searchDue' = FALSE

-----------------------------------------------------------------------------
(* Mount: useState initial values and the first run of both effects       *)
(* (lines 74-76, 101, 103-134).  Nothing can answer before they have run. *)
Init ==
    /\ mounted = TRUE
    /\ path \in Paths \cup {NoPath}
    /\ tables \in TablesValues
    /\ search = <<>>
    /\ filtered = tables
    /\ timers = <<[search |-> <<>>, tables |-> tables]>>
    /\ subs = Subscribe([q \in Paths |-> 0], path)
    /\ effPath = path
    /\ searchDue = FALSE
    /\ statusFrom = NoPath
    /\ lateUpdate = FALSE

(* handleSearch (lines 78-80): a new value re-renders the view; its search *)
(* effect is due.  Effects of the previous commit were flushed first.     *)
HandleSearch(v) ==
    /\ mounted
    /\ ~EffectsDue
    /\ v # search
    /\ Len(timers) < MaxTimers
    /\ search' = v
    /\ searchDue' = TRUE
    /\ UNCHANGED <<mounted, path, tables, filtered, timers, subs, effPath,
                   statusFrom, lateUpdate>>

(* Mutant: the search effect lists only [search] as its deps.              *)
TablesChangeNoEffect(ts) ==
    /\ mounted
    /\ ~EffectsDue
    /\ Len(timers) < MaxTimers
    /\ tables' = ts
    /\ UNCHANGED <<mounted, path, search, filtered, timers, subs, effPath,
                   searchDue, statusFrom, lateUpdate>>

(* The detail context provides a new tables object (a refetch): the view   *)
(* re-renders and its search effect is due (line 101).                     *)
TablesChange(ts) ==
    /\ mounted
    /\ ~EffectsDue
    /\ Len(timers) < MaxTimers
    /\ tables' = ts
    /\ searchDue' = TRUE
    /\ UNCHANGED <<mounted, path, search, filtered, timers, subs, effPath,
                   statusFrom, lateUpdate>>

(* The offsetBasePath prop changes: the view re-renders with the new path *)
(* and its poll effect is due (deps at line 134).  statusMap is kept.      *)
PathChange(q) ==
    /\ mounted
    /\ ~EffectsDue
    /\ q # path
    /\ q # NoPath => subs[q] < MaxSubs
    /\ path' = q
    /\ UNCHANGED <<mounted, tables, search, filtered, timers, subs, effPath,
                   searchDue, statusFrom, lateUpdate>>

(* React runs the passive effects that are due.                            *)
RunEffects ==
    /\ mounted
    /\ EffectsDue
    /\ Flush(timers)
    /\ UNCHANGED <<mounted, path, tables, search, filtered, statusFrom,
                   lateUpdate>>

(* The oldest debounce timer fires and filters the tables of its render    *)
(* with the search of its render (lines 82-98); setFilteredTables flushes  *)
(* the effects still due.                                                  *)
FilterFires ==
    /\ timers # <<>>
    /\ SetState(filtered, FilterTables(Head(timers).tables, Head(timers).search))
    /\ Flush(Tail(timers))
    /\ UNCHANGED <<mounted, path, tables, search, statusFrom>>

(* Mutant: the subscription callback builds the map but drops the         *)
(* setStatusMap call.                                                      *)
PollResponseNoSet(q) ==
    /\ subs[q] > 0
    /\ Flush(timers)
    /\ UNCHANGED <<mounted, path, tables, search, filtered, statusFrom,
                   lateUpdate>>

(* A pollTableStatus response of a live subscription: statusMap is rebuilt *)
(* from it alone (lines 119-129).  setStatusMap flushes the effects still  *)
(* due, whose cleanup cancels this very poll after its path changed; the   *)
(* running callback is not undone.                                         *)
PollResponse(q) ==
    /\ subs[q] > 0
    /\ SetState(statusFrom, q)
    /\ Flush(timers)
    /\ UNCHANGED <<mounted, path, tables, search, filtered>>

(* Unmount: effects still due were flushed by the parent's render; the    *)
(* poll effect's cleanup unsubscribes (lines 131-133); the armed debounce  *)
(* timers stay armed.                                                      *)
Unmount ==
    /\ mounted
    /\ ~EffectsDue
    /\ mounted' = FALSE
    /\ subs' = Unsubscribe(subs, effPath)
    /\ UNCHANGED <<path, tables, search, filtered, timers, effPath, searchDue,
                   statusFrom, lateUpdate>>

Next ==
    \/ \E v \in Searches : HandleSearch(v)
    \/ \E ts \in TablesValues : TablesChange(ts)
    \/ \E q \in Paths \cup {NoPath} : PathChange(q)
    \/ RunEffects
    \/ FilterFires
    \/ \E q \in Paths : PollResponse(q)
    \/ Unmount

(* React runs due passive effects, the event loop fires armed timers, and  *)
(* a live poll keeps receiving responses while the backend answers.        *)
Fairness ==
    /\ WF_vars(RunEffects)
    /\ WF_vars(FilterFires)
    /\ \A q \in Paths : WF_vars(PollResponse(q))

Spec == Init /\ [][Next]_vars /\ Fairness

-----------------------------------------------------------------------------
(* At most one poll is live: the poll of the path the poll effect last ran *)
(* with, while the view is mounted, and none otherwise.  The old poll stays *)
(* live from the commit of a new path until the deferred cleanup runs, but *)
(* the cleanup cancels it before the new one starts, on every path change  *)
(* and on unmount, so no periodic task leaks (spec 4.3, 5).                *)
OneLivePoll ==
    \A q \in Paths : subs[q] = IF mounted /\ q = effPath THEN 1 ELSE 0

(* Once the effects of the last render have run and every debounce timer  *)
(* of the mounted view has fired, the shown tables are the current tables *)
(* filtered by the current search, although every render created its own  *)
(* debounced function and none was cancelled.                              *)
FilterConverges ==
    (mounted /\ ~searchDue /\ timers = <<>>) => filtered = FilterTables(tables, search)

(* While the view stays mounted on a path, the status map eventually comes *)
(* from a poll of that path, replacing statuses of an earlier path, even   *)
(* when a response of the earlier path lands after the switch.             *)
StatusCatchesUp ==
    \A q \in Paths :
        (mounted /\ path = q) ~> (statusFrom = q \/ path # q \/ ~mounted)

(* No setState reaches the view after it has been unmounted (spec 8.5).   *)
NoUpdateAfterUnmount == ~lateUpdate

=============================================================================
