-------------------------- MODULE TablesList_proofs --------------------------
(***************************************************************************)
(* Proofs about the table list: the poll effect's subscriptions, the       *)
(* debounced filter, and the types of the state, with the passive effects  *)
(* run later than the render that makes them due.                          *)
(***************************************************************************)
EXTENDS TablesList, TLAPS

(* The conjuncts of TablesListAssumption about paths, searches and bounds; *)
(* the ones about strings are cited only where a proof needs them.         *)
LEMMA ScalarAssumption ==
    /\ NoPath \notin Paths
    /\ <<>> \in Searches
    /\ TablesValues # {}
    /\ MaxTimers \in Nat \ {0}
    /\ MaxSubs \in Nat \ {0}
BY TablesListAssumption

(* The part of TypeOK the poll effect touches.                             *)
PollTypeOK ==
    /\ mounted \in BOOLEAN
    /\ path \in Paths \cup {NoPath}
    /\ effPath \in Paths \cup {NoPath}
    /\ subs \in [Paths -> 0..MaxSubs]

(* An unmounted view has no poll effect due: the render that unmounts it  *)
(* flushed them.                                                           *)
NoneDueUnmounted == ~mounted => effPath = path

PollInv == PollTypeOK /\ OneLivePoll /\ NoneDueUnmounted

(* Subscribing to and unsubscribing from a non-empty path changes that     *)
(* path's count only; the empty path changes nothing.                      *)
LEMMA SubscribeDef ==
    ASSUME NEW s \in [Paths -> Int], NEW q \in Paths \cup {NoPath}
    PROVE  /\ Subscribe(s, q) \in [Paths -> Int]
           /\ \A p \in Paths : Subscribe(s, q)[p] = IF p = q THEN s[p] + 1 ELSE s[p]
           /\ Unsubscribe(s, q) \in [Paths -> Int]
           /\ \A p \in Paths : Unsubscribe(s, q)[p] = IF p = q THEN s[p] - 1 ELSE s[p]
<1> USE ScalarAssumption
<1>1. CASE q = NoPath
  BY <1>1 DEF Subscribe, Unsubscribe
<1>2. CASE q \in Paths
  BY <1>2 DEF Subscribe, Unsubscribe
<1>3. QED
  BY <1>1, <1>2

(* A flush in a mounted view leaves exactly the poll of the current path   *)
(* live: the cleanup cancels the poll of the path the effect last ran      *)
(* with before the new run subscribes.                                     *)
LEMMA FlushSubs ==
    ASSUME PollInv, mounted, NEW tq, Flush(tq)
    PROVE  /\ effPath' = path
           /\ \A p \in Paths : subs'[p] = IF p = path THEN 1 ELSE 0
           /\ subs' \in [Paths -> 0..MaxSubs]
<1> USE ScalarAssumption
<1>0. subs \in [Paths -> Int] /\ effPath \in Paths \cup {NoPath}
      /\ path \in Paths \cup {NoPath}
  BY DEF PollInv, PollTypeOK
<1>1. \A p \in Paths : subs[p] = IF p = effPath THEN 1 ELSE 0
  BY DEF PollInv, OneLivePoll
<1>2. \A p \in Paths : subs'[p] = IF p = path THEN 1 ELSE 0
  <2>1. CASE effPath # path
    <3> DEFINE u == Unsubscribe(subs, effPath)
    <3>0. /\ u \in [Paths -> Int]
          /\ \A p \in Paths : u[p] = IF p = effPath THEN subs[p] - 1 ELSE subs[p]
      BY <1>0, SubscribeDef
    <3>1. u \in [Paths -> Int] /\ \A p \in Paths : u[p] = 0
      BY <1>1, <3>0
    <3>2. \A p \in Paths : Subscribe(u, path)[p] = IF p = path THEN 1 ELSE 0
      BY <1>0, <3>1, SubscribeDef
    <3>3. subs' = Subscribe(u, path)
      BY <2>1 DEF Flush
    <3>4. QED
      BY <3>2, <3>3
  <2>2. CASE effPath = path
    BY <1>1, <2>2 DEF Flush
  <2>3. QED
    BY <2>1, <2>2
<1>3. subs' \in [Paths -> Int]
  <2>1. CASE effPath # path
    BY <1>0, <2>1, SubscribeDef DEF Flush
  <2>2. CASE effPath = path
    BY <1>0, <2>2 DEF Flush
  <2>3. QED
    BY <2>1, <2>2
<1>4. QED
  BY <1>2, <1>3 DEF Flush

(* The poll counters are well typed, and one poll is live exactly while   *)
(* the view is mounted, for the path the poll effect last ran with.        *)
LEMMA InitPollInv == Init => PollInv
<1> USE ScalarAssumption
<1> SUFFICES ASSUME Init PROVE PollInv
  OBVIOUS
<1>1. [q \in Paths |-> 0] \in [Paths -> Int]
  OBVIOUS
<1>2. \A p \in Paths : subs[p] = IF p = path THEN 1 ELSE 0
  BY <1>1, SubscribeDef DEF Init
<1>3. subs \in [Paths -> Int]
  BY <1>1, SubscribeDef DEF Init
<1>4. QED
  BY <1>2, <1>3 DEF Init, PollInv, PollTypeOK, OneLivePoll, NoneDueUnmounted

LEMMA StepPollInv == PollInv /\ [Next]_vars => PollInv'
<1> USE ScalarAssumption
<1> SUFFICES ASSUME PollInv, [Next]_vars PROVE PollInv'
  OBVIOUS
<1>0. subs \in [Paths -> Int] /\ mounted \in BOOLEAN
  BY DEF PollInv, PollTypeOK
(* A flush in a mounted view that keeps it mounted and on its path.        *)
<1>F. ASSUME mounted, mounted', path' = path, NEW tq, Flush(tq) PROVE PollInv'
  <2>1. /\ effPath' = path
        /\ \A p \in Paths : subs'[p] = IF p = path THEN 1 ELSE 0
        /\ subs' \in [Paths -> 0..MaxSubs]
    BY <1>F, FlushSubs
  <2>2. QED
    BY <1>F, <2>1 DEF PollInv, PollTypeOK, OneLivePoll, NoneDueUnmounted
<1>1. ASSUME NEW v \in Searches, HandleSearch(v) PROVE PollInv'
  BY <1>1 DEF HandleSearch, PollInv, PollTypeOK, OneLivePoll, NoneDueUnmounted
<1>2. ASSUME NEW ts \in TablesValues, TablesChange(ts) PROVE PollInv'
  BY <1>2 DEF TablesChange, PollInv, PollTypeOK, OneLivePoll, NoneDueUnmounted
<1>3. ASSUME NEW q \in Paths \cup {NoPath}, PathChange(q) PROVE PollInv'
  BY <1>3 DEF PathChange, PollInv, PollTypeOK, OneLivePoll, NoneDueUnmounted
<1>4. CASE RunEffects
  BY <1>4, <1>F DEF RunEffects
<1>5. CASE FilterFires
  <2>1. UNCHANGED <<mounted, path>> /\ Flush(Tail(timers))
    BY <1>5 DEF FilterFires
  <2>2. CASE mounted
    BY <1>F, <2>1, <2>2
  <2>3. CASE ~mounted
    <3>1. effPath = path
      BY <2>3 DEF PollInv, NoneDueUnmounted
    <3>2. UNCHANGED <<subs, effPath>>
      BY <2>1, <3>1 DEF Flush
    <3>3. QED
      BY <2>1, <3>2 DEF PollInv, PollTypeOK, OneLivePoll, NoneDueUnmounted
  <2>4. QED
    BY <1>0, <2>2, <2>3
<1>6. ASSUME NEW q \in Paths, PollResponse(q) PROVE PollInv'
  <2>1. mounted
    BY <1>6 DEF PollResponse, PollInv, OneLivePoll
  <2>2. UNCHANGED <<mounted, path>> /\ Flush(timers)
    BY <1>6 DEF PollResponse
  <2>3. QED
    BY <1>F, <2>1, <2>2
<1>7. CASE Unmount
  <2>1. mounted /\ mounted' = FALSE /\ effPath = path
        /\ UNCHANGED <<path, effPath>>
    BY <1>7 DEF Unmount, EffectsDue
  <2>2. \A p \in Paths : subs'[p] = 0
    <3>1. effPath \in Paths \cup {NoPath}
      BY DEF PollInv, PollTypeOK
    <3>2. \A p \in Paths : Unsubscribe(subs, effPath)[p]
                              = IF p = effPath THEN subs[p] - 1 ELSE subs[p]
      BY <1>0, <3>1, SubscribeDef
    <3>3. QED
      BY <1>7, <2>1, <3>2 DEF Unmount, PollInv, OneLivePoll
  <2>3. subs' \in [Paths -> Int]
    BY <1>0, <1>7, SubscribeDef DEF Unmount, PollInv, PollTypeOK
  <2>4. subs' \in [Paths -> 0..MaxSubs]
    BY <2>2, <2>3
  <2>5. QED
    BY <2>1, <2>2, <2>4 DEF PollInv, PollTypeOK, OneLivePoll, NoneDueUnmounted
<1>8. CASE UNCHANGED vars
  BY <1>8 DEF vars, PollInv, PollTypeOK, OneLivePoll, NoneDueUnmounted
<1>9. QED
  BY <1>1, <1>2, <1>3, <1>4, <1>5, <1>6, <1>7, <1>8 DEF Next

(* At most one poll is live, whatever sequence of path changes, responses, *)
(* effect runs and the unmount: the live one is the poll of the path the   *)
(* poll effect last ran with while the view is mounted, and none is live   *)
(* after unmount, because each run of the effect's cleanup cancels the old *)
(* subscription before the new one starts.                                 *)
THEOREM OneLivePollHolds == Spec => []OneLivePoll
BY InitPollInv, StepPollInv, PTL DEF Spec, PollInv
-----------------------------------------------------------------------------
(* The debounce timers: the search and tables of their render.             *)
TimerRec == [search : Searches, tables : TablesValues]

(* Unless the search effect of the last render is still due, the newest   *)
(* armed debounce timer holds the current search and tables: each render   *)
(* that changes either makes the effect due, and its run arms one.         *)
LastTimerCurrent ==
    ~searchDue /\ timers # <<>> => Last(timers) = [search |-> search, tables |-> tables]

FilterInv ==
    /\ mounted \in BOOLEAN
    /\ search \in Searches
    /\ tables \in TablesValues
    /\ timers \in Seq(TimerRec)
    /\ searchDue \in BOOLEAN
    /\ LastTimerCurrent
    /\ FilterConverges

(* The oldest timer of a queue of one is its newest; removing the oldest   *)
(* of a longer queue keeps the newest.                                     *)
LEMMA TailLast ==
    ASSUME NEW S, NEW t \in Seq(S), t # <<>>
    PROVE  /\ Tail(t) \in Seq(S)
           /\ Tail(t) = <<>> => Head(t) = Last(t)
           /\ Tail(t) # <<>> => Last(Tail(t)) = Last(t)
BY DEF Last

(* A flush with the queue tq keeps the queue typed; when the search effect *)
(* was due, it arms a timer with the current search and tables last.       *)
LEMMA FlushTimers ==
    ASSUME search \in Searches, tables \in TablesValues,
           NEW tq \in Seq(TimerRec), Flush(tq)
    PROVE  /\ searchDue' = FALSE
           /\ timers' \in Seq(TimerRec)
           /\ searchDue => /\ timers' # <<>>
                           /\ Last(timers') = [search |-> search, tables |-> tables]
           /\ ~searchDue => timers' = tq
<1> DEFINE x == [search |-> search, tables |-> tables]
<1>1. x \in TimerRec
  BY DEF TimerRec
<1>2. Append(tq, x) \in Seq(TimerRec) /\ Append(tq, x) # <<>> /\ Last(Append(tq, x)) = x
  BY <1>1 DEF Last
<1>3. QED
  BY <1>2 DEF Flush

(* Once the effects of the last render have run and every debounce timer  *)
(* of a mounted view has fired, the shown tables are the current tables   *)
(* filtered by the current search: the timers fire in the order they were *)
(* armed and the last one armed holds the current search and tables, so    *)
(* no uncancelled debounced call of an earlier render has the last word.   *)
THEOREM FilterConvergesHolds == Spec => []FilterConverges
<1> USE ScalarAssumption
<1>1. Init => FilterInv
  <2> SUFFICES ASSUME Init PROVE FilterInv
    OBVIOUS
  <2>1. [search |-> <<>>, tables |-> tables] \in TimerRec
    BY DEF Init, TimerRec
  <2>2. timers \in Seq(TimerRec) /\ Last(timers) = [search |-> search, tables |-> tables]
    BY <2>1 DEF Init, Last
  <2>3. QED
    BY <2>2 DEF Init, FilterInv, LastTimerCurrent, FilterConverges
<1>2. FilterInv /\ [Next]_vars => FilterInv'
  <2> SUFFICES ASSUME FilterInv, [Next]_vars PROVE FilterInv'
    OBVIOUS
  <2>0. /\ timers \in Seq(TimerRec) /\ search \in Searches /\ tables \in TablesValues
        /\ mounted \in BOOLEAN /\ searchDue \in BOOLEAN
    BY DEF FilterInv
  (* A flush of the unchanged queue that leaves search, tables, filtered   *)
  (* and the mount state alone.                                           *)
  <2>F. ASSUME UNCHANGED <<mounted, search, tables, filtered>>, Flush(timers)
        PROVE  FilterInv'
    <3>1. CASE searchDue
      BY <2>0, <2>F, <3>1, FlushTimers DEF FilterInv, LastTimerCurrent, FilterConverges
    <3>2. CASE ~searchDue
      BY <2>0, <2>F, <3>2, FlushTimers DEF FilterInv, LastTimerCurrent, FilterConverges
    <3>3. QED
      BY <3>1, <3>2
  <2>1. ASSUME NEW v \in Searches, HandleSearch(v) PROVE FilterInv'
    BY <2>0, <2>1 DEF HandleSearch, FilterInv, LastTimerCurrent, FilterConverges
  <2>2. ASSUME NEW ts \in TablesValues, TablesChange(ts) PROVE FilterInv'
    BY <2>0, <2>2 DEF TablesChange, FilterInv, LastTimerCurrent, FilterConverges
  <2>3. ASSUME NEW q \in Paths \cup {NoPath}, PathChange(q) PROVE FilterInv'
    BY <2>3 DEF PathChange, FilterInv, LastTimerCurrent, FilterConverges
  <2>4. CASE RunEffects
    BY <2>4, <2>F DEF RunEffects
  <2>5. CASE FilterFires
    <3>1. /\ timers # <<>> /\ Flush(Tail(timers))
          /\ UNCHANGED <<mounted, search, tables>>
      BY <2>5 DEF FilterFires
    <3>2. Tail(timers) \in Seq(TimerRec)
      BY <2>0, <3>1, TailLast
    <3>3. CASE searchDue
      <4>1. searchDue' = FALSE /\ timers' # <<>>
            /\ Last(timers') = [search |-> search, tables |-> tables]
            /\ timers' \in Seq(TimerRec)
        BY <2>0, <3>1, <3>2, <3>3, FlushTimers
      <4>2. QED
        BY <2>0, <3>1, <4>1 DEF FilterInv, LastTimerCurrent, FilterConverges
    <3>4. CASE ~searchDue
      <4>1. timers' = Tail(timers) /\ searchDue' = FALSE
        BY <2>0, <3>1, <3>2, <3>4, FlushTimers
      <4>2. Last(timers) = [search |-> search, tables |-> tables]
        BY <3>1, <3>4 DEF FilterInv, LastTimerCurrent
      <4>3. timers' \in Seq(TimerRec) /\ (timers' # <<>> => Last(timers') = Last(timers))
        BY <2>0, <3>1, <4>1, TailLast
      <4>4. mounted /\ timers' = <<>> => filtered' = FilterTables(tables, search)
        <5> SUFFICES ASSUME mounted, timers' = <<>>
                     PROVE  filtered' = FilterTables(tables, search)
          OBVIOUS
        <5>1. Head(timers) = [search |-> search, tables |-> tables]
          BY <2>0, <3>1, <4>1, <4>2, TailLast
        <5>2. filtered' = FilterTables(Head(timers).tables, Head(timers).search)
          BY <2>5 DEF FilterFires, SetState
        <5>3. QED
          BY <5>1, <5>2
      <4>5. QED
        BY <2>0, <3>1, <4>1, <4>2, <4>3, <4>4 DEF FilterInv, LastTimerCurrent, FilterConverges
    <3>5. QED
      BY <2>0, <3>3, <3>4
  <2>6. ASSUME NEW q \in Paths, PollResponse(q) PROVE FilterInv'
    <3>1. UNCHANGED <<mounted, search, tables, filtered>> /\ Flush(timers)
      BY <2>6 DEF PollResponse
    <3>2. QED
      BY <2>F, <3>1
  <2>7. CASE Unmount
    <3>1. mounted' = FALSE /\ UNCHANGED <<search, tables, filtered, timers, searchDue>>
      BY <2>7 DEF Unmount
    <3>2. QED
      BY <2>0, <3>1 DEF FilterInv, LastTimerCurrent, FilterConverges
  <2>8. CASE UNCHANGED vars
    BY <2>8 DEF vars, FilterInv, LastTimerCurrent, FilterConverges
  <2>9. QED
    BY <2>1, <2>2, <2>3, <2>4, <2>5, <2>6, <2>7, <2>8 DEF Next
<1>3. QED
  BY <1>1, <1>2, PTL DEF Spec, FilterInv
-----------------------------------------------------------------------------
(* The variables TypeOK types and the poll invariant does not.             *)
RestTypeOK ==
    /\ tables \in TablesValues
    /\ search \in Searches
    /\ filtered \in Seq(Seq(Chars))
    /\ timers \in Seq(TimerRec)
    /\ searchDue \in BOOLEAN
    /\ statusFrom \in Paths \cup {NoPath}
    /\ lateUpdate \in BOOLEAN

(* TypeOK with the poll invariant, which bounds the counters the cleanup   *)
(* decrements.                                                             *)
TypeInv == TypeOK /\ OneLivePoll /\ NoneDueUnmounted

LEMMA TypeInvSplit == TypeInv <=> PollInv /\ RestTypeOK
BY DEF TypeInv, TypeOK, PollInv, PollTypeOK, RestTypeOK, TimerRec

(* Every reachable state of the table list is well typed, given that the  *)
(* filter of filterTableBySearch returns table names (FilterTyped, which   *)
(* TLC checks on each instance): the queue of debounce timers, the effects *)
(* still due, the status map's source and the late-setState flag included. *)
THEOREM TypeCorrect ==
    ASSUME FilterTyped
    PROVE  Spec => []TypeOK
<1> USE ScalarAssumption
<1>1. Init => TypeInv
  <2> SUFFICES ASSUME Init PROVE RestTypeOK
    BY InitPollInv, TypeInvSplit
  <2>1. [search |-> <<>>, tables |-> tables] \in TimerRec
    BY DEF Init, TimerRec
  <2>2. filtered \in Seq(Seq(Chars)) /\ tables \in TablesValues
    BY TablesListAssumption DEF Init
  <2>3. timers \in Seq(TimerRec)
    BY <2>1 DEF Init
  <2>4. search \in Searches /\ statusFrom \in Paths \cup {NoPath}
        /\ searchDue \in BOOLEAN /\ lateUpdate \in BOOLEAN
    BY DEF Init
  <2>5. QED
    BY <2>2, <2>3, <2>4 DEF RestTypeOK
<1>2. TypeInv /\ [Next]_vars => TypeInv'
  <2> SUFFICES ASSUME PollInv, RestTypeOK, [Next]_vars PROVE RestTypeOK'
    BY StepPollInv DEF TypeInv, TypeOK, PollInv, PollTypeOK, RestTypeOK, TimerRec
  <2>0. /\ timers \in Seq(TimerRec) /\ mounted \in BOOLEAN
        /\ search \in Searches /\ tables \in TablesValues
    BY DEF RestTypeOK, PollInv, PollTypeOK
  (* A flush of the unchanged queue that sets no state.                    *)
  <2>F. ASSUME UNCHANGED <<tables, search, filtered, statusFrom, lateUpdate>>,
               Flush(timers)
        PROVE  RestTypeOK'
    BY <2>0, <2>F, FlushTimers DEF RestTypeOK
  <2>1. ASSUME NEW v \in Searches, HandleSearch(v) PROVE RestTypeOK'
    BY <2>1 DEF HandleSearch, RestTypeOK
  <2>2. ASSUME NEW ts \in TablesValues, TablesChange(ts) PROVE RestTypeOK'
    BY <2>2 DEF TablesChange, RestTypeOK
  <2>3. ASSUME NEW q \in Paths \cup {NoPath}, PathChange(q) PROVE RestTypeOK'
    BY <2>3 DEF PathChange, RestTypeOK
  <2>4. CASE RunEffects
    BY <2>4, <2>F DEF RunEffects
  <2>5. CASE FilterFires
    <3>1. timers # <<>> /\ Flush(Tail(timers))
      BY <2>5 DEF FilterFires
    <3>2. Head(timers) \in TimerRec /\ Tail(timers) \in Seq(TimerRec)
      BY <2>0, <3>1
    <3>3. timers' \in Seq(TimerRec) /\ searchDue' \in BOOLEAN
      BY <2>0, <3>1, <3>2, FlushTimers
    <3>4. FilterTables(Head(timers).tables, Head(timers).search) \in Seq(Seq(Chars))
      BY <3>2 DEF FilterTyped, TimerRec
    <3>5. filtered' \in Seq(Seq(Chars)) /\ lateUpdate' \in BOOLEAN
      BY <2>0, <2>5, <3>4 DEF FilterFires, SetState, RestTypeOK
    <3>6. QED
      BY <2>5, <3>3, <3>5 DEF FilterFires, RestTypeOK
  <2>6. ASSUME NEW q \in Paths, PollResponse(q) PROVE RestTypeOK'
    <3>1. mounted
      BY <2>6 DEF PollResponse, PollInv, OneLivePoll
    <3>2. statusFrom' = q /\ lateUpdate' = lateUpdate /\ Flush(timers)
      BY <2>6, <3>1 DEF PollResponse, SetState
    <3>3. timers' \in Seq(TimerRec) /\ searchDue' \in BOOLEAN
      BY <2>0, <3>2, FlushTimers
    <3>4. QED
      BY <2>6, <3>2, <3>3 DEF PollResponse, RestTypeOK
  <2>7. CASE Unmount
    BY <2>7 DEF Unmount, RestTypeOK
  <2>8. CASE UNCHANGED vars
    BY <2>8 DEF vars, RestTypeOK
  <2>9. QED
    BY <2>1, <2>2, <2>3, <2>4, <2>5, <2>6, <2>7, <2>8 DEF Next
<1>3. QED
  BY <1>1, <1>2, PTL DEF Spec, TypeInv
=============================================================================
