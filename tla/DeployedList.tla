---------------------------- MODULE DeployedList ----------------------------
(***************************************************************************)
(* The list of deployed replication pipelines,                             *)
(* components/Replicator/List/Deployed/index.tsx.                          *)
(*                                                                         *)
(* fetchList requests the list; its response sets `replicators` and sends  *)
(* batchStatus and batchAppDetail for the names in it, whose responses     *)
(* set statusMap and configMap.  fetchList runs on mount and again, as     *)
(* onDelete, after every confirmed delete, with no cancellation of the     *)
(* runs still in flight.  A request is served by the backend (it takes a   *)
(* snapshot of the deployed apps) and its response is delivered later, in  *)
(* any order: nothing in fetchList orders the responses.  The three maps   *)
(* are abstracted to the names they have keys for and the fetchList run   *)
(* they come from.                                                         *)
(***************************************************************************)
EXTENDS Naturals, FiniteSets

CONSTANTS
    Names,       \* replicator (app) names
    Unparsable,  \* apps whose configuration JSON.parse rejects
    None,        \* null
    MaxFetches   \* bound on fetchList runs

ASSUME DeployedListAssumption ==
    /\ Unparsable \subseteq Names
    /\ None \notin Names
    /\ MaxFetches \in Nat \ {0}

Kinds == {"list", "status", "detail"}

(* A request in flight: its fetchList run, its body (the names of a batch  *)
(* request), and the apps the backend saw when serving it.                 *)
Request == [kind : Kinds, fetch : 1..MaxFetches, body : SUBSET Names,
            served : BOOLEAN, snap : SUBSET Names]

(* What a state variable shows: the names it has keys for, and the run.    *)
Shown == [fetch : 0..MaxFetches, names : SUBSET Names]

VARIABLES
    server,       \* the apps deployed on the backend
    fetches,      \* fetchList runs started
    reqs,         \* requests in flight
    replicators,  \* the replicators state
    statusMap,    \* the statusMap state
    configMap,    \* the configMap state
    deleting      \* the replicatorNameDelete state

vars == <<server, fetches, reqs, replicators, statusMap, configMap, deleting>>

TypeOK ==
    /\ server \subseteq Names
    /\ fetches \in 1..MaxFetches
    /\ reqs \subseteq Request
    /\ replicators \in Shown
    /\ statusMap \in Shown
    /\ configMap \in Shown
    /\ deleting \in Names \cup {None}

NewRequest(kind, f, body) ==
    [kind |-> kind, fetch |-> f, body |-> body, served |-> FALSE, snap |-> {}]

(* fetchList (lines 65-70): run f sends the list request.                  *)
FetchList(f) == NewRequest("list", f, {})

-----------------------------------------------------------------------------
(* Mount: empty state, and useEffect(fetchList, []) (lines 59-62, 129).    *)
Init ==
    /\ server = Names
    /\ fetches = 1
    /\ reqs = {FetchList(1)}
    /\ replicators = [fetch |-> 0, names |-> {}]
    /\ statusMap = [fetch |-> 0, names |-> {}]
    /\ configMap = [fetch |-> 0, names |-> {}]
    /\ deleting = None

(* The backend serves a request: it reads the deployed apps.               *)
Serve(r) ==
    /\ ~r.served
    /\ reqs' = (reqs \ {r}) \cup {[r EXCEPT !.served = TRUE, !.snap = server]}
    /\ UNCHANGED <<server, fetches, replicators, statusMap, configMap, deleting>>

(* The list response (lines 70-96): setReplicators(list), then batchStatus *)
(* and batchAppDetail for the names of the list.                           *)
ReceiveList(r) ==
    /\ r.kind = "list"
    /\ r.served
    /\ replicators' = [fetch |-> r.fetch, names |-> r.snap]
    /\ reqs' = (reqs \ {r}) \cup
                 {NewRequest("status", r.fetch, r.snap),
                  NewRequest("detail", r.fetch, r.snap)}
    /\ UNCHANGED <<server, fetches, statusMap, configMap, deleting>>

(* The batchStatus response (lines 82-90): a map with one key per app of   *)
(* the body, deployed or not, replaces statusMap.                          *)
ReceiveStatus(r) ==
    /\ r.kind = "status"
    /\ r.served
    /\ statusMap' = [fetch |-> r.fetch, names |-> r.body]
    /\ reqs' = reqs \ {r}
    /\ UNCHANGED <<server, fetches, replicators, configMap, deleting>>

(* The batchAppDetail response (lines 98-125): apps without detail (no     *)
(* longer deployed) and apps whose configuration does not parse are        *)
(* skipped; the map of the others replaces configMap.                      *)
ReceiveDetail(r) ==
    /\ r.kind = "detail"
    /\ r.served
    /\ configMap' = [fetch |-> r.fetch, names |-> (r.body \cap r.snap) \ Unparsable]
    /\ reqs' = reqs \ {r}
    /\ UNCHANGED <<server, fetches, replicators, statusMap, deleting>>

(* Mutant: the row's Delete action stores the whole row object.            *)
SelectDeleteRow(n) ==
    /\ deleting = None
    /\ n \in replicators.names
    /\ deleting' = [name |-> n]
    /\ UNCHANGED <<server, fetches, reqs, replicators, statusMap, configMap>>

(* The Delete action of a shown row opens the confirmation (line 157).     *)
SelectDelete(n) ==
    /\ deleting = None
    /\ n \in replicators.names
    /\ deleting' = n
    /\ UNCHANGED <<server, fetches, reqs, replicators, statusMap, configMap>>

(* closeModal without deleting (line 189).                                 *)
CloseModal ==
    /\ deleting # None
    /\ deleting' = None
    /\ UNCHANGED <<server, fetches, reqs, replicators, statusMap, configMap>>

(* DeleteConfirmation deletes the app, calls onDelete = fetchList and      *)
(* closes (lines 185-191).                                                 *)
ConfirmDelete ==
    /\ deleting # None
    /\ fetches < MaxFetches
    /\ server' = server \ {deleting}
    /\ fetches' = fetches + 1
    /\ reqs' = reqs \cup {FetchList(fetches + 1)}
    /\ deleting' = None
    /\ UNCHANGED <<replicators, statusMap, configMap>>

Next ==
    \/ \E r \in reqs :
          \/ Serve(r)
          \/ ReceiveList(r)
          \/ ReceiveStatus(r)
          \/ ReceiveDetail(r)
    \/ \E n \in Names : SelectDelete(n)
    \/ CloseModal
    \/ ConfirmDelete

Spec == Init /\ [][Next]_vars

=============================================================================
