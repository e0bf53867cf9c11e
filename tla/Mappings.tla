------------------------------ MODULE Mappings ------------------------------
(***************************************************************************)
(* The column mapping view of a table in the assessment step,              *)
(* components/Replicator/Create/Content/Assessment/TablesAssessment/       *)
(* Mappings/index.tsx.                                                     *)
(*                                                                         *)
(* On mount the view sends assessTable; the response's columns are sorted  *)
(* by support tier with lodash sortBy and shown, an error is shown as is.  *)
(* The Back button calls onClose, and the parent unmounts the view; the    *)
(* subscription is never unsubscribed.  A column is abstracted to its      *)
(* source name and its support value.                                      *)
(***************************************************************************)
EXTENDS Naturals, Sequences, FiniteSets, TLC

CONSTANTS
    Names,      \* column source names
    Supports,   \* support values: "no", "partial", "yes" and unknown ones
    Responses,  \* the columns an assessTable response may carry
    None        \* null

ASSUME MappingsAssumption ==
    /\ {"no", "partial"} \subseteq Supports
    /\ IsFiniteSet(Names)
    /\ Responses \subseteq Seq([name : Names, support : Supports])
    /\ None \notin Seq([name : Names, support : Supports])

Column == [name : Names, support : Supports]

VARIABLES
    mounted,    \* the view is mounted
    inflight,   \* the assessTable response has not arrived
    received,   \* the columns of the response, or None
    columns,    \* the columns state
    error,      \* the error state
    loading     \* the loading state

vars == <<mounted, inflight, received, columns, error, loading>>

TypeOK ==
    /\ mounted \in BOOLEAN
    /\ inflight \in BOOLEAN
    /\ received \in Responses \cup {None}
    /\ \E n \in 0..Cardinality(Names) : columns \in [1..n -> Column]
    /\ error \in {None, "err"}
    /\ loading \in BOOLEAN

(* Mutant: the tiers of "no" and "partial" are swapped.                    *)
TierSwapped(c) ==
    CASE c.support = "partial" -> 0
      [] c.support = "no" -> 1
      [] OTHER -> 2

(* The sort key (lines 174-183): "no" first, "partial" next, any other     *)
(* support value last.                                                     *)
Tier(c) ==
    CASE c.support = "no" -> 0
      [] c.support = "partial" -> 1
      [] OTHER -> 2

(* lodash sortBy(s, [Tier]): ascending by key, and by position where keys  *)
(* are equal (sortBy compares the original index last).                    *)
SortByTier(s) ==
    LET Before(i, j) == Tier(s[i]) < Tier(s[j]) \/ (Tier(s[i]) = Tier(s[j]) /\ i < j)
        p == CHOOSE p \in Permutations(DOMAIN s) :
                \A i, j \in DOMAIN s : i < j => Before(p[i], p[j])
    IN  [i \in DOMAIN s |-> s[p[i]]]

(* A call of setColumns, setError or setLoading: it updates the state of a *)
(* mounted view and is only a warning on an unmounted one.                 *)
SetState(upd) ==
    IF mounted THEN upd ELSE UNCHANGED <<columns, error, loading>>

-----------------------------------------------------------------------------
(* Mount: initial state and the effect's assessTable (lines 156-171).      *)
Init ==
    /\ mounted = TRUE
    /\ inflight = TRUE
    /\ received = None
    /\ columns = <<>>
    /\ error = None
    /\ loading = TRUE

(* The response: sorted columns, then loading cleared (lines 172-188).     *)
ReceiveColumns(res) ==
    /\ inflight
    /\ inflight' = FALSE
    /\ received' = res
    /\ SetState(columns' = SortByTier(res) /\ loading' = FALSE /\ UNCHANGED error)
    /\ UNCHANGED mounted

(* Mutant: the error callback forgets setLoading(false).                   *)
ReceiveErrorKeepsLoading ==
    /\ inflight
    /\ inflight' = FALSE
    /\ SetState(error' = "err" /\ UNCHANGED <<columns, loading>>)
    /\ UNCHANGED <<mounted, received>>

(* The error callback (lines 189-192).                                     *)
ReceiveError ==
    /\ inflight
    /\ inflight' = FALSE
    /\ SetState(error' = "err" /\ loading' = FALSE /\ UNCHANGED columns)
    /\ UNCHANGED <<mounted, received>>

(* Back (line 203): onClose, and the parent unmounts the view.             *)
Close ==
    /\ mounted
    /\ mounted' = FALSE
    /\ UNCHANGED <<inflight, received, columns, error, loading>>

Next ==
    \/ \E res \in Responses : ReceiveColumns(res)
    \/ ReceiveError
    \/ Close

(* The backend answers the request.                                        *)
Spec == Init /\ [][Next]_vars /\ WF_vars(ReceiveError \/ \E res \in Responses : ReceiveColumns(res))

-----------------------------------------------------------------------------
(* The reference order of spec 3 and 8.4: the unsupported columns, then    *)
(* the partially supported ones, then the rest, each in response order.    *)
ReferenceOrder(s) ==
    SelectSeq(s, LAMBDA c : c.support = "no")
    \o SelectSeq(s, LAMBDA c : c.support = "partial")
    \o SelectSeq(s, LAMBDA c : c.support \notin {"no", "partial"})

(* Once the columns of a response are shown, they are that response's      *)
(* columns in the reference order: no column is lost or duplicated, tiers  *)
(* are ordered and the order within a tier is the fetch order.             *)
ColumnsOrdered ==
    (mounted /\ received # None) => columns = ReferenceOrder(received)

(* The loading indicator of a mounted view goes away, on success and on    *)
(* error alike.                                                            *)
LoadingEnds == (mounted /\ loading) ~> (~loading \/ ~mounted)

=============================================================================
