------------------------- MODULE DeployedList_proofs -------------------------
(***************************************************************************)
(* Proofs about the deployed-replicator list: type correctness with the   *)
(* responses of overlapping fetchList runs delivered in any order.         *)
(***************************************************************************)
EXTENDS DeployedList, TLAPS

-----------------------------------------------------------------------------
(* A request built from a kind, a run and a body is well formed.          *)
LEMMA NewRequestType ==
    ASSUME NEW k \in Kinds, NEW f \in 1..MaxFetches, NEW b \in SUBSET Names
    PROVE  NewRequest(k, f, b) \in Request
BY DEF NewRequest, Request

(* A step keeps the types.                                                 *)
LEMMA TypeStep == TypeOK /\ [Next]_vars => TypeOK'
<1> USE DeployedListAssumption
<1> SUFFICES ASSUME TypeOK, [Next]_vars PROVE TypeOK'
  OBVIOUS
<1>1. ASSUME NEW r \in reqs, Serve(r) PROVE TypeOK'
  BY <1>1 DEF Serve, TypeOK, Request
<1>2. ASSUME NEW r \in reqs, ReceiveList(r) PROVE TypeOK'
  <2>1. r \in Request
    BY DEF TypeOK
  <2>2. /\ NewRequest("status", r.fetch, r.snap) \in Request
        /\ NewRequest("detail", r.fetch, r.snap) \in Request
    BY <2>1, NewRequestType DEF Request, Kinds, TypeOK
  <2>3. QED
    BY <1>2, <2>1, <2>2 DEF ReceiveList, TypeOK, Request, Shown
<1>3. ASSUME NEW r \in reqs, ReceiveStatus(r) PROVE TypeOK'
  BY <1>3 DEF ReceiveStatus, TypeOK, Request, Shown
<1>4. ASSUME NEW r \in reqs, ReceiveDetail(r) PROVE TypeOK'
  BY <1>4 DEF ReceiveDetail, TypeOK, Request, Shown
<1>5. ASSUME NEW n \in Names, SelectDelete(n) PROVE TypeOK'
  BY <1>5 DEF SelectDelete, TypeOK, Shown
<1>6. CASE CloseModal
  BY <1>6 DEF CloseModal, TypeOK
<1>7. CASE ConfirmDelete
  <2>1. FetchList(fetches + 1) \in Request
    BY <1>7, NewRequestType DEF ConfirmDelete, FetchList, TypeOK, Kinds
  <2>2. QED
    BY <1>7, <2>1 DEF ConfirmDelete, TypeOK
<1>8. CASE UNCHANGED vars
  BY <1>8 DEF vars, TypeOK
<1>9. QED
  BY <1>1, <1>2, <1>3, <1>4, <1>5, <1>6, <1>7, <1>8 DEF Next

(* Every state keeps its type: requests stay well formed through serving   *)
(* and delivery, the displays only take runs that were started, and a     *)
(* delete is only ever pending for a shown replicator.                     *)
THEOREM TypeCorrect == Spec => []TypeOK
<1>1. Init => TypeOK
  BY DeployedListAssumption DEF Init, TypeOK, Request, Shown, FetchList, NewRequest, Kinds
<1>2. QED
  BY <1>1, TypeStep, PTL DEF Spec
=============================================================================
