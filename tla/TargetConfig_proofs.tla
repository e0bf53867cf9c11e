------------------------- MODULE TargetConfig_proofs -------------------------
(***************************************************************************)
(* Proofs about the target step: type correctness with responses and      *)
(* failures delivered in any order.                                        *)
(***************************************************************************)
EXTENDS TargetConfig, FiniteSetTheorems, TLAPS

-----------------------------------------------------------------------------
(* TargetList fetches the list once, on mount, and its cards can only be   *)
(* clicked once it has arrived: before that nothing has been selected.     *)
ListInv ==
    /\ \A r, o \in reqs : r.kind = "list" /\ o.kind = "list" => r = o
    /\ \A r \in reqs : r.kind = "list" => ~listed
    /\ ~listed => selects = 0

TInv == TypeOK /\ ListInv

LEMMA SendType ==
    ASSUME NEW k \in {"list", "info", "widget", "mount"},
           NEW t \in Targets \cup {None}, NEW n \in Nat, sent \in Nat
    PROVE  Send(k, t, n) \in Request
BY DEF Send, Request

(* The initial requests are the list request, and the mount effect's      *)
(* widget request when only the info is known; `sent` counts them.         *)
LEMMA InitTInv == Init => TInv /\ \A r \in reqs : r.seq <= sent
<1> USE TargetConfigAssumption
<1> SUFFICES ASSUME Init PROVE TInv /\ \A r \in reqs : r.seq <= sent
  OBVIOUS
<1> DEFINE l == [kind |-> "list", target |-> None, seq |-> 1]
           m == [kind |-> "mount", target |-> info, seq |-> 2]
<1>1. l \in Request /\ (info # None => m \in Request)
  BY DEF Init, Request
<1>2. /\ info \in Targets \cup {None} /\ widget \in Targets \cup {None}
      /\ targetConfig \subseteq Props /\ values \subseteq Props
      /\ loading = FALSE /\ listed = FALSE /\ mountInfo \in Targets \cup {None}
      /\ selects = 0 /\ sent = Cardinality(reqs)
  BY DEF Init
<1>B. selects \in 0..MaxSelects /\ loading \in BOOLEAN /\ listed \in BOOLEAN
  <2>1. selects \in 0..MaxSelects
    BY <1>2
  <2>2. loading \in BOOLEAN /\ listed \in BOOLEAN
    BY <1>2, Zenon
  <2>3. QED
    BY <2>1, <2>2
<1>3. CASE info # None /\ widget = None
  <2>1. reqs = {l} \cup {m} /\ l # m
    BY <1>3 DEF Init
  <2>2. IsFiniteSet({l}) /\ Cardinality({l}) = 1
    BY FS_Singleton
  <2>3. Cardinality({l} \cup {m}) = IF m \in {l} THEN Cardinality({l})
                                    ELSE Cardinality({l}) + 1
    BY <2>2, FS_AddElement
  <2>4. sent = 2
    BY <1>2, <2>1, <2>2, <2>3
  <2>5. reqs \subseteq Request /\ \A r \in reqs : r.seq <= sent
    BY <1>1, <1>3, <2>1, <2>4
  <2>6. ListInv
    BY <1>2, <2>1 DEF ListInv
  <2>7. QED
    BY <1>2, <1>B, <2>4, <2>5, <2>6 DEF TInv, TypeOK
<1>4. CASE ~(info # None /\ widget = None)
  <2>1. reqs = {l}
    BY <1>4 DEF Init
  <2>2. Cardinality({l}) = 1
    BY FS_Singleton
  <2>3. sent = 1
    BY <1>2, <2>1, <2>2
  <2>4. reqs \subseteq Request /\ \A r \in reqs : r.seq <= sent
    BY <1>1, <2>1, <2>3
  <2>5. ListInv
    BY <1>2, <2>1 DEF ListInv
  <2>6. QED
    BY <1>2, <1>B, <2>3, <2>4, <2>5 DEF TInv, TypeOK
<1>5. QED
  BY <1>3, <1>4

(* Every step keeps the state well typed and the list fetched once.        *)
LEMMA StepTInv == TInv /\ [Next]_vars => TInv'
<1> USE TargetConfigAssumption
<1> SUFFICES ASSUME TInv, [Next]_vars PROVE TInv'
  OBVIOUS
<1>0. sent \in Nat /\ selects \in 0..MaxSelects /\ reqs \subseteq Request
  BY DEF TInv, TypeOK
<1>1. ASSUME NEW t \in Targets, SelectCard(t) PROVE TInv'
  <2>1. Send("info", t, 1) \in Request
    BY <1>0, SendType
  <2>2. \A r \in reqs : r.kind # "list"
    BY <1>1 DEF SelectCard, TInv, ListInv
  <2>3. QED
    BY <1>0, <1>1, <2>1, <2>2 DEF SelectCard, HandleTargetSelect, Send, TInv, TypeOK, ListInv
<1>2. ASSUME NEW r \in reqs, ReceiveList(r) PROVE TInv'
  <2>1. /\ r.kind = "list" /\ ~listed /\ selects = 0
        /\ \A o \in reqs : o.kind = "list" => o = r
    BY <1>2 DEF ReceiveList, TInv, ListInv
  <2>2. CASE Cardinality(Targets) = 1 /\ mountInfo = None
    <3>1. PICK t \in Targets :
            /\ loading' = TRUE
            /\ reqs' = (reqs \ {r}) \cup {Send("info", t, 1)}
            /\ sent' = sent + 1
            /\ selects' = selects + 1
      BY <1>2, <2>2 DEF ReceiveList
    <3>2. Send("info", t, 1) \in Request /\ Send("info", t, 1).kind = "info"
      BY <1>0, SendType DEF Send
    <3>3. QED
      BY <1>0, <1>2, <2>1, <3>1, <3>2 DEF ReceiveList, TInv, TypeOK, ListInv
  <2>3. CASE ~(Cardinality(Targets) = 1 /\ mountInfo = None)
    <3>1. reqs' = reqs \ {r} /\ UNCHANGED <<loading, sent, selects>>
      BY <1>2, <2>3 DEF ReceiveList
    <3>2. QED
      BY <1>0, <1>2, <2>1, <3>1 DEF ReceiveList, TInv, TypeOK, ListInv
  <2>4. QED
    BY <2>2, <2>3
<1>3. ASSUME NEW r \in reqs, ReceiveInfo(r) PROVE TInv'
  <2>1. r.target \in Targets \cup {None}
    BY <1>0 DEF Request
  <2>2. Send("widget", r.target, 1) \in Request /\ Send("widget", r.target, 1).kind = "widget"
    BY <1>0, <2>1, SendType DEF Send
  <2>3. QED
    BY <1>0, <1>3, <2>1, <2>2 DEF ReceiveInfo, TInv, TypeOK, ListInv
<1>4. ASSUME NEW r \in reqs, ReceiveWidget(r) PROVE TInv'
  BY <1>0, <1>4 DEF ReceiveWidget, TInv, TypeOK, ListInv, Request
<1>5. ASSUME NEW r \in reqs, ReceiveMountWidget(r) PROVE TInv'
  BY <1>0, <1>5 DEF ReceiveMountWidget, TInv, TypeOK, ListInv, Request
<1>6. ASSUME NEW v \in SUBSET Props, EditValues(v) PROVE TInv'
  BY <1>6 DEF EditValues, TInv, TypeOK, ListInv
<1>7. CASE HandleNext
  BY <1>7 DEF HandleNext, TInv, TypeOK, ListInv
<1>8. CASE UNCHANGED vars
  BY <1>8 DEF vars, TInv, TypeOK, ListInv
<1>9. ASSUME NEW r \in reqs, Fail(r) PROVE TInv'
  BY <1>0, <1>9 DEF Fail, TInv, TypeOK, ListInv
<1>10. QED
  BY <1>1, <1>2, <1>3, <1>4, <1>5, <1>6, <1>7, <1>8, <1>9 DEF Next, Respond

(* Whatever the order of responses and failures, every reachable state of *)
(* the target step is well typed; in particular TargetList's auto-select   *)
(* never pushes the selection count past its bound.                        *)
THEOREM TypeCorrect == Spec => []TypeOK
<1>1. Init => TInv
  BY InitTInv
<1>2. TInv /\ [Next]_vars => TInv'
  BY StepTInv
<1>3. QED
  BY <1>1, <1>2, PTL DEF Spec, TInv

=============================================================================
