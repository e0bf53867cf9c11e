------------------------ MODULE ConfigurableTab_proofs ------------------------
(***************************************************************************)
(* Proofs about the tab shell of ConfigurableTab.                          *)
(***************************************************************************)
EXTENDS ConfigurableTab, TLAPS

(* The inductive invariant of a shell whose parent controls it and follows *)
(* its clicks: the committed state mirrors the props, and a queued click   *)
(* names a rendered tab.                                                   *)
ControlledInv ==
    /\ TypeOK
    /\ props.active \in Leaves(props.config.tabs)
    /\ st.tabs = props.config.tabs
    /\ st.activeTab = props.active
    /\ clicked \in Leaves(st.tabs) \cup {NoTab}

-----------------------------------------------------------------------------
(* Every value the parent may pass is a well-typed props record.           *)
LEMMA ParentPropsType ==
    ParentProps \subseteq [config : Configs, active : Ids \cup {NoTab}]
BY DEF ParentProps, ActiveProps

(* Every step keeps the committed state and the queue well typed.         *)
LEMMA TypeStep == TypeOK /\ [Next]_vars => TypeOK'
<1> USE ConstantsAssumption
<1> SUFFICES ASSUME TypeOK, [Next]_vars PROVE TypeOK'
  OBVIOUS
<1>1. ASSUME NEW t \in Ids, SetTab(t) PROVE TypeOK'
  BY <1>1 DEF SetTab, TypeOK
<1>2. ASSUME NEW p \in [config : Configs, active : Ids \cup {NoTab}],
             ReceiveProps(p)
      PROVE TypeOK'
  <2>1. NextActiveTab(p) \in Ids \cup {NoTab}
    BY DEF NextActiveTab, TypeOK
  <2>2. QED
    BY <1>2, <2>1 DEF ReceiveProps, TypeOK
<1>3. CASE CommitClick
  BY <1>3 DEF CommitClick, TypeOK
<1>4. CASE UserScroll
  BY <1>4 DEF UserScroll, TypeOK
<1>5. CASE UNCHANGED vars
  BY <1>5 DEF vars, TypeOK
<1>6. QED
  BY <1>1, <1>2, <1>3, <1>4, <1>5
     DEF Next, ParentRender, ParentRenderOnClick

(* The committed state and the queue keep their types: whatever the       *)
(* parent passes and whatever is clicked, setTab and componentWillReceive- *)
(* Props only store tab ids, undefined and tabConfig.tabs.                 *)
THEOREM TypeCorrect == Spec => []TypeOK
<1> USE ConstantsAssumption
<1>1. Init => TypeOK
  BY ParentPropsType DEF Init, TypeOK
<1>2. TypeOK /\ [Next]_vars => TypeOK'
  BY TypeStep
<1>3. QED
  BY <1>1, <1>2, PTL DEF Spec

(* A shell whose parent passes a truthy activeTab of its own tabs and, in  *)
(* onTabClick, re-renders with the clicked tab never renders a missing    *)
(* tab and, between clicks, always shows the parent's activeTab: the       *)
(* stale this.state read by componentWillReceiveProps is harmless then.   *)
THEOREM ControlledSafety ==
    ASSUME Controlled, Follow, FalsyIds = {}
    PROVE  Spec => [](ActiveTabExists /\ PropAuthority)
<1> USE ConstantsAssumption
<1>1. Init => ControlledInv
  BY ParentPropsType DEF Init, ControlledInv, TypeOK, ParentProps, ActiveProps,
                         WellFormed, Truthy
<1>2. ControlledInv /\ [Next]_vars => ControlledInv'
  <2> SUFFICES ASSUME ControlledInv, [Next]_vars PROVE ControlledInv'
    OBVIOUS
  <2>1. ASSUME NEW t \in Ids, SetTab(t) PROVE ControlledInv'
    BY <2>1 DEF SetTab, ControlledInv, TypeOK
  <2>2. ASSUME NEW p \in [config : Configs, active : Ids \cup {NoTab}],
               ParentRender(p)
        PROVE ControlledInv'
    <3>1. p.active \in Leaves(p.config.tabs) /\ Truthy(p.active)
      BY <2>2 DEF ParentRender, ParentProps, ActiveProps, WellFormed, Truthy
    <3>2. NextActiveTab(p) = p.active
      BY <2>2, <3>1 DEF ParentRender, NextActiveTab
    <3>3. QED
      BY <2>2, <3>1, <3>2 DEF ParentRender, ReceiveProps, ControlledInv, TypeOK
  <2>3. ASSUME NEW p \in [config : Configs, active : Ids \cup {NoTab}],
               ParentRenderOnClick(p)
        PROVE ControlledInv'
    <3>1. clicked \in Leaves(props.config.tabs)
      BY <2>3 DEF ParentRenderOnClick, ControlledInv
    <3>2. p = [props EXCEPT !.active = clicked]
      BY <2>3 DEF ParentRenderOnClick, OnTabClickProps
    <3>3. p.config = props.config /\ p.active = clicked
      BY <3>2 DEF ControlledInv, TypeOK
    <3>4. NextActiveTab(p) = clicked
      BY <2>3, <3>3 DEF ParentRenderOnClick, NextActiveTab
    <3>5. QED
      BY <2>3, <3>1, <3>3, <3>4 DEF ParentRenderOnClick, ReceiveProps,
                                    ControlledInv, TypeOK
  <2>4. CASE CommitClick
    BY <2>4 DEF CommitClick
  <2>5. CASE UserScroll
    BY <2>5 DEF UserScroll, ControlledInv, TypeOK
  <2>6. CASE UNCHANGED vars
    BY <2>6 DEF vars, ControlledInv, TypeOK
  <2>7. QED
    BY <2>1, <2>2, <2>3, <2>4, <2>5, <2>6 DEF Next
<1>3. ControlledInv => ActiveTabExists /\ PropAuthority
  BY DEF ControlledInv, ActiveTabExists, PropAuthority
<1>4. QED
  BY <1>1, <1>2, <1>3, PTL DEF Spec

-----------------------------------------------------------------------------
(* Every configuration the parent may pass has the same leaf tabs: it only *)
(* regroups them.                                                          *)
SameLeaves == \A c, d \in Configs : Leaves(c.tabs) = Leaves(d.tabs)

(* The inductive invariant of a shell without an activeTab prop: the       *)
(* committed tabs are some configuration's, and the active and the queued  *)
(* tab are among their leaves.                                             *)
UncontrolledInv ==
    /\ TypeOK
    /\ \E c \in Configs : st.tabs = c.tabs
    /\ ActiveTabExists
    /\ clicked \in Leaves(st.tabs) \cup {NoTab}

(* A shell whose parent passes no activeTab and only regroups the same     *)
(* tabs never renders a missing tab, whether or not the parent re-renders  *)
(* from onTabClick: componentWillReceiveProps keeps the committed or the   *)
(* queued tab, which is a leaf of every configuration.                     *)
THEOREM UncontrolledSafety ==
    ASSUME ~Controlled, SameLeaves
    PROVE  Spec => []ActiveTabExists
<1> USE ConstantsAssumption
<1>1. Init => UncontrolledInv
  <2> SUFFICES ASSUME Init PROVE UncontrolledInv
    OBVIOUS
  <2>1. props \in ParentProps /\ props.active = NoTab
    BY DEF Init, ParentProps, ActiveProps
  <2>2. ~Truthy(props.active)
    BY <2>1 DEF Truthy
  <2>3. QED
    BY <2>1, <2>2, ParentPropsType
       DEF Init, UncontrolledInv, ActiveTabExists, TypeOK
<1>2. UncontrolledInv /\ [Next]_vars => UncontrolledInv'
  <2> SUFFICES ASSUME UncontrolledInv, [Next]_vars PROVE UncontrolledInv'
    OBVIOUS
  <2>0. TypeOK'
    BY TypeStep DEF UncontrolledInv
  <2>1. ASSUME NEW t \in Ids, SetTab(t) PROVE UncontrolledInv'
    BY <2>0, <2>1 DEF SetTab, UncontrolledInv, ActiveTabExists
  <2>2. ASSUME NEW p \in [config : Configs, active : Ids \cup {NoTab}],
               ReceiveProps(p), p.active = NoTab
        PROVE UncontrolledInv'
    <3>1. NextActiveTab(p) = IF clicked # NoTab THEN clicked ELSE st.activeTab
      BY <2>2 DEF NextActiveTab, Truthy
    <3>2. PICK c \in Configs : st.tabs = c.tabs
      BY DEF UncontrolledInv
    <3>3. Leaves(p.config.tabs) = Leaves(st.tabs)
      BY <3>2 DEF SameLeaves
    <3>4. NextActiveTab(p) \in Leaves(p.config.tabs)
      BY <3>1, <3>3 DEF UncontrolledInv, ActiveTabExists
    <3>5. QED
      BY <2>0, <2>2, <3>4 DEF ReceiveProps, UncontrolledInv, ActiveTabExists
  <2>3. ASSUME NEW p \in [config : Configs, active : Ids \cup {NoTab}],
               ParentRender(p) \/ ParentRenderOnClick(p)
        PROVE  UncontrolledInv'
    <3>1. p \in ParentProps \/ p = [props EXCEPT !.active = NoTab]
      BY <2>3 DEF ParentRender, ParentRenderOnClick, OnTabClickProps
    <3>2. p.active = NoTab
      BY <3>1 DEF ParentProps, ActiveProps, UncontrolledInv, TypeOK
    <3>3. ReceiveProps(p)
      BY <2>3 DEF ParentRender, ParentRenderOnClick
    <3>4. QED
      BY <2>2, <3>2, <3>3
  <2>4. CASE CommitClick
    BY <2>0, <2>4 DEF CommitClick, UncontrolledInv, ActiveTabExists
  <2>5. CASE UserScroll
    BY <2>0, <2>5 DEF UserScroll, UncontrolledInv, ActiveTabExists
  <2>6. CASE UNCHANGED vars
    BY <2>0, <2>6 DEF vars, UncontrolledInv, ActiveTabExists
  <2>7. QED
    BY <2>1, <2>3, <2>4, <2>5, <2>6 DEF Next
<1>3. QED
  BY <1>1, <1>2, PTL DEF Spec, UncontrolledInv
=============================================================================
