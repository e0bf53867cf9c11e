--------------------------- MODULE ConfigurableTab ---------------------------
(***************************************************************************)
(* The tab shell of components/ConfigurableTab/index.js.                   *)
(*                                                                         *)
(* The component keeps { tabs, activeTab } in its own state and also       *)
(* receives an activeTab prop from its parent.  A click on a tab header    *)
(* (setTab) enqueues a state update and calls the parent's onTabClick      *)
(* inside the same React event batch.  If the parent re-renders in that    *)
(* batch, componentWillReceiveProps runs BEFORE the queued update is       *)
(* merged, so it compares the new prop with the committed, stale,          *)
(* this.state.activeTab; the queued click is merged first and the update   *)
(* enqueued by componentWillReceiveProps after it.  `clicked` holds the    *)
(* queued click while the batch is open.                                   *)
(*                                                                         *)
(* The parent is the environment: it may re-render the shell at any time   *)
(* with any well-formed props (WellFormed), and in its onTabClick it       *)
(* either follows the click (Follow) or re-renders with any props.         *)
(***************************************************************************)
EXTENDS FiniteSets

CONSTANTS
    Ids,         \* tab ids (PropTypes: string or number)
    FalsyIds,    \* the ids JavaScript treats as false (0 or "")
    NoTab,       \* undefined: no activeTab prop, or no tab found
    Configs,     \* tabConfig values the parent may pass: [tabs, defaultTab]
    Controlled,  \* the parent passes an activeTab prop
    Follow       \* in onTabClick the parent re-renders with the clicked tab

(* A tabConfig.tabs entry: a leaf tab, or a "tab-group" whose subtabs are   *)
(* leaf tabs.  Ids are unique across a configuration.                      *)
TabEntry == [type : {"tab", "tab-group"}, ids : SUBSET Ids]

(* The leaf tabs render() collects by flattening tab groups (lines 72-79).  *)
Leaves(tabs) == UNION {e.ids : e \in tabs}

ASSUME ConstantsAssumption ==
    /\ NoTab \notin Ids
    /\ FalsyIds \subseteq Ids
    /\ Configs \subseteq [tabs : SUBSET TabEntry, defaultTab : Ids]
    /\ \A c \in Configs : c.defaultTab \in Leaves(c.tabs)
    /\ Configs # {}
    /\ Controlled \in BOOLEAN
    /\ Follow \in BOOLEAN

(* `x && ...` and `x || ...` in JavaScript: undefined, 0 and "" are false. *)
Truthy(x) == x \notin FalsyIds \cup {NoTab}

(* The activeTab values the parent passes: a tab id when it controls the   *)
(* shell, nothing otherwise.  A parent passes an id of its own tabs.       *)
ActiveProps == IF Controlled THEN Ids ELSE {NoTab}

WellFormed(p) == p.active = NoTab \/ p.active \in Leaves(p.config.tabs)

ParentProps == {p \in [config : Configs, active : ActiveProps] : WellFormed(p)}

VARIABLES
    props,    \* the props of the last render: [config, active]
    st,       \* the committed state: [tabs, activeTab]
    clicked,  \* the tab id queued by setTab in the open batch, or NoTab
    scroll    \* scrollTop of the .tab-content pane: "top" or "scrolled"

vars == <<props, st, clicked, scroll>>

TypeOK ==
    /\ props \in [config : Configs, active : Ids \cup {NoTab}]
    /\ st \in [tabs : SUBSET TabEntry, activeTab : Ids \cup {NoTab}]
    /\ clicked \in Ids \cup {NoTab}
    /\ scroll \in {"top", "scrolled"}

-----------------------------------------------------------------------------
(* Mutants: plausible slips in the initialiser.                            *)
(* The defaultTab fallback is forgotten: activeTab: this.props.activeTab.  *)
InitNoDefault ==
    /\ props \in ParentProps
    /\ st = [tabs |-> props.config.tabs, activeTab |-> props.active]
    /\ clicked = NoTab
    /\ scroll = "top"

(* The prop is ignored: activeTab: this.props.tabConfig.defaultTab.        *)
InitIgnoringProp ==
    /\ props \in ParentProps
    /\ st = [tabs |-> props.config.tabs, activeTab |-> props.config.defaultTab]
    /\ clicked = NoTab
    /\ scroll = "top"

(* Class-field state initialiser (lines 52-56).                            *)
Init ==
    /\ props \in ParentProps
    /\ st = [tabs |-> props.config.tabs,
             activeTab |-> IF Truthy(props.active) THEN props.active
                           ELSE props.config.defaultTab]
    /\ clicked = NoTab
    /\ scroll = "top"

(* Mutant: the header passes its click event to setTab (onClick={this.    *)
(* setTab}), so the event object is queued as the tab id.                  *)
SetTabWithEvent(t) ==
    /\ clicked = NoTab
    /\ t \in Leaves(st.tabs)
    /\ clicked' = [target |-> t]
    /\ scroll' = "top"
    /\ UNCHANGED <<props, st>>

(* setTab(tabId) on a click of a rendered header, a TabHead or a TabGroup  *)
(* subtab (lines 58-65, 85-101): the state update is queued, the pane is   *)
(* scrolled to the top, and onTabClick is called; what the parent does in  *)
(* onTabClick is the next step of the batch.                               *)
SetTab(t) ==
    /\ clicked = NoTab
    /\ t \in Leaves(st.tabs)
    /\ clicked' = t
    /\ scroll' = "top"
    /\ UNCHANGED <<props, st>>

(* Mutant: componentWillReceiveProps only copies the tabs, never the prop. *)
NextActiveTabNoOverride(p) ==
    IF clicked # NoTab THEN clicked ELSE st.activeTab

(* componentWillReceiveProps(nextProps) followed by the commit of the      *)
(* batch (lines 44-50): the prop is compared with the committed state, the *)
(* queued click is merged, then the update of componentWillReceiveProps.   *)
NextActiveTab(p) ==
    IF Truthy(p.active) /\ p.active # st.activeTab THEN p.active
    ELSE IF clicked # NoTab THEN clicked
    ELSE st.activeTab

ReceiveProps(p) ==
    /\ props' = p
    /\ st' = [tabs |-> p.config.tabs, activeTab |-> NextActiveTab(p)]
    /\ clicked' = NoTab
    /\ UNCHANGED scroll

(* The parent re-renders on its own, outside a click.                      *)
ParentRender(p) ==
    /\ clicked = NoTab
    /\ p \in ParentProps
    /\ ReceiveProps(p)

(* The props the parent re-renders with from onTabClick(t).               *)
OnTabClickProps(t) ==
    IF Follow THEN {[props EXCEPT !.active = IF Controlled THEN t ELSE NoTab]}
    ELSE ParentProps

(* The parent re-renders from inside onTabClick, in the click's batch.     *)
ParentRenderOnClick(p) ==
    /\ clicked # NoTab
    /\ p \in OnTabClickProps(clicked)
    /\ ReceiveProps(p)

(* The batch ends without a parent re-render: no onTabClick prop, or a     *)
(* parent that does not re-render; the queued setState is committed.       *)
CommitClick ==
    /\ clicked # NoTab
    /\ ~(Controlled /\ Follow)
    /\ st' = [st EXCEPT !.activeTab = clicked]
    /\ clicked' = NoTab
    /\ UNCHANGED <<props, scroll>>

(* The user scrolls the content pane.                                      *)
UserScroll ==
    /\ clicked = NoTab
    /\ scroll' = "scrolled"
    /\ UNCHANGED <<props, st, clicked>>

Next ==
    \/ \E t \in Ids : SetTab(t)
    \/ \E p \in [config : Configs, active : Ids \cup {NoTab}] :
          ParentRender(p) \/ ParentRenderOnClick(p)
    \/ CommitClick
    \/ UserScroll

Spec == Init /\ [][Next]_vars

-----------------------------------------------------------------------------
(* render() looks the active tab up among the leaf tabs and dereferences   *)
(* it (lines 80, 112-122): the activeTab in the committed state must name  *)
(* a leaf tab of the committed tabs, or render throws a TypeError.         *)
ActiveTabExists == st.activeTab \in Leaves(st.tabs)

(* Between batches, a shell whose parent passes an activeTab shows that    *)
(* tab: the prop, not the shell's own state, has the last word (spec 8.1,  *)
(* 8.2).                                                                   *)
PropAuthority ==
    (clicked = NoTab /\ props.active # NoTab) => st.activeTab = props.active

(* A step in which the parent switches its activeTab prop shows the new    *)
(* prop, overriding a click queued in the same batch (spec 8.2).           *)
ExternalSwitchWins ==
    [][(props'.active # props.active /\ props'.active # NoTab)
          => st'.activeTab = props'.active]_vars

=============================================================================
