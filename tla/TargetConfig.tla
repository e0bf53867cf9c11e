---------------------------- MODULE TargetConfig ----------------------------
(***************************************************************************)
(* The target step of the replicator wizard,                               *)
(* components/Replicator/Create/Content/TargetConfig/index.tsx, with its   *)
(* TargetList (TargetConfig/TargetList/index.tsx).                         *)
(*                                                                         *)
(* targetPluginInfo, targetPluginWidget and targetConfig live in the       *)
(* wizard's context; values and loading are local state.  A selection      *)
(* (handleTargetSelect) sends fetchPluginInfo, whose response sets the     *)
(* info and sends fetchPluginWidget, whose completion clears loading and   *)
(* values.  Nothing cancels the requests of an earlier selection, and the  *)
(* responses arrive in any order.  A request may also fail: no handler     *)
(* changes state then (fetchPluginInfo's only logs, the others have none). *)
(* A plugin is abstracted to its name, its properties to the required      *)
(* ones, and a values object to the set of properties it fills.            *)
(***************************************************************************)
EXTENDS Naturals, FiniteSets

CONSTANTS
    Targets,      \* target plugins the backend lists
    Props,        \* plugin property names
    Required,     \* Required[t]: the required properties of target t
    None,         \* null / undefined
    MaxSelects    \* bound on handleTargetSelect calls

ASSUME TargetConfigAssumption ==
    /\ Targets # {}
    /\ None \notin Targets
    /\ Required \in [Targets -> SUBSET Props]
    /\ MaxSelects \in Nat \ {0}  \* room for TargetList's own selection

(* A request in flight: "list" (fetchPluginsAndWidgets), "info"            *)
(* (fetchPluginInfo), "widget" (fetchPluginWidget of a selection) or       *)
(* "mount" (fetchPluginWidget of the mount effect); seq tells apart two    *)
(* requests of the same kind and target.                                   *)
Request == [kind : {"list", "info", "widget", "mount"},
            target : Targets \cup {None}, seq : Nat]

VARIABLES
    info,          \* context targetPluginInfo
    widget,        \* context targetPluginWidget: the target it describes
    targetConfig,  \* context targetConfig: the properties it fills
    values,        \* values state: the properties it fills
    loading,       \* loading state
    listed,        \* TargetList's targets state is the fetched list
    mountInfo,     \* currentSelection as TargetList's mount effect saw it
    reqs,          \* requests in flight
    sent,          \* requests sent
    selects        \* handleTargetSelect calls

vars == <<info, widget, targetConfig, values, loading, listed, mountInfo,
          reqs, sent, selects>>

TypeOK ==
    /\ info \in Targets \cup {None}
    /\ widget \in Targets \cup {None}
    /\ targetConfig \subseteq Props
    /\ values \subseteq Props
    /\ loading \in BOOLEAN
    /\ listed \in BOOLEAN
    /\ mountInfo \in Targets \cup {None}
    /\ reqs \subseteq Request
    /\ sent \in Nat
    /\ selects \in 0..MaxSelects

Send(kind, t, n) == [kind |-> kind, target |-> t, seq |-> sent + n]

(* isNextDisabled (lines 134-146): a required property of the selected     *)
(* plugin is unfilled; with no plugin, pluginProperties is {}.             *)
IsNextDisabled == info # None /\ ~(Required[info] \subseteq values)

-----------------------------------------------------------------------------
(* Mount, on entering the step with the context as an earlier visit left   *)
(* it: values from targetConfig, the mount effect's fetchPluginWidget when *)
(* only the info is known (lines 70-90), TargetList's fetch (lines 88-97). *)
Init ==
    /\ info \in Targets \cup {None}
    /\ widget \in IF info = None THEN {None} ELSE {None, info}
    /\ targetConfig \in IF info = None THEN {{}} ELSE SUBSET Props
    /\ values = targetConfig
    /\ loading = FALSE
    /\ listed = FALSE
    /\ mountInfo = info
    /\ reqs = {[kind |-> "list", target |-> None, seq |-> 1]} \cup
              IF info # None /\ widget = None
                THEN {[kind |-> "mount", target |-> info, seq |-> 2]} ELSE {}
    /\ sent = Cardinality(reqs)
    /\ selects = 0

(* handleTargetSelect(t) (lines 93-104).                                   *)
HandleTargetSelect(t) ==
    /\ selects < MaxSelects
    /\ loading' = TRUE
    /\ reqs' = reqs \cup {Send("info", t, 1)}
    /\ sent' = sent + 1
    /\ selects' = selects + 1

(* Mutant: the card's onClick={onSelect} passes the click event, not the  *)
(* target.                                                                 *)
SelectCardEvent(t) ==
    /\ listed
    /\ HandleTargetSelect([target |-> t])
    /\ UNCHANGED <<info, widget, targetConfig, values, listed, mountInfo>>

(* A click on a listed target card (line 162).                             *)
SelectCard(t) ==
    /\ listed
    /\ HandleTargetSelect(t)
    /\ UNCHANGED <<info, widget, targetConfig, values, listed, mountInfo>>

(* TargetList's response: a single target is selected when the selection  *)
(* seen at mount was empty (lines 89-95).                                  *)
ReceiveList(r) ==
    /\ r.kind = "list"
    /\ listed' = TRUE
    /\ IF Cardinality(Targets) = 1 /\ mountInfo = None
         THEN \E t \in Targets :
                /\ loading' = TRUE
                /\ reqs' = (reqs \ {r}) \cup {Send("info", t, 1)}
                /\ sent' = sent + 1
                /\ selects' = selects + 1
         ELSE /\ reqs' = reqs \ {r}
              /\ UNCHANGED <<loading, sent, selects>>
    /\ UNCHANGED <<info, widget, targetConfig, values, mountInfo>>

(* fetchPluginInfo succeeds: setTargetPluginInfo, then fetchPluginWidget   *)
(* (lines 105-114).                                                        *)
ReceiveInfo(r) ==
    /\ r.kind = "info"
    /\ info' = r.target
    /\ reqs' = (reqs \ {r}) \cup {Send("widget", r.target, 1)}
    /\ sent' = sent + 1
    /\ UNCHANGED <<widget, targetConfig, values, loading, listed, mountInfo,
                   selects>>

(* fetchPluginWidget of a selection emits and completes:                   *)
(* setTargetPluginWidget, then setLoading(false) and setValues({})         *)
(* (lines 115-122).                                                        *)
ReceiveWidget(r) ==
    /\ r.kind = "widget"
    /\ widget' = r.target
    /\ loading' = FALSE
    /\ values' = {}
    /\ reqs' = reqs \ {r}
    /\ UNCHANGED <<info, targetConfig, listed, mountInfo, sent, selects>>

(* fetchPluginWidget of the mount effect: setTargetPluginWidget (line 88). *)
ReceiveMountWidget(r) ==
    /\ r.kind = "mount"
    /\ widget' = r.target
    /\ reqs' = reqs \ {r}
    /\ UNCHANGED <<info, targetConfig, values, loading, listed, mountInfo,
                   sent, selects>>

(* The ConfigurationGroup, shown for a selected plugin when not loading,   *)
(* changes values (lines 175-183).                                         *)
EditValues(v) ==
    /\ info # None
    /\ ~loading
    /\ values' = v
    /\ UNCHANGED <<info, widget, targetConfig, loading, listed, mountInfo,
                   reqs, sent, selects>>

(* handleNext from an enabled Next button (lines 148-150, 195).            *)
HandleNext ==
    /\ ~IsNextDisabled
    /\ targetConfig' = values
    /\ UNCHANGED <<info, widget, values, loading, listed, mountInfo, reqs, sent,
                   selects>>

(* A request fails: fetchPluginInfo's error handler only logs (lines      *)
(* 125-130); the other subscriptions have no error handler (lines 87, 114, *)
(* and TargetList line 89), and an error ends a widget request without its *)
(* completion, so setLoading(false) is not called.                         *)
Fail(r) ==
    /\ reqs' = reqs \ {r}
    /\ UNCHANGED <<info, widget, targetConfig, values, loading, listed,
                   mountInfo, sent, selects>>

(* A response or an error is delivered.                                    *)
Respond ==
    \E r \in reqs :
        \/ ReceiveList(r)
        \/ ReceiveInfo(r)
        \/ ReceiveWidget(r)
        \/ ReceiveMountWidget(r)
        \/ Fail(r)

Next ==
    \/ \E t \in Targets : SelectCard(t)
    \/ Respond
    \/ \E v \in SUBSET Props : EditValues(v)
    \/ HandleNext

Spec == Init /\ [][Next]_vars

-----------------------------------------------------------------------------
=============================================================================
