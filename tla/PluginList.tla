------------------------------ MODULE PluginList ------------------------------
(***************************************************************************)
(* The source picker of the replicator list,                               *)
(* components/Replicator/List/SourceList/index.tsx, and its name filter,   *)
(* which TargetConfig/TargetList/index.tsx repeats for targets.            *)
(*                                                                         *)
(* On mount the view requests the delta app, then, from its response, the  *)
(* source plugins and their widgets; the last response fills the list and  *)
(* clears loading.  Every request is answered: neither subscription has an *)
(* error callback, and the error paths are not modelled.  A plugin         *)
(* is abstracted to its name and the display name of its widget, both     *)
(* strings of characters.                                                  *)
(***************************************************************************)
EXTENDS Naturals, Sequences, SequencesExt

CONSTANTS
    Chars,       \* the characters of names and search strings
    LowerCase,   \* String.prototype.toLowerCase on one character
    NoDisplay,   \* a plugin without a widget
    Plugins,     \* the plugins: [name, display]
    Lists,       \* plugin lists a fetchPluginsAndWidgets response may carry
    Searches     \* search box values, <<>> included

ASSUME PluginListAssumption ==
    /\ LowerCase \in [Chars -> Chars]
    /\ NoDisplay \notin Seq(Chars)
    /\ Plugins \subseteq [name : Seq(Chars), display : Seq(Chars) \cup {NoDisplay}]
    /\ Lists \subseteq Seq(Plugins)
    /\ <<>> \in Searches

VARIABLES
    phase,    \* the request in flight: "app", "plugins", or "done"
    sources,  \* the sources state (with the widget map folded in)
    search,   \* the search state
    loading   \* the loading state

vars == <<phase, sources, search, loading>>

TypeOK ==
    /\ phase \in {"app", "plugins", "done"}
    /\ sources \in Lists \cup {<<>>}
    /\ search \in Searches
    /\ loading \in BOOLEAN

(* toLowerCase of a string.                                                *)
Lower(s) == [i \in DOMAIN s |-> LowerCase[s[i]]]

(* s.indexOf(t) !== -1 on lower-cased strings: t is a substring of s.      *)
Includes(s, t) == Lower(t) \in SubSeqs(Lower(s))

(* Mutant: the display name is not tested.                                 *)
FilterByNameOnly(ps, q) ==
    IF q = <<>> THEN ps
    ELSE SelectSeq(ps, LAMBDA p : Includes(p.name, q))

(* The filter of the render (lines 101-115): with a non-empty search, the  *)
(* plugins whose name, or whose truthy display name, includes the search.  *)
FilterSources(ps, q) ==
    IF q = <<>> THEN ps
    ELSE SelectSeq(ps, LAMBDA p :
            \/ Includes(p.name, q)
            \/ p.display \notin {NoDisplay, <<>>} /\ Includes(p.display, q))

(* The card label (line 158): the display name when the widget has one.    *)
Label(p) == IF p.display = NoDisplay THEN p.name ELSE p.display

-----------------------------------------------------------------------------
(* Mount: initial state and getDeltaApp (lines 81-87).                     *)
Init ==
    /\ phase = "app"
    /\ sources = <<>>
    /\ search = <<>>
    /\ loading = TRUE

(* getDeltaApp answers: fetchPluginsAndWidgets is sent (line 88).          *)
ReceiveApp ==
    /\ phase = "app"
    /\ phase' = "plugins"
    /\ UNCHANGED <<sources, search, loading>>

(* fetchPluginsAndWidgets answers: the list is shown (lines 88-92).        *)
ReceivePlugins(l) ==
    /\ phase = "plugins"
    /\ phase' = "done"
    /\ sources' = l
    /\ loading' = FALSE
    /\ UNCHANGED search

(* handleSearch (lines 96-99).                                             *)
HandleSearch(v) ==
    /\ search' = v
    /\ UNCHANGED <<phase, sources, loading>>

Next ==
    \/ ReceiveApp
    \/ \E l \in Lists : ReceivePlugins(l)
    \/ \E v \in Searches : HandleSearch(v)

Spec == Init /\ [][Next]_vars

-----------------------------------------------------------------------------
(* The shown cards are exactly the sources a user would find by the       *)
(* search, in list order: those whose card label or name contains it,      *)
(* case-insensitively; the empty search shows the whole list (spec 4.2,    *)
(* 8.3).                                                                   *)
SearchFindsLabels ==
    FilterSources(sources, search)
        = SelectSeq(sources, LAMBDA p : Includes(p.name, search)
                                        \/ Includes(Label(p), search))

=============================================================================
