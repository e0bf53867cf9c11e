---------------------------- MODULE MC_PluginList ----------------------------
(* Names and display names over {a, b, A}; a plugin found only by its      *)
(* display name, one with an empty display name, one without a widget.    *)
EXTENDS PluginList

MCChars == {"a", "b", "A"}

MCLowerCase == [c \in MCChars |-> IF c = "A" THEN "a" ELSE c]

MCPluginAb == [name |-> <<"A", "b">>, display |-> NoDisplay]

MCPluginBb == [name |-> <<"b", "b">>, display |-> <<"b", "A">>]

MCPluginBa == [name |-> <<"b", "a">>, display |-> <<>>]

MCLists == {<<MCPluginAb, MCPluginBb>>, <<MCPluginBb, MCPluginBa, MCPluginAb>>, <<MCPluginBa>>}

MCPlugins == {MCPluginAb, MCPluginBb, MCPluginBa}

MCSearches == UNION {[1..n -> MCChars] : n \in 0..3}

=============================================================================
