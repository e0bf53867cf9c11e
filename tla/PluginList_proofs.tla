------------------------- MODULE PluginList_proofs -------------------------
(***************************************************************************)
(* Proofs about the source filter: the test the render applies to each     *)
(* plugin is the test "name or card label contains the search".  Lifting   *)
(* it to the filtered lists (SearchFindsLabels) goes through SelectSeq,    *)
(* which the provers cannot unfold, and stays with TLC.                    *)
(***************************************************************************)
EXTENDS PluginList, TLAPS

(* The render's test (lines 101-115) and the test a user reads off a card *)
(* (its label, line 158), on one plugin.                                   *)
RenderTest(p, q) ==
    \/ Includes(p.name, q)
    \/ p.display \notin {NoDisplay, <<>>} /\ Includes(p.display, q)

LabelTest(p, q) == Includes(p.name, q) \/ Includes(Label(p), q)

(* A non-empty search is contained in no empty string.                     *)
LEMMA EmptyIncludesNothing ==
    ASSUME NEW q \in Seq(Chars), q # <<>>
    PROVE  ~Includes(<<>>, q)
<1>1. Lower(<<>>) = <<>>
  BY DEF Lower
<1>2. \A x \in SubSeqs(<<>>) : x = <<>>
  <2> SUFFICES ASSUME NEW i \in 0..0, NEW j \in 0..0 PROVE SubSeq(<<>>, i+1, j) = <<>>
    BY DEF SubSeqs
  <2> QED
    OBVIOUS
<1>3. Lower(q) # <<>>
  BY DEF Lower
<1>4. QED
  BY <1>1, <1>2, <1>3 DEF Includes

(* For every plugin and every non-empty search, the render keeps the      *)
(* plugin exactly when its name or its card label contains the search: a   *)
(* widget whose display name is the empty string is skipped by the render *)
(* and labels its card with "", which contains no non-empty search.        *)
THEOREM LabelFilterAgrees ==
    ASSUME NEW p \in Plugins, NEW q \in Seq(Chars), q # <<>>
    PROVE  RenderTest(p, q) <=> LabelTest(p, q)
<1>1. CASE p.display = NoDisplay
  BY <1>1 DEF RenderTest, LabelTest, Label
<1>2. CASE p.display = <<>>
  <2>0. <<>> # NoDisplay
    <3>1. <<>> \in Seq(Chars)
      OBVIOUS
    <3>2. NoDisplay \notin Seq(Chars)
      BY PluginListAssumption
    <3>3. QED
      BY <3>1, <3>2, Zenon
  <2>1. Label(p) = <<>>
    BY <1>2, <2>0 DEF Label
  <2>2. ~Includes(<<>>, q)
    BY EmptyIncludesNothing
  <2>3. QED
    BY <1>2, <2>1, <2>2 DEF RenderTest, LabelTest
<1>3. CASE p.display \notin {NoDisplay, <<>>}
  BY <1>3 DEF RenderTest, LabelTest, Label
<1>4. QED
  BY <1>1, <1>2, <1>3

=============================================================================
