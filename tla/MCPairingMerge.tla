---------------------------- MODULE MCPairingMerge ----------------------------
(* Histories of a pair for model checking PairingMerge. *)
EXTENDS PairingMerge, Integers, FiniteSets, TLC

CONSTANTS h1, h2

\* "a" is the base; "b" and "c" reword it; "s" adds a heading, "g" changes
\* generated text.
MCRev       == {"a", "b", "c", "s", "g"}
MCStructure == [r \in MCRev |-> IF r = "s" THEN "heading" ELSE "text"]
MCRegion    == [r \in MCRev |-> IF r = "g" THEN "new" ELSE "old"]

D(x, y) == (h1 :> x) @@ (h2 :> y)
Recorded(en, zh) == [en |-> en, zh |-> zh, record |-> [en |-> en, zh |-> zh]]
NoSide == [en |-> Gone, zh |-> Gone, record |-> Gone]
Old == Recorded(D("a", "a"), D("a", "a"))
Past(ours, theirs) ==
    [base |-> Old, ours |-> ours, theirs |-> theirs, text |-> TRUE, apart |-> FALSE]

\* Both branches reword both languages, in different hunks.
Separate == Past(Recorded(D("b", "a"), D("b", "a")), Recorded(D("a", "c"), D("a", "c")))
\* ... or in the same hunk.
Clashing == Past(Recorded(D("b", "a"), D("b", "a")), Recorded(D("c", "a"), D("c", "a")))
\* Each branch touches one language only.
OneLanguage == Past(Recorded(D("b", "a"), D("a", "a")), Recorded(D("a", "a"), D("a", "c")))
OneLanguageApart == [OneLanguage EXCEPT !.apart = TRUE]
\* Our branch recorded a pair that does not verify.
Unlike      == Past(Recorded(D("s", "a"), D("a", "a")), Recorded(D("a", "a"), D("a", "c")))
UnlikeApart == [Unlike EXCEPT !.apart = TRUE]
Regions     == Past(Recorded(D("g", "a"), D("a", "a")), Recorded(D("a", "c"), D("a", "c")))
\* Both add structure and generated text in both languages.
Structured  == Past(Recorded(D("s", "a"), D("s", "a")), Recorded(D("a", "g"), D("a", "g")))
\* Our branch changed an owner and did not record it.
Drifted == Past([Recorded(D("b", "a"), D("b", "a")) EXCEPT !.en = D("b", "b")],
                Recorded(D("a", "c"), D("a", "c")))
DriftedApart == Past([Recorded(D("b", "a"), D("b", "a")) EXCEPT !.zh = D("s", "a")],
                     Recorded(D("a", "c"), D("a", "c")))
\* The owners have a merge driver of their own.
CustomMerge == [Separate EXCEPT !.text = FALSE]
\* Their branch deleted the pair, did nothing, or added it as ours did.
Deleted   == Past(Recorded(D("b", "a"), D("a", "a")), NoSide)
OneSided  == Past(Recorded(D("b", "a"), D("a", "a")), Old)
AddedTwice == [Clashing EXCEPT !.base = NoSide]
\* Our branch committed a broken sidecar.
Malformed == Past([Recorded(D("b", "a"), D("b", "a")) EXCEPT !.record = Marked],
                  Recorded(D("a", "c"), D("a", "c")))

MCHistory == {Separate, Clashing, OneLanguage, OneLanguageApart, Unlike, UnlikeApart, Regions,
              Structured, Drifted, DriftedApart, CustomMerge, Deleted, OneSided, AddedTwice,
              Malformed}

\* Kinds of pairs that a user is asked to settle, and a safe one.
MCFewer == {Separate, Clashing, Drifted, UnlikeApart, CustomMerge}

\* Bound: the user works on one of the pairs.
OneTouched == Cardinality(touched) <= 1

Symmetry == Permutations(Pair)
===============================================================================
