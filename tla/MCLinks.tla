------------------------------ MODULE MCLinks ------------------------------
(***************************************************************************)
(* An instance of CrossFileLinks for TLC: two chunks of a file a.ts, which *)
(* one message may be about, one of a.test.ts, whose id has the name a but *)
(* whose stem is not a, and one of .gitignore, whose stem is empty.  Any   *)
(* of them may come to refer to a or to .gitignore, or to have a in its    *)
(* text without a reference.                                               *)
(***************************************************************************)
EXTENDS CrossFileLinks, TLC

CONSTANTS c1, c2

MCKeys == {"a1", "a2", "t1", "g1"}
MCEvents == {<<"a1", "a2">>, <<"a1">>, <<"a2">>, <<"t1">>, <<"g1">>}
MCStem == [k \in MCKeys |->
             CASE k \in {"a1", "a2"} -> "a" [] k = "t1" -> "a.test" [] k = "g1" -> None]
MCNamed == {<<"a", "a1">>, <<"a", "a2">>, <<"a", "t1">>, <<"a.test", "t1">>, <<None, "g1">>}
MCContents == {"to_a", "to_git", "says_a"}
MCReferences == {<<"to_a", "a">>, <<"to_git", None>>}
MCMentions == MCReferences \cup {<<"says_a", "a">>}
=============================================================================
