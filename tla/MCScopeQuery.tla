---------------------------- MODULE MCScopeQuery ----------------------------
(* ScopeQuery with texts that continue each other and texts that do not.   *)
EXTENDS ScopeQuery

MCTexts == {<<>>, <<"a">>, <<"a", "b">>, <<"b">>}

Canned(t, n, f, d) == [text |-> t, navigation |-> n, filterState |-> f, hasData |-> d]
MCCannedQueries ==
  {Canned(<<>>, "d1", "none", FALSE), Canned(<<"a">>, "root", "f1", TRUE),
   Canned(<<"b">>, "d1", "f1", TRUE)}

(* For the liveness run.                                                   *)
MCFewTexts == {<<>>, <<"a">>, <<"a", "b">>}
MCFewCannedQueries == {Canned(<<"a">>, "root", "f1", FALSE)}
=============================================================================
