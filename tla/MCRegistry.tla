----------------------------- MODULE MCRegistry -----------------------------
(* Registry with the click scope, an invisible scope and two others.       *)
EXTENDS Registry

MCByName == <<"a", "b", "click", "hidden">>
MCFavorites == <<"b", "a">>
MCOtherRegistries == {{"a", "click"}, {"a", "b", "click", "hidden"}}
MCOtherFavorites == {<<"a">>, <<"a", "hidden", "b">>}
=============================================================================
