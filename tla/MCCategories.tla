---------------------------- MODULE MCCategories ----------------------------
(* Categories on small instances.                                          *)
EXTENDS Categories

(* A result in every category, two in one of them.                         *)
MCResults ==
  (CategoryIds \X {1}) \cup {<<CHOOSE c \in CategoryIds : TRUE, 2>>}

(* A result in every category.                                             *)
MCFewResults == CategoryIds \X {1}
=============================================================================
