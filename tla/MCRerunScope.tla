---------------------------- MODULE MCRerunScope ----------------------------
(***************************************************************************)
(* Four cases in three batches on two workers.  "long-one" and "long-two"  *)
(* are cut to stems; "t1" lies within "t10".                               *)
(***************************************************************************)
EXTENDS RerunScope

MCSorted   == <<"long-one", "long-two", "t1", "t10">>
Apart      == <<<<"long-one", "t10">>, <<"t1">>, <<"long-two">>>>
Together   == <<<<"long-one", "long-two">>, <<"t1">>, <<"t10">>>>
MCWorkerOf == <<"w1", "w1", "w2">>
OwnStems   == [x \in Ids |-> CASE x = "long-one" -> "long-o" [] x = "long-two" -> "long-t" [] OTHER -> x]
SharedStem == [x \in Ids |-> IF x \in {"long-one", "long-two"} THEN "long-" ELSE x]
MCOrgName  == [x \in Ids |-> CASE x = "long-one" -> "org/long-one" [] x = "long-two" -> "org/long-two"
                             [] x = "t1" -> "org/t1" [] OTHER -> "org/t10"]
MCWithin   == {<<Stem[x], x>> : x \in {"long-one", "long-two"}} \cup {<<x, OrgName[x]>> : x \in Ids}
              \cup {<<"t1", "t10">>, <<"t1", "org/t10">>}

\* The hypothesis of the theorem holds where each stem is its own case's, and not
\* where two cases share one.
ASSUME NamesTell <=> Stem = OwnStems
=============================================================================
