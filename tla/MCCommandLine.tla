--------------------------- MODULE MCCommandLine ---------------------------
(***************************************************************************)
(* CommandLine with command lines of four kinds: ones that retrieve from   *)
(* two groups, ones with paths, hosts and list files, ones that update and *)
(* search the list of groups, and ones that keep it in two ngets after     *)
(* each other; the first two also where user errors are fatal.             *)
(***************************************************************************)
EXTENDS CommandLine

MCMetaGroup == [both |-> <<"A", "B", "A">>]
MCMissing == [start |-> 0, there |-> 0, new |-> 2, far |-> 3, closed |-> Forbidden]
NoneYet == [s \in Server |-> {}]
OneEach == [s \in Server |-> {"n1"}]

Retrieving ==
  [options |-> {<<"r", "good">>, <<"r", "odd">>, <<"R", "good">>, <<"R", "bad">>,
                <<"g", "A">>, <<"g", "both">>, <<"G", "B">>, <<"x", "B">>, <<"x", "both">>, <<"F", "s1">>, <<"F", "gone">>,
                <<"p", "there">>, <<"p", "closed">>, <<"help", "">>, <<"invalid", "">>},
   args |-> 5, runs |-> 1, configs |-> {Server}, ngetrc |-> {"good", "mistakes", "unusable"}, fatal |-> FALSE, makedirs |-> 2,
   missing |-> MCMissing, carries |-> NoneYet, creates |-> {}, signals |-> FALSE]

Nested ==
  [options |-> {<<"r", "good">>, <<"G", "A">>, <<"g", "A">>, <<"p", "there">>, <<"p", "new">>, <<"p", "far">>,
                <<"P", "start">>, <<"P", "closed">>, <<"h", "s1">>, <<"h", "">>, <<"h", "gone">>,
                <<"@", "good">>, <<"@", "quote">>, <<"@", "missing">>},
   args |-> 5, runs |-> 1, configs |-> {Server}, ngetrc |-> {"good"}, fatal |-> FALSE, makedirs |-> 2,
   missing |-> MCMissing, carries |-> NoneYet, creates |-> {}, signals |-> FALSE]

Searching ==
  [options |-> {<<"a", "">>, <<"A", "">>, <<"X", "">>, <<"T", "">>, <<"r", "good">>, <<"r", "odd">>, <<"R", "good">>,
                <<"F", "s1">>, <<"h", "gone">>},
   args |-> 5, runs |-> 1, configs |-> {Server}, ngetrc |-> {"good"}, fatal |-> FALSE, makedirs |-> 2,
   missing |-> MCMissing, carries |-> OneEach, creates |-> {}, signals |-> FALSE]

KeepingLists ==
  [options |-> {<<"a", "">>, <<"F", "s1">>},
   args |-> 2, runs |-> 2, configs |-> {Server, {"s1"}}, ngetrc |-> {"good"}, fatal |-> FALSE, makedirs |-> 2,
   missing |-> MCMissing, carries |-> OneEach, creates |-> {<<"s1", "n2">>}, signals |-> TRUE]

Fatal == [Retrieving EXCEPT !.fatal = TRUE]
Asks == [Nested EXCEPT !.fatal = TRUE, !.makedirs = MAKEDIRS_ASK, !.args = 4]

AllStyles == {Retrieving, Fatal, Nested, Asks, Searching, KeepingLists}

\* Only the first kind.
OnlyRetrieving == {Retrieving}
=============================================================================
