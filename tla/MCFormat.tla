------------------------------ MODULE MCFormat ------------------------------
(* Calls of vsprintf: every combination of the parts of a tag, with and    *)
(* without the characters the parser swallows.                             *)
EXTENDS Format

MCTags == [pre : {<<>>, <<"a">>}, flag : {None, "-", "+", "#", "0"},
           width : {Unset, Star, 5}, prec : {Unset, 0, 4}, length : {None, "h", "L"},
           spec : {"d", "u", "X", "s", "p", "%"}, post : {<<>>, <<"b", "a", "d">>}]

MCCalls == [tag : MCTags, fill : BOOLEAN, int : {0, 9, 250}, str : {<<>>, <<"s", "t">>},
            junk : {NUL, "?"}]

=============================================================================
