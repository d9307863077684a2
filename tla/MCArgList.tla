------------------------------ MODULE MCArgList ------------------------------
(***************************************************************************)
(* ArgList with room for a few lists.  The formats take one to three       *)
(* arguments, or end in a halt.                                            *)
(***************************************************************************)
EXTENDS ArgList

CONSTANTS a, b

TwoValues == {a, b}
SomeFormats == {<<"tested">>, <<"untested", "tested">>, <<"untested", "percent">>,
                <<"untested", "tested", "untested">>, <<"tested", "bad">>}
NoFormats == {}
===============================================================================
