----------------------------- MODULE MCResolver -----------------------------
(***************************************************************************)
(* Small vocabularies for the resolver.                                    *)
(***************************************************************************)
EXTENDS Resolver

MCVariables     == {Plain("max"), Name("l", "max")}
MCFunctionNames == {Plain("f"), Plain("p#f")}
MCBuiltins      == <<"max">>
=============================================================================
