---------------------------- MODULE MCNavigation ----------------------------
(* A host that resolves, one that redirects lead to, and every short string. *)
EXTENDS Navigation

CONSTANT MaxTyped

Tokens == {"https", "http", ":", "/", ".", " ", "a"}

Strings(n) == UNION {[1..k -> Tokens] : k \in 0..n}

\* Everything short, alone and behind each of the prefixes the parsers know.
MCStarts == {p \o s : p \in {<<>>, Https, Http, NoScheme}, s \in Strings(MaxTyped)}

MCInputs == {<<"a">>, <<"b", " ", "p">>}

MCLocations == {<<>>, <<"p">>, <<"/", "p">>, Https \o <<"b", "/", "p">>}

MCKnown == {<<"a">>, <<"b">>}
=============================================================================
