-------------------------------- MODULE Url --------------------------------
(***************************************************************************)
(* URLs as the program takes them apart and puts them together: the target *)
(* of a redirect or a link (url.h), what the user types (main.c), and the  *)
(* text of the URL bar (browser_nav.c).                                    *)
(*                                                                         *)
(* A string is a sequence of tokens: "https" and "http" are one token, the *)
(* signs that the parsers look for are one each, any other token is a run  *)
(* of characters they do not look into.  Only https is ever spoken, the    *)
(* scheme and the port are dropped.                                        *)
(***************************************************************************)
EXTENDS Integers, SequencesExt

CONSTANTS HostCap,  \* HOST_BUF_LEN, 128
          PathCap   \* PATH_BUF_LEN, 2048

ASSUME UrlAssumption == HostCap \in Nat /\ PathCap \in Nat /\ HostCap > 1 /\ PathCap > 2

NoUrl == [host |-> <<>>, path |-> <<>>]

\* How many tokens come before the first one of stops.
Before(s, stops) ==
    CHOOSE n \in 0..Len(s) :
        /\ n = Len(s) \/ s[n + 1] \in stops
        /\ \A k \in 1..n : s[k] \notin stops

Until(s, stops) == SubSeq(s, 1, Before(s, stops))
From(s, stops)  == SubSeq(s, Before(s, stops) + 1, Len(s))
Drop(s, n)      == SubSeq(s, n + 1, Len(s))
Cut(s, cap)     == SubSeq(s, 1, IF Len(s) < cap THEN Len(s) ELSE cap - 1)

Fits(u) == Len(u.host) < HostCap /\ Len(u.path) < PathCap

\* host[:port][/path]
Authority(s) ==
    LET rest == From(s, {"/"})
        u    == [host |-> Until(s, {"/", ":"}), path |-> IF rest = <<>> THEN <<"/">> ELSE rest]
    IN  IF u.host # <<>> /\ Fits(u) THEN u ELSE NoUrl

Https == <<"https", ":", "/", "/">>
Http  == <<"http", ":", "/", "/">>
NoScheme == <<"/", "/">>

SamePlace(current, s) ==
    LET u == [host |-> current, path |-> s] IN IF Fits(u) THEN u ELSE NoUrl

\* url_apply_location; a relative path is not understood.
ApplyLocation(current, loc) ==
    CASE IsPrefix(Https, loc)    -> Authority(Drop(loc, 4))
      [] IsPrefix(Http, loc)     -> Authority(Drop(loc, 4))
      [] IsPrefix(NoScheme, loc) -> Authority(Drop(loc, 2))
      [] loc # <<>> /\ loc[1] = "/" /\ ~IsPrefix(NoScheme, loc) -> SamePlace(current, loc)
      [] loc = <<>> \/ (loc[1] # "/" /\ ~IsPrefix(Https, loc) /\ ~IsPrefix(Http, loc)) -> NoUrl

Blanks == {" "}

SkipBlanks(s) ==
    LET n == CHOOSE n \in 0..Len(s) : /\ n = Len(s) \/ s[n + 1] \notin Blanks
                                      /\ \A k \in 1..n : s[k] \in Blanks
    IN  Drop(s, n)

Absolute(s) == s[1] = "/" \/ IsPrefix(Https, s) \/ IsPrefix(Http, s)

\* Mutant of PathOf: the slash in front is forgotten.
PathBare(s) == IF s = <<>> THEN <<"/">> ELSE Cut(s, PathCap)

\* The path of "host path": a slash is put in front where there is none.  What does
\* not fit is cut off.
PathOf(s) ==
    CASE s = <<>>                   -> <<"/">>
      [] s # <<>> /\ s[1] = "/"     -> Cut(s, PathCap)
      [] s # <<>> /\ s[1] # "/"     -> <<"/">> \o Cut(s, PathCap - 1)

HostAndPath(s) ==
    LET host == Cut(Until(s, {"/"} \cup Blanks), HostCap)
    IN  [host |-> host, path |-> PathOf(SkipBlanks(Drop(s, Len(host))))]

\* url_parse_user_input
UserInput(current, in) ==
    LET s == SkipBlanks(in)
    IN  IF s = <<>> THEN NoUrl
        ELSE IF Absolute(s) THEN ApplyLocation(current, s)
        ELSE HostAndPath(s)

\* Mutant of UrlBar: a slash is put between host and path, whatever the path.
UrlBarSlashed(u) == Https \o u.host \o <<"/">> \o u.path

\* browser_compose_url_bar; the buffer has room for any host and path.
UrlBar(u) ==
    Https \o u.host \o (IF u.path # <<>> /\ u.path[1] = "/" THEN u.path ELSE <<"/">>)
=============================================================================
