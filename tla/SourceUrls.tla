----------------------------- MODULE SourceUrls -----------------------------
(***************************************************************************)
(* URLs and the resolution of references against them: url.rs, and         *)
(* resolve_url of the two manifest parsers.                                *)
(*                                                                         *)
(* A path is the sequence of its segments: <<>> is no path at all and a    *)
(* path that ends in "/" has a last segment named "empty".  A segment may  *)
(* carry a number ($Number$ of a template, or what replaces it).  A query  *)
(* is the sequence of its pieces between slashes, <<>> if there is none.   *)
(***************************************************************************)
EXTENDS Integers, Sequences, SequencesExt, Lists

NoNumber == -1
Number   == -2      \* $Number$, not replaced yet

Plain(name)       == [name |-> name, number |-> NoNumber, query |-> <<>>]
Numbered(name, n) == [name |-> name, number |-> n, query |-> <<>>]

Url(host, path, query) == [host |-> host, path |-> path, query |-> query]
Reference(kind, host, path, query) ==
    [kind |-> kind, host |-> host, path |-> path, query |-> query]

Resolved(url) == [ok |-> TRUE, url |-> url]
Unresolved    == [ok |-> FALSE, url |-> Url("none", <<>>, <<>>)]

-----------------------------------------------------------------------------
(* join *)

\* The split of a relative reference at its slashes: the first piece of its
\* query hangs on its last segment, the others look like segments.
Pieces(reference) ==
    IF reference.query = <<>> THEN reference.path
    ELSE Front(reference.path)
         \o << [Last(reference.path) EXCEPT !.query = << reference.query[1] >>] >>
         \o [i \in 1..Len(reference.query) - 1 |-> Plain(reference.query[i + 1])]

\* Mutant: the directory that ".." leaves stays in the path.
PushPieceKeepDir(stack, piece) ==
    IF piece \in {Plain("."), Plain("..")} THEN stack ELSE Append(stack, piece)

\* One piece of normalize_path: a "." or an empty one goes, unless it is the
\* first, ".." takes the last with it.
PushPiece(stack, piece) ==
    IF piece \in {Plain("."), Plain("empty")} /\ stack # <<>> THEN stack
    ELSE IF piece = Plain("..") THEN (IF stack = <<>> THEN stack ELSE Front(stack))
    ELSE Append(stack, piece)

\* normalize_path on a path that begins with a slash.
NormalizePath(pieces) ==
    LET rest(stack) == IF stack # <<>> /\ stack[1] = Plain("empty") THEN Tail(stack) ELSE stack
        path(left)  == IF left = <<>> THEN <<Plain("empty")>> ELSE left
    IN  path(rest(Reading(PushPiece, <<Plain("empty")>>, pieces)))

\* Url::parse finds the first question mark again.
ParsePieces(host, pieces) ==
    LET marks == {i \in 1..Len(pieces) : pieces[i].query # <<>>}
        mark  == CHOOSE i \in marks : \A j \in marks : i <= j
        bare(i) == [pieces[i] EXCEPT !.query = <<>>]
    IN  IF marks = {} THEN Url(host, pieces, <<>>)
        ELSE Url(host, [i \in 1..mark |-> bare(i)],
                 pieces[mark].query
                   \o [i \in 1..Len(pieces) - mark |-> pieces[mark + i].name])

\* relative.contains("://"), which a URL in a query does too; what is before it
\* is then no scheme, and Url::parse fails.
HoldsUrl(reference) ==
    \E i \in 1..Len(reference.query) - 1 :
        reference.query[i] = "u=http:" /\ reference.query[i + 1] = "empty"

DirectoryOf(url) == IF url.path = <<>> THEN <<>> ELSE Front(url.path)

\* Url::join behind resolve_url: an absolute reference is taken as it is.
Join(base, reference) ==
    CASE reference.kind = "absolute" ->
           Resolved(Url(reference.host, reference.path, reference.query))
      [] reference.kind # "absolute" /\ HoldsUrl(reference) -> Unresolved
      [] reference.kind = "protocol" /\ ~HoldsUrl(reference) ->
           Resolved(Url(reference.host, reference.path, reference.query))
      [] reference.kind = "root" /\ ~HoldsUrl(reference) ->
           Resolved(Url(base.host, reference.path, reference.query))
      [] OTHER ->
           Resolved(ParsePieces(base.host,
                        NormalizePath(DirectoryOf(base) \o Pieces(reference))))

=============================================================================
