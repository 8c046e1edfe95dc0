----------------------------- MODULE RecordTokens -----------------------------
(***************************************************************************)
(* How a record is named, and found again by its token.  A text is a       *)
(* sequence of characters.  Files of a record share the prefix             *)
(* <timestamp>-<id>; the token given to its author is <token>-<id>.        *)
(***************************************************************************)
EXTENDS Integers, Sequences

Dash == "-"

Dashes(text)  == {i \in 1..Len(text) : text[i] = Dash}
Plain(text)   == Dashes(text) = {}
Joined(a, b)  == (a \o <<Dash>>) \o b

FileNamePrefix(timestamp, id) == Joined(timestamp, id)
FullToken(token, id)          == Joined(token, id)

\* strings.Split(prefix, "-")[1]: what follows the first dash, up to the next
\* one or the end; {} when there is no dash.
PartEnds(text, i) ==
    {j \in (i + 1)..(Len(text) + 1) :
        /\ j \in Dashes(text) \cup {Len(text) + 1}
        /\ \A k \in Dashes(text) : k > i => k >= j}
IDOfPrefix(prefix) ==
    UNION {{SubSeq(prefix, i + 1, j - 1) : j \in PartEnds(prefix, i)} :
              i \in {i \in Dashes(prefix) : \A k \in Dashes(prefix) : i <= k}}

\* The token and the id around the last dash; {} when one is missing.
ParseTokenAndID(fullToken) ==
    {<<SubSeq(fullToken, 1, i - 1), SubSeq(fullToken, i + 1, Len(fullToken))>> :
        i \in {i \in Dashes(fullToken) \ {Len(fullToken)} :
                  \A k \in Dashes(fullToken) : k <= i}}

\* filepath.Glob gives these characters of an id, which comes from the client,
\* a meaning of their own; an id the service has made has digits only.
Meta        == {"*", "?", "[", "\\"}
Literal(id) == \A i \in 1..Len(id) : id[i] \notin Meta

\* filepath.Glob of "*-<id>.dt", for a literal id.
Found(prefixes, id) ==
    {p \in prefixes : /\ Len(p) > Len(id)
                      /\ SubSeq(p, Len(p) - Len(id), Len(p)) = <<Dash>> \o id}
=============================================================================
