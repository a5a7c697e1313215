------------------------------ MODULE ParsePage ------------------------------
(***************************************************************************)
(* What the page parsers of the scraper share (parsers/base.ts).  A parser *)
(* is a pure function from a page to a ParseResult: the entities that      *)
(* passed their schema, and the issues met on the way, in document order.  *)
(*                                                                         *)
(* A page is a sequence of blocks (tables, sections under a heading), each *)
(* with a title, the text of its header cells or heading, and its rows.  A *)
(* row is a record of what the parser reads in its cells: a text is a name *)
(* or "" (empty, or its element is missing), a link or image is the token  *)
(* its URL ends with or "" (missing, or no URL of that kind), a number is  *)
(* what the pattern captures or Nil.                                       *)
(***************************************************************************)
EXTENDS Integers, Sequences, SequencesExt

CONSTANTS
  PlainTokens,  \* the URL tokens made of letters and digits only
  SlugOf,       \* slugifyName: words joined by hyphens, what is not ASCII lost
  StripOf       \* the same with the words joined by nothing

Nil == -1

Nothing == [entities |-> <<>>, issues |-> <<>>]
Entity(e) == [entities |-> <<e>>, issues |-> <<>>]
Issue(kind, at) ==
  [entities |-> <<>>, issues |-> <<[kind |-> kind, at |-> at]>>]
Unexpected(at) == Issue("unexpected-structure", at)

\* One result after another.
r ++ s == [entities |-> r.entities \o s.entities,
               issues   |-> r.issues \o s.issues]

\* Every row (or block) of a sequence in turn.
Each(rows, Parse(_)) ==
  FoldLeft(LAMBDA acc, row : acc ++ Parse(row), Nothing, rows)

\* safeParse: what the schema refuses is an issue and no entity.
Checked(e, valid, at) == IF valid THEN Entity(e) ELSE Issue("zod-fail", at)

\* A page that gives no entity reports that its structure has changed.
OrMissing(r) ==
  IF r.entities = <<>> THEN r ++ Issue("missing-section", "") ELSE r

\* The rows of all the blocks, and the rows of the first block with a title.
AllRows(doc) == FlattenSeq([i \in DOMAIN doc |-> doc[i].rows])
Titled(doc, title) == SelectSeq(doc, LAMBDA b : b.title = title)
RowsOf(doc, title) ==
  LET blocks == Titled(doc, title)
  IN  IF blocks = <<>> THEN <<>> ELSE blocks[1].rows

\* A row that is no header (td.fooevo) and has its cells.
IsData(row, cells) == ~row.head /\ row.tds >= cells

\* /items\/([a-z0-9]+)\.shtml/ and the like: a token with any other
\* character does not match.  The patterns that accept hyphens and brackets
\* match every token.
PlainToken(token) == IF token \in PlainTokens THEN token ELSE ""

\* The first of two texts that is there.
OrElse(a, b) == IF a # "" THEN a ELSE b
==============================================================================
