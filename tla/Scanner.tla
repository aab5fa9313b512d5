------------------------------ MODULE Scanner ------------------------------
(***************************************************************************)
(* The SQL scanner: the table of keywords with its binary search, and      *)
(* yylex, which cuts the text of a query into tokens.                      *)
(*                                                                         *)
(* written is what a client wrote, as tokens, and scanbuf its text;        *)
(* scanpos and tokens are how far yylex has come and what it returned. A   *)
(* keyword counts as one character of the text, since only the lookup      *)
(* reads its letters. word is a word being looked up on its own.           *)
(***************************************************************************)
EXTENDS Integers, Sequences, FiniteSets, TLC, SequencesExt

CONSTANTS
  Special,    \* characters that occur inside quotes
  MaxBody,    \* the longest text inside quotes
  MaxTokens   \* the longest query

VARIABLES written, scanbuf, scanpos, tokens, word

vars == <<written, scanbuf, scanpos, tokens, word>>

(***************************************************************************)
(* keywords.cpp: the names in the order of the table. No code reads the    *)
(* category and the label of an entry, so they are left out.               *)
(***************************************************************************)
KeywordsA ==
  <<"abort", "absolute", "access", "action", "add", "admin", "after",
    "aggregate", "all", "also", "alter", "always", "analyse", "analyze",
    "and", "any", "array", "as", "asc", "asensitive", "assertion",
    "assignment", "asymmetric", "at", "atomic", "attach", "attribute",
    "authorization">>
KeywordsB ==
  <<"backward", "before", "begin", "between", "bigint", "binary", "bit",
    "boolean", "both", "breadth", "by">>
KeywordsC ==
  <<"cache", "call", "called", "cascade", "cascaded", "case", "cast",
    "catalog", "chain", "char", "character", "characteristics", "check",
    "checkpoint", "class", "close", "cluster", "coalesce", "collate",
    "collation", "column", "columns", "comment", "comments", "commit",
    "committed", "compression", "concurrently", "configuration", "conflict",
    "connection", "constraint", "constraints", "content", "continue",
    "conversion", "copy", "cost", "create", "createdb", "createrole", "cross",
    "csv", "cube", "current", "current_catalog", "current_date",
    "current_role", "current_schema", "current_time", "current_timestamp",
    "current_user", "cursor", "cycle">>
KeywordsD ==
  <<"data", "database", "day", "deallocate", "dec", "decimal", "declare",
    "default", "defaults", "deferrable", "deferred", "definer", "delete",
    "delimiter", "delimiters", "depends", "depth", "desc", "detach",
    "dictionary", "disable", "discard", "distinct", "do", "document",
    "domain", "double", "drop">>
KeywordsE ==
  <<"each", "else", "enable", "encoding", "encrypted", "end", "enum",
    "escape", "event", "except", "exclude", "excluding", "exclusive",
    "execute", "exists", "explain", "expression", "extension", "external",
    "extract">>
KeywordsF ==
  <<"false", "family", "fetch", "filter", "finalize", "first", "float",
    "following", "for", "force", "foreign", "forward", "freeze", "from",
    "full", "function", "functions">>
KeywordsG ==
  <<"generated", "global", "grant", "granted", "greatest", "group",
    "grouping", "groups">>
KeywordsH ==
  <<"handler", "having", "header", "hold", "hour">>
KeywordsI ==
  <<"identity", "if", "ilike", "immediate", "immutable", "implicit", "import",
    "in", "include", "including", "increment", "index", "indexes", "inherit",
    "inherits", "initially", "inline", "inner", "inout", "input",
    "insensitive", "insert", "instead", "int", "integer", "intersect",
    "interval", "into", "invoker", "is", "isnull", "isolation">>
KeywordsJ ==
  <<"join">>
KeywordsK ==
  <<"key">>
KeywordsL ==
  <<"label", "language", "large", "last", "lateral", "leading", "leakproof",
    "least", "left", "level", "like", "limit", "listen", "load", "local",
    "localtime", "localtimestamp", "location", "lock", "locked", "logged",
    "login">>
KeywordsM ==
  <<"mapping", "match", "matched", "materialized", "maxvalue", "merge",
    "method", "minute", "minvalue", "mode", "month", "move">>
KeywordsN ==
  <<"name", "names", "national", "natural", "nchar", "new", "next", "nfc",
    "nfd", "nfkc", "nfkd", "no", "nocreatedb", "nocreaterole",
    "noreplication", "nosuperuser", "none", "normalize", "normalized", "not",
    "nothing", "notify", "notnull", "nowait", "null", "nullif", "nulls",
    "numeric">>
KeywordsO ==
  <<"object", "of", "off", "offset", "oids", "old", "on", "only", "operator",
    "option", "options", "or", "order", "ordinality", "others", "out",
    "outer", "over", "overlaps", "overlay", "overriding", "owned", "owner">>
KeywordsP ==
  <<"parallel", "parameter", "parser", "partial", "partition", "passing",
    "password", "permissive", "placing", "plans", "policy", "position",
    "preceding", "precision", "prepare", "prepared", "preserve", "primary",
    "prior", "privileges", "procedural", "procedure", "procedures", "program",
    "publication">>
KeywordsQ ==
  <<"quote">>
KeywordsR ==
  <<"range", "read", "real", "reassign", "recheck", "recursive", "ref",
    "references", "referencing", "refresh", "reindex", "relative", "release",
    "rename", "repeatable", "replace", "replica", "replication", "reset",
    "restart", "restrict", "restrictive", "return", "returning", "returns",
    "revoke", "right", "role", "rollback", "rollup", "routine", "routines",
    "row", "rows", "rule">>
KeywordsS ==
  <<"savepoint", "schema", "schemas", "scroll", "search", "second",
    "security", "select", "sequence", "sequences", "serializable", "server",
    "session", "session_user", "set", "setof", "sets", "share", "show",
    "similar", "simple", "skip", "smallint", "snapshot", "some", "sql",
    "stable", "standalone", "start", "statement", "statistics", "stdin",
    "stdout", "storage", "stored", "strict", "strip", "subscription",
    "substring", "support", "superuser", "symmetric", "sysid", "system">>
KeywordsT ==
  <<"table", "tables", "tablesample", "tablespace", "temp", "template",
    "temporary", "text", "then", "ties", "time", "timestamp", "to",
    "trailing", "transaction", "transform", "treat", "trigger", "trim",
    "true", "truncate", "trusted", "type", "types">>
KeywordsU ==
  <<"uescape", "unbounded", "uncommitted", "unencrypted", "union", "unique",
    "unknown", "unlisten", "unlogged", "until", "update", "user", "using">>
KeywordsV ==
  <<"vacuum", "valid", "validate", "validator", "value", "values", "varchar",
    "variadic", "varying", "verbose", "version", "view", "views", "volatile">>
KeywordsW ==
  <<"when", "where", "whitespace", "window", "with", "within", "without",
    "work", "wrapper", "write">>
KeywordsX ==
  <<"xml", "xmlattributes", "xmlconcat", "xmlelement", "xmlexists",
    "xmlforest", "xmlnamespaces", "xmlparse", "xmlpi", "xmlroot",
    "xmlserialize", "xmltable">>
KeywordsY ==
  <<"year", "yes">>
KeywordsZ ==
  <<"zone">>

kKeywordTable ==
  KeywordsA \o KeywordsB \o KeywordsC \o KeywordsD \o KeywordsE \o
    KeywordsF \o KeywordsG \o KeywordsH \o KeywordsI \o KeywordsJ \o
    KeywordsK \o KeywordsL \o KeywordsM \o KeywordsN \o KeywordsO \o
    KeywordsP \o KeywordsQ \o KeywordsR \o KeywordsS \o KeywordsT \o
    KeywordsU \o KeywordsV \o KeywordsW \o KeywordsX \o KeywordsY \o KeywordsZ

kKeywordCount == 460

Names == Range(kKeywordTable)
EntryOf == [n \in Names |-> CHOOSE i \in DOMAIN kKeywordTable :
                              kKeywordTable[i] = n]

(* TLA+ does not order strings. This is the order std::string compares     *)
(* names in: the order of the table, but for seven names, which belong     *)
(* where the entry of another one is. A name of the table has an even      *)
(* number; the odd numbers are the words in between.                       *)
Belongs ==
  "none" :> "noreplication" @@ "noreplication" :> "nosuperuser"
  @@ "normalize" :> "none" @@ "normalized" :> "normalize"
  @@ "nosuperuser" :> "normalized"
  @@ "superuser" :> "support" @@ "support" :> "superuser"
Ascii == [n \in Names |-> 2 * EntryOf[IF n \in DOMAIN Belongs THEN Belongs[n]
                                      ELSE n]]
Words == 1 .. 2 * Len(kKeywordTable) + 1

NotFound == 0

(* Entries count from 1, so the search starts with 1 and kKeywordCount. *)
RECURSIVE Search(_, _, _)
Search(w, lo, hi) ==
  LET mid == (lo + hi) \div 2
      at == Ascii[kKeywordTable[mid]]
  IN CASE lo > hi -> NotFound
       [] lo <= hi /\ w = at -> mid
       [] lo <= hi /\ w < at -> Search(w, lo, mid - 1)
       [] lo <= hi /\ w > at -> Search(w, mid + 1, hi)

ScanKeywordLookup(w) == Search(w, 1, kKeywordCount)

(***************************************************************************)
(* scanner.cpp: yylex                                                      *)
(***************************************************************************)
Space == {" ", "NL"}
Digits == {"1"}
Letters == Names \cup {"a", "e"}
AlNum == Letters \cup Digits \cup {"_"}

(* The character at p; the text ends with one that belongs to no class. *)
At(s, p) == IF p <= Len(s) THEN s[p] ELSE "END"
Two(s, p, c, d) == At(s, p) = c /\ At(s, p + 1) = d

(* The first position from p on that is not in C *)
RECURSIVE RunOf(_, _, _)
RunOf(s, p, C) == IF At(s, p) \in C THEN RunOf(s, p + 1, C) ELSE p

RECURSIVE LineEnd(_, _)
LineEnd(s, p) == IF At(s, p) \in {"NL", "END"} THEN p ELSE LineEnd(s, p + 1)

RECURSIVE BlockEnd(_, _, _)
BlockEnd(s, p, depth) ==
  CASE depth = 0 \/ p > Len(s) -> p
    [] depth > 0 /\ Two(s, p, "/", "*") -> BlockEnd(s, p + 2, depth + 1)
    [] depth > 0 /\ Two(s, p, "*", "/") -> BlockEnd(s, p + 2, depth - 1)
    [] OTHER -> BlockEnd(s, p + 1, depth)

RECURSIVE SkipBlank(_, _)
SkipBlank(s, p) ==
  CASE At(s, p) \in Space -> SkipBlank(s, p + 1)
    [] Two(s, p, "-", "-") -> SkipBlank(s, LineEnd(s, p))
    [] Two(s, p, "/", "*") -> SkipBlank(s, BlockEnd(s, p + 2, 1))
    [] OTHER -> p

Token(kind, text) == [kind |-> kind, text |-> text]
EOF == Token("YYEOF", << >>)
Return(kind, text, next) == [token |-> Token(kind, text), next |-> next]

Word(s, p) ==
  LET end == RunOf(s, p, AlNum \cup {"$"})
      text == SubSeq(s, p, end - 1)
      hit == Len(text) = 1 /\ text[1] \in Names
             /\ ScanKeywordLookup(Ascii[text[1]]) # NotFound
  IN Return(IF hit THEN "keyword" ELSE "IDENT", text, end)

(* The text up to the closing quote q, with doubled quotes taken as one *)
RECURSIVE Unquoted(_, _, _, _)
Unquoted(s, p, q, text) ==
  CASE p > Len(s) -> [text |-> text, next |-> p]
    [] Two(s, p, q, q) -> Unquoted(s, p + 2, q, Append(text, q))
    [] At(s, p) = q /\ At(s, p + 1) # q -> [text |-> text, next |-> p + 1]
    [] OTHER -> Unquoted(s, p + 1, q, Append(text, s[p]))

Exponent(s, p) ==
  RunOf(s, IF At(s, p + 1) \in {"+", "-"} THEN p + 2 ELSE p + 1, Digits)

Number(s, p) ==
  LET int == RunOf(s, p, Digits)
      frac == RunOf(s, int + 1, Digits)
      Const(kind, end) == Return(kind, SubSeq(s, p, end - 1), end)
  IN CASE At(s, int) = "." /\ At(s, frac) = "e" ->
            Const("FCONST", Exponent(s, frac))
       [] At(s, int) = "." /\ At(s, frac) # "e" -> Const("FCONST", frac)
       [] At(s, int) = "e" -> Const("FCONST", Exponent(s, int))
       [] OTHER -> Const("ICONST", int)

(* Mutant: the second dollar of another tag is passed with the first. *)
RECURSIVE SkipTag(_, _, _)
SkipTag(s, p, tag) ==
  LET end == RunOf(s, p + 1, AlNum)
  IN CASE p > Len(s) -> p
       [] At(s, p) = "$" /\ At(s, end) = "$" ->
            IF SubSeq(s, p, end) = tag THEN p ELSE SkipTag(s, end + 1, tag)
       [] OTHER -> SkipTag(s, p + 1, tag)

(* Where the closing tag begins, from p on; after the text if nowhere. A   *)
(* dollar that begins another tag is passed alone.                         *)
RECURSIVE ClosingTag(_, _, _)
ClosingTag(s, p, tag) ==
  LET end == RunOf(s, p + 1, AlNum)
  IN CASE p > Len(s) -> p
       [] At(s, p) = "$" /\ At(s, end) = "$" /\ SubSeq(s, p, end) = tag -> p
       [] OTHER -> ClosingTag(s, p + 1, tag)

DollarQuoted(s, p) ==
  LET end == RunOf(s, p + 1, AlNum)
      tag == SubSeq(s, p, end)
      close == ClosingTag(s, end + 1, tag)
  IN CASE At(s, end) = "$" /\ close <= Len(s) ->
            Return("SCONST", SubSeq(s, end + 1, close - 1), close + Len(tag))
       [] At(s, end) = "$" /\ close > Len(s) -> [token |-> EOF, next |-> close]
       [] OTHER -> Return("Op", <<"$">>, p + 1)

Parameter(s, p) ==
  LET end == RunOf(s, p + 1, Digits)
  IN Return("PARAM", SubSeq(s, p + 1, end - 1), end)

TwoCharacters ==
  {<<":", ":">>, <<".", ".">>, <<":", "=">>, <<"=", ">">>,
   <<"<", "=">>, <<">", "=">>, <<"<", ">">>}
OneCharacter ==
  {"(", ")", ",", ";", ".", "+", "-", "*", "/", "%", "^", "<", ">", "=", "[",
   "]"}

yylex(s, pos) ==
  LET p == SkipBlank(s, pos)
      c == At(s, p)
      Quote(kind) == LET u == Unquoted(s, p + 1, c, << >>)
                     IN Return(kind, u.text, u.next)
  IN CASE p > Len(s) -> [token |-> EOF, next |-> p]
       [] c \in Letters \cup {"_"} -> Word(s, p)
       [] c = "\"" -> Quote("UIDENT")
       [] c \in Digits -> Number(s, p)
       [] c = "'" -> Quote("SCONST")
       [] c = "$" /\ At(s, p + 1) \in Digits -> Parameter(s, p)
       [] c = "$" /\ At(s, p + 1) \notin Digits -> DollarQuoted(s, p)
       [] <<c, At(s, p + 1)>> \in TwoCharacters ->
            Return("operator", <<c, s[p + 1]>>, p + 2)
       [] c \in OneCharacter /\ <<c, At(s, p + 1)>> \notin TwoCharacters ->
            Return("character", <<c>>, p + 1)
       [] OTHER -> [token |-> EOF, next |-> p + 1]

(***************************************************************************)
(* How a client writes tokens down                                         *)
(***************************************************************************)
Bodies(n) == UNION {[1 .. k -> Special] : k \in 0 .. n}

Doubled(text, q) ==
  FoldLeft(LAMBDA out, c : out \o (IF c = q THEN <<q, q>> ELSE <<c>>),
           << >>, text)
Between(q, text) == <<q>> \o Doubled(text, q) \o <<q>>

(* A tag may quote a text in which it does not occur, nor begins to. *)
Quotes(tag, text) ==
  \A i \in 1 .. Len(text) :
    SubSeq(text \o tag, i, i + Len(tag) - 1) # tag

Plain ==
  {Token("IDENT", t) : t \in {<<"a">>, <<"_", "e">>, <<"a", "1", "$">>,
                              <<"select", "1">>}}
  \cup {Token("keyword", <<n>>) : n \in {"as", "select"}}
  \cup {Token("ICONST", t) : t \in {<<"1">>, <<"1", "1">>}}
  \cup {Token("FCONST", t) : t \in {<<"1", ".">>, <<"1", ".", "1">>,
                                    <<"1", "e", "1">>, <<"1", "e", "-", "1">>,
                                    <<"1", ".", "1", "e", "+", "1">>}}
  \cup {Token("operator", t) : t \in TwoCharacters}
  \cup {Token("character", <<c>>) : c \in OneCharacter}

Samples(n) ==
  {[token |-> t, text |-> t.text] : t \in Plain}
  \cup {[token |-> Token("PARAM", <<"1">>), text |-> <<"$", "1">>],
        [token |-> Token("Op", <<"$">>), text |-> <<"$">>]}
  \cup {[token |-> Token("UIDENT", b), text |-> Between("\"", b)] :
          b \in Bodies(n)}
  \cup {[token |-> Token("SCONST", b), text |-> Between("'", b)] :
          b \in Bodies(n)}
  \cup UNION {{[token |-> Token("SCONST", b), text |-> tag \o b \o tag] :
                 b \in {x \in Bodies(n) : Quotes(tag, x)}} :
              tag \in {<<"$", "$">>, <<"$", "a", "$">>}}

Blanks ==
  {<<" ">>, <<"-", "-", "'", "NL">>, <<"/", "*", "'", "*", "*", "/">>,
   <<"/", "*", "/", "*", "*", "/", "a", "*", "/">>}

(* A minus sign before a line comment would be the comment's beginning. *)
Separates(blank, text) ==
  (text # << >> /\ blank[1] = "-") => Last(text) # "-"

Init ==
  /\ written = << >>
  /\ scanbuf = << >>
  /\ scanpos = 1
  /\ tokens = << >>
  /\ word = NotFound

Write ==
  /\ word = NotFound /\ tokens = << >> /\ Len(written) < MaxTokens
  /\ \E sample \in Samples(MaxBody - Len(written)), blank \in Blanks :
       /\ Separates(blank, scanbuf)
       /\ written' = Append(written, sample.token)
       /\ scanbuf' = scanbuf \o blank \o sample.text
  /\ UNCHANGED <<scanpos, tokens, word>>

Scan ==
  /\ scanbuf # << >> /\ ~Contains(tokens, EOF)
  /\ LET next == yylex(scanbuf, scanpos)
     IN tokens' = Append(tokens, next.token) /\ scanpos' = next.next
  /\ UNCHANGED <<written, scanbuf, word>>

LookUp ==
  /\ written = << >> /\ word = NotFound
  /\ word' \in Words
  /\ UNCHANGED <<written, scanbuf, scanpos, tokens>>

Next == Write \/ Scan \/ LookUp

Spec == Init /\ [][Next]_vars

(***************************************************************************)
(* Correctness                                                             *)
(***************************************************************************)
(* An entry of the part of the table that is searched and that is in order *)
(* with every other entry of that part                                     *)
InOrder(i) ==
  /\ i <= kKeywordCount
  /\ \A j \in 1 .. kKeywordCount :
       (j < i) <=> Ascii[kKeywordTable[j]] < Ascii[kKeywordTable[i]]

(* yylex reads a query back as the tokens it was written with: comments    *)
(* and blanks vanish, however the comments nest; doubled quotes become     *)
(* one; a dollar quote ends at its own tag and at nothing that looks like  *)
(* one; numbers and operators take all the characters that are theirs. The *)
(* lookup returns only the entry of the word itself, nothing for a word    *)
(* that is no keyword, and finds every keyword that is in order.           *)
ScannerRight ==
  /\ Contains(tokens, EOF) => tokens = Append(written, EOF)
  /\ IsPrefix(tokens, Append(written, EOF))
  /\ word # NotFound =>
       LET entry == ScanKeywordLookup(word)
       IN /\ entry # NotFound => Ascii[kKeywordTable[entry]] = word
          /\ \A i \in DOMAIN kKeywordTable :
               Ascii[kKeywordTable[i]] = word /\ InOrder(i) => entry = i

(* The table lists the keywords in ASCII order for a binary search, so     *)
(* that every keyword is found.                                            *)
KeywordsFound ==
  \A n \in Names : Ascii[n] = word => ScanKeywordLookup(word) # NotFound
=============================================================================
