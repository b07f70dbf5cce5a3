----------------------------- MODULE ResumeText -----------------------------
(***************************************************************************)
(* From a resume file to the canonical markdown and on to its tokens:      *)
(* format adapters, hygiene, the two tokenizers and the rules TOK-001 ..   *)
(* TOK-005 for what they make.                                             *)
(*                                                                         *)
(* A text is a sequence of lines; a line is a heading or not, has words,   *)
(* and is rough if whitespace trails it, its line end is not "\n" or the   *)
(* blanks after its "#" are not one space.  Line breaks and blanks carry   *)
(* nothing else.  A hash is taken to tell texts apart.                     *)
(***************************************************************************)
EXTENDS Naturals, FiniteSets, SequencesExt

CONSTANTS LowerOf,            \* the lower-case form of each word
          Short,              \* the lower-case words of one letter
          StopWords, Skills, Domains, Roles,  \* the word lists of the tokenizers
          ResumeWord,         \* the word of the title an adapter adds
          MaxCategoryTokens, MaxTotalTokens   \* the thresholds of TOK-005

ASSUME TextAssumption ==
  /\ ResumeWord \in DOMAIN LowerOf
  /\ MaxCategoryTokens \in Nat /\ MaxTotalTokens \in Nat

Line(heading, words, rough) == [heading |-> heading, words |-> words, rough |-> rough]
Blank == Line(FALSE, <<>>, FALSE)
IsBlank(line) == line = Blank
Lines == [heading : BOOLEAN, words : Seq(DOMAIN LowerOf), rough : BOOLEAN]
HashOf(thing) == <<"hash", thing>>

\* The text of the lines at these places, read line by line.
Keeping(text, places) ==
  LET out[n \in 0 .. Len(text)] ==
        IF n = 0 THEN <<>>
        ELSE IF n \in places THEN Append(out[n - 1], text[n]) ELSE out[n - 1]
  IN  out[Len(text)]

-----------------------------------------------------------------------------
\* Extraction.  A file has an extension, a state and a body.
Format(file) ==
  CASE file.extension \in {"md", "markdown"} -> "md"
    [] file.extension = "pdf" -> "pdf"
    [] file.extension = "docx" -> "docx"
    [] OTHER -> "txt"

WordsOf(text) == FlattenSeq([i \in 1 .. Len(text) |-> text[i].words])
Title == << Line(TRUE, <<ResumeWord>>, FALSE), Blank >>

\* A missing, an empty or (PDF and DOCX) a damaged file, and a PDF without text.
IngestFails(file) ==
  \/ file.state \in {"Missing", "Empty"}
  \/ Format(file) \in {"pdf", "docx"} /\ file.state = "Damaged"
  \/ Format(file) = "pdf" /\ WordsOf(file.body) = <<>>

\* The strings of a PDF end up on one line, each followed by a blank; of a
\* DOCX only the paragraphs with text are kept.
Extract(file) ==
  CASE Format(file) = "md" -> file.body
    [] Format(file) = "txt" -> Title \o file.body
    [] Format(file) = "pdf" -> Append(Title, Line(FALSE, WordsOf(file.body), TRUE))
    [] Format(file) = "docx" -> 
         Title \o Keeping(file.body, {i \in DOMAIN file.body : file.body[i].words # <<>>})

-----------------------------------------------------------------------------
\* Hygiene: line ends, trailing whitespace and headings line by line; of a run
\* of blank lines the first two are kept.
Smooth(text) ==
  [i \in 1 .. Len(text) |-> Line(text[i].heading, text[i].words, FALSE)]

Spaced(text) ==
  {i \in DOMAIN text : i <= 2 \/ \E k \in i - 2 .. i : ~IsBlank(text[k])}

Collapse(text) == Keeping(text, Spaced(text))

\* Mutation: blank lines are counted before whitespace is trimmed.
HygieneTooEarly(text) == Smooth(Collapse(text))

Hygiene(text) == Collapse(Smooth(text))

Ingested(file, id) ==
  LET md == Hygiene(Extract(file))
  IN  [id |-> id, md |-> md, hash |-> HashOf(md),
       meta |-> [source |-> HashOf(file), method |-> Format(file)]]

-----------------------------------------------------------------------------
\* Tokenization.
TokensOf(text) == {LowerOf[w] : w \in ToSet(WordsOf(text))} \ Short

Lexical(text) == [lexical |-> TokensOf(text) \ StopWords]

\* The first list that has the word takes it; empty categories are left out.
Inferred(text) ==
  LET words == TokensOf(text)
      all == [skills |-> words \cap Skills,
              domains |-> (words \cap Domains) \ Skills,
              roles |-> (words \cap Roles) \ (Skills \cup Domains),
              entities |-> words \ (Skills \cup Domains \cup Roles)]
  IN  [c \in {c \in DOMAIN all : all[c] # {}} |-> all[c]]

Modes == {"deterministic", "stub-inference"}

Tokenize(mode, text, hash) ==
  [hash |-> hash, spans |-> <<>>,
   tokens |-> IF mode = "deterministic" THEN Lexical(text) ELSE Inferred(text)]

-----------------------------------------------------------------------------
\* The rules, on a token IR and the text and hash of a resume.
AllTokens(ir) == UNION {ir.tokens[c] : c \in DOMAIN ir.tokens}

Tok001(ir, hash) == ir.hash # hash

Tok002(ir) == \E t \in AllTokens(ir) : t \in Short \/ t \notin {LowerOf[w] : w \in DOMAIN LowerOf}

Tok003(ir, text) ==
  \E i \in DOMAIN ir.spans :
    LET span == ir.spans[i] IN
      \/ span.first < 1 \/ span.last < 1 \/ span.first > span.last
      \/ text # <<>> /\ span.last > Len(text)

Tok004(ir, text) == ~(AllTokens(ir) \subseteq TokensOf(text))

Tok005(ir) ==
  \/ \E c \in DOMAIN ir.tokens : Cardinality(ir.tokens[c]) > MaxCategoryTokens
  \/ FoldFunction(LAMBDA tokens, n : n + Cardinality(tokens), 0, ir.tokens) > MaxTotalTokens

\* The rules an IR breaks.
Broken(ir, text, hash) ==
  {rule \in {"TOK-001", "TOK-002", "TOK-003", "TOK-004", "TOK-005"} :
     CASE rule = "TOK-001" -> Tok001(ir, hash)
       [] rule = "TOK-002" -> Tok002(ir)
       [] rule = "TOK-003" -> Tok003(ir, text)
       [] rule = "TOK-004" -> Tok004(ir, text)
       [] rule = "TOK-005" -> Tok005(ir)}
=============================================================================
