------------------------------ MODULE InjaLexer ------------------------------
(***************************************************************************)
(* The lexer of inja.hpp (class Lexer, lines 1976-2261): a template is cut *)
(* into text, the sequences that open and close expressions, statements,   *)
(* line statements and comments, and the tokens between them.  The parser  *)
(* calls scan() until it returns Eof, or throws.                           *)
(*                                                                         *)
(* A template is a sequence of characters.  Positions are those of the     *)
(* code, from 0; a token is [start, end).  Of characters that are treated  *)
(* alike there is one: "a" is a letter, "e" an e or E, "1" a digit, " " a   *)
(* blank or a tab, "," the punctuation of one character.                   *)
(***************************************************************************)
EXTENDS Integers, SequencesExt

CONSTANTS
  Templates,     \* the inputs, sequences of characters
  Settings       \* the trim_blocks and lstrip_blocks of the environment

Quote == "\""
Backslash == "\\"
(* one for each kind of character that the code tells apart *)
Characters ==
  {"a", "e", "1", "_", "-", "+", ".", "/", ",", "=", "<", ">", "!", Quote, Backslash,
   "{", "}", "%", "#", " ", "\n", "\r"}

ASSUME LexerAssumption ==
  /\ \A template \in Templates : template \in Seq(Characters)
  /\ Settings \subseteq [trim_blocks : BOOLEAN, lstrip_blocks : BOOLEAN]

VARIABLES
  m_in, m_config,
  m_state, m_pos,
  tokens         \* what scan() has returned

vars == <<m_in, m_config, m_state, m_pos, tokens>>

size == Len(m_in)
Char(p) == m_in[p + 1]
starts_with(p, s) == p + Len(s) <= size /\ SubSeq(m_in, p + 1, p + Len(s)) = s
(* the least position from p that is in the set, or the end of the template *)
FirstOf(S) == Min(S \cup {size})

Constructs == {"Expression", "Statement", "Comment", "Line"}
OpenSequence ==
  [Expression |-> <<"{", "{">>, Statement |-> <<"{", "%">>, Comment |-> <<"{", "#">>,
   Line |-> <<"#", "#">>]
CloseSequence ==
  [Expression |-> <<"}", "}">>, Statement |-> <<"%", "}">>, Comment |-> <<"#", "}">>,
   Line |-> <<"\n">>]
OpenChars == {"#", "{"}
Start(construct) == <<construct, "Start">>
Body(construct) == <<construct, "Body">>
Text == <<"Text", "">>

Token(kind, start, end) == [kind |-> kind, start |-> start, end |-> end]
Opens ==
  [Expression |-> "ExpressionOpen", Statement |-> "StatementOpen", Comment |-> "CommentOpen",
   Line |-> "LineStatementOpen"]
Closes ==
  [Expression |-> "ExpressionClose", Statement |-> "StatementClose", Comment |-> "CommentClose",
   Line |-> "LineStatementClose"]

Init ==
  /\ m_in \in Templates /\ m_config \in Settings
  /\ m_state = Text /\ m_pos = 0
  /\ tokens = <<>>

-----------------------------------------------------------------------------
(* Text *)

(* a line statement is opened at the start of a line only *)
Opening(p, construct) ==
  /\ starts_with(p, OpenSequence[construct])
  /\ construct = "Line" /\ p > 0 => Char(p - 1) = "\n"
IsOpening(p) ==
  Char(p) \in OpenChars /\ \E construct \in Constructs : Opening(p, construct)

(* Faulty variant: what was not an opening sequence is skipped as one.      *)
NextOpening_PairSkipped(p) ==
  FirstOf({q \in p .. size - 1 : IsOpening(q) /\ (q > p => Char(q - 1) \notin OpenChars)})

NextOpening(p) == FirstOf({q \in p .. size - 1 : IsOpening(q)})

(* the end of the text without the blanks of its last line *)
clear_final_line_if_whitespace(start, end) ==
  LET last == Max({q \in start .. end - 1 : Char(q) # " "} \cup {start - 1})
  IN  IF last < start \/ Char(last) \in {"\n", "\r"} THEN last + 1 ELSE end

text_end(construct, open) ==
  IF m_config.lstrip_blocks /\ construct \in {"Statement", "Comment"}
  THEN clear_final_line_if_whitespace(m_pos, open) ELSE open

Returns(kind, start, end) == tokens' = Append(tokens, Token(kind, start, end))

(* No construct is left: what remains is text *)
RemainingText ==
  /\ m_state = Text /\ m_pos < size
  /\ NextOpening(m_pos) = size
  /\ m_pos' = size
  /\ Returns("Text", m_pos, size)
  /\ UNCHANGED <<m_in, m_config, m_state>>

(* an empty text is not returned: the same call opens the construct, with   *)
(* the blanks before it                                                     *)
TextBefore(construct, open) ==
  /\ text_end(construct, open) > m_pos
  /\ m_state' = Start(construct) /\ m_pos' = open
  /\ Returns("Text", m_pos, text_end(construct, open))

OpenAtOnce(construct, open) ==
  /\ text_end(construct, open) = m_pos
  /\ m_state' = Body(construct) /\ m_pos' = open + 2
  /\ Returns(Opens[construct], m_pos, open + 2)

TextToOpening ==
  LET open == NextOpening(m_pos)
  IN  /\ m_state = Text /\ m_pos < size /\ open < size
      /\ \E construct \in Constructs :
           /\ Opening(open, construct)
           /\ TextBefore(construct, open) \/ OpenAtOnce(construct, open)
      /\ UNCHANGED <<m_in, m_config>>

Open(construct) ==
  /\ m_state = Start(construct)
  /\ m_state' = Body(construct) /\ m_pos' = m_pos + 2
  /\ Returns(Opens[construct], m_pos, m_pos + 2)
  /\ UNCHANGED <<m_in, m_config>>

-----------------------------------------------------------------------------
(* Bodies *)

Letters == {"a", "e"}
Digits == {"1"}
IdChars == Letters \cup Digits \cup {".", "/", "_", "-"}
NumberChars == Digits \cup {".", "e", "+", "-"}

InBody(construct) == m_state = Body(construct) /\ m_pos < size
(* blanks are skipped, and newlines that do not close *)
Skipped(construct) == IF construct = "Line" THEN {" ", "\r"} ELSE {" ", "\r", "\n"}
token_start(construct) == FirstOf({q \in m_pos .. size - 1 : Char(q) \notin Skipped(construct)})

(* Faulty variant: all newlines are skipped. *)
skip_newline_All(p) == FirstOf({q \in p .. size - 1 : Char(q) # "\n"})

skip_newline(p) ==
  CASE starts_with(p, <<"\r", "\n">>) -> p + 2
    [] p < size /\ Char(p) \in {"\n", "\r"} /\ ~starts_with(p, <<"\r", "\n">>) -> p + 1
    [] OTHER -> p

Trims(construct) == m_config.trim_blocks /\ construct \in {"Statement", "Comment"}
after_close(construct, p) ==
  LET end == p + Len(CloseSequence[construct])
  IN  IF Trims(construct) THEN skip_newline(end) ELSE end

scan_while(chars, p) == FirstOf({q \in p + 1 .. size - 1 : Char(q) \notin chars})

(* Faulty variants: the quote of a string that is not closed is counted; a  *)
(* quote ends the string also behind a backslash.                           *)
scan_string_Unclosed(p) ==
  LET quotes == {q \in p + 1 .. size - 1 : Char(q) = Quote /\ Char(q - 1) # Backslash}
  IN  Min(quotes \cup {size}) + 1

scan_string_Unescaped(p) ==
  LET quotes == {q \in p + 1 .. size - 1 : Char(q) = Quote}
  IN  IF quotes = {} THEN size ELSE Min(quotes) + 1

(* A string ends behind the first quote that no backslash precedes: also    *)
(* where that backslash is itself escaped.  The first quote has none.       *)
scan_string(p) ==
  LET quotes == {q \in p + 1 .. size - 1 : Char(q) = Quote /\ Char(q - 1) # Backslash}
  IN  IF quotes = {} THEN size ELSE Min(quotes) + 1

token_end(p) ==
  CASE Char(p) \in Letters \cup {"_"} -> scan_while(IdChars, p)
    [] Char(p) \in Digits \cup {"-"} -> scan_while(NumberChars, p)
    [] Char(p) = Quote -> scan_string(p)
    [] OTHER -> IF starts_with(p + 1, <<"=">>) /\ Char(p) \in {">", "<", "=", "!"}
                THEN p + 2 ELSE p + 1

kind_at(p) ==
  CASE Char(p) \in Letters \cup {"_"} -> "Id"
    [] Char(p) \in Digits \cup {"-"} -> "Number"
    [] Char(p) = Quote -> "String"
    [] OTHER -> "Other"

Scanned == Constructs \ {"Comment"}

BodyToken(construct) ==
  LET p == token_start(construct)
  IN  /\ InBody(construct)
      /\ p < size /\ ~starts_with(p, CloseSequence[construct])
      /\ m_pos' = token_end(p)
      /\ Returns(kind_at(p), p, token_end(p))
      /\ UNCHANGED <<m_in, m_config, m_state>>

BodyClose(construct) ==
  LET p == token_start(construct)
  IN  /\ InBody(construct)
      /\ p < size /\ starts_with(p, CloseSequence[construct])
      /\ m_state' = Text /\ m_pos' = after_close(construct, p)
      /\ Returns(Closes[construct], p, p + Len(CloseSequence[construct]))
      /\ UNCHANGED <<m_in, m_config>>

comment_end == FirstOf({q \in m_pos .. size - 1 : starts_with(q, CloseSequence["Comment"])})

CommentClose ==
  /\ InBody("Comment")
  /\ comment_end < size
  /\ m_state' = Text /\ m_pos' = after_close("Comment", comment_end)
  /\ Returns(Closes["Comment"], m_pos, comment_end + 2)
  /\ UNCHANGED <<m_in, m_config>>

Ended == tokens # <<>> /\ Last(tokens).kind = "Eof"

(* Faulty variant: an unclosed comment is not noticed.                      *)
Eof_NotOfComments ==
  /\ ~Ended
  /\ m_state # Body("Comment")
  /\ \/ m_pos = size /\ Returns("Eof", m_pos, m_pos)
     \/ /\ \E construct \in Scanned : InBody(construct) /\ token_start(construct) = size
        /\ Returns("Eof", size, size)
  /\ UNCHANGED <<m_in, m_config, m_state, m_pos>>

(* The end, also within a construct.  Further calls return Eof again.       *)
Eof ==
  /\ ~Ended
  /\ \/ m_pos = size /\ m_pos' = m_pos /\ Returns("Eof", m_pos, m_pos)
     \/ /\ \E construct \in Scanned : InBody(construct) /\ token_start(construct) = size
        /\ m_pos' = m_pos
        /\ Returns("Eof", size, size)
     \/ /\ InBody("Comment") /\ comment_end = size
        /\ m_pos' = size
        /\ Returns("Eof", m_pos, size)
  /\ UNCHANGED <<m_in, m_config, m_state>>

scan ==
  \/ RemainingText
  \/ TextToOpening
  \/ \E construct \in Constructs : Open(construct)
  \/ \E construct \in Scanned : BodyToken(construct) \/ BodyClose(construct)
  \/ CommentClose
  \/ Eof

Spec == Init /\ [][scan]_vars /\ WF_vars(scan)

-----------------------------------------------------------------------------
(* Properties *)

Kinds ==
  {"Text", "Id", "Number", "String", "Other", "Eof"}
  \cup {Opens[construct] : construct \in Constructs} \cup {Closes[construct] : construct \in Constructs}

TypeOK ==
  /\ m_state \in {Text} \cup {Start(c) : c \in Constructs} \cup {Body(c) : c \in Constructs}
  /\ m_pos \in 0 .. size
  /\ \A k \in DOMAIN tokens :
       /\ tokens[k].kind \in Kinds
       /\ tokens[k].start \in 0 .. tokens[k].end /\ tokens[k].end \in 0 .. size

(* What scan() may leave out between two of its tokens: the blanks of       *)
(* lstrip_blocks, the one newline of trim_blocks, and the whitespace within *)
(* a construct.  Everything else of the template is in exactly one token,   *)
(* in the order of the template: nothing that is to be printed is lost or   *)
(* printed twice, whichever way scan() was left.                            *)
Blanks(start, end) == \A q \in start .. end - 1 : Char(q) = " "
Whitespace(start, end) == \A q \in start .. end - 1 : Char(q) \in {" ", "\r", "\n"}
Newlines == {<<"\n">>, <<"\r">>, <<"\r", "\n">>}
Omitted(left, right) ==
  /\ left.kind = "Text" =>
       \/ right.start = left.end
       \/ /\ m_config.lstrip_blocks /\ right.kind \in {Opens["Statement"], Opens["Comment"]}
          /\ Blanks(left.end, right.start)
  /\ left.kind \in {Closes[c] : c \in Constructs} =>
       \/ right.start = left.end
       \/ /\ m_config.trim_blocks /\ left.kind \in {Closes["Statement"], Closes["Comment"]}
          /\ SubSeq(m_in, left.end + 1, right.start) \in Newlines
  /\ left.kind \notin {"Text"} \cup {Closes[c] : c \in Constructs} =>
       Whitespace(left.end, right.start)

NothingIsLost ==
  /\ tokens # <<>> => tokens[1].start = 0
  /\ \A k \in 1 .. Len(tokens) - 1 :
       tokens[k].end <= tokens[k + 1].start /\ Omitted(tokens[k], tokens[k + 1])
  /\ Ended => Last(tokens).end = size

(* A text that is printed contains nothing that opens a construct, and ends *)
(* where one is opened or at the end: of characters that only look like an  *)
(* opening, as in "#{{", none hides the opening that follows.               *)
OpensHere(q) ==
  /\ q + 1 < size
  /\ \/ Char(q) = "{" /\ Char(q + 1) \in {"{", "%", "#"}
     \/ Char(q) = "#" /\ Char(q + 1) = "#" /\ (q = 0 \/ Char(q - 1) = "\n")
TextOpensNothing ==
  \A k \in DOMAIN tokens :
    tokens[k].kind = "Text" => \A q \in tokens[k].start .. tokens[k].end - 1 : ~OpensHere(q)

(* A string ends where JSON, which is given its text, ends it: at the first *)
(* quote behind an even number of backslashes.  This is stated of strings   *)
(* without two backslashes in a row, at which scan_string loses count.      *)
BackslashesBefore(q) ==
  q - 1 - Max({p \in 0 .. q - 1 : Char(p) # Backslash} \cup {-1})
EndsString(q) == Char(q) = Quote /\ BackslashesBefore(q) % 2 = 0
StringsEndAsJson ==
  \A k \in DOMAIN tokens :
    LET inside == tokens[k].start + 1 .. tokens[k].end - 2
    IN  tokens[k].kind = "String"
        /\ (\A q \in inside : ~(Char(q) = Backslash /\ Char(q - 1) = Backslash))
        => /\ \A q \in inside : ~EndsString(q)
           /\ \/ tokens[k].end = size
              \/ tokens[k].end > tokens[k].start + 1 /\ EndsString(tokens[k].end - 1)

(* Every template ends: parse_into, which calls scan() until it returns     *)
(* Eof, does not go round for ever in a construct that is not closed.       *)
EndsEventually == <>Ended
=============================================================================
