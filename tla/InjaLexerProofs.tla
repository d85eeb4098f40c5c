-------------------------- MODULE InjaLexerProofs --------------------------
(***************************************************************************)
(* Proofs about the lexer, for every template, of any length, and every    *)
(* setting: what scan() returns is the template, cut where it should be.   *)
(***************************************************************************)
EXTENDS InjaLexer, SequenceTheorems, WellFoundedInduction, TLAPS

-----------------------------------------------------------------------------
(* What is so of every token that was returned *)

Tokens == [kind : Kinds, start : Nat, end : Nat]
InTemplate(t) == t.start <= t.end /\ t.end <= size

OpensNothing(t) == t.kind = "Text" => \A q \in t.start .. t.end - 1 : ~OpensHere(q)

EndsAsJson(t) ==
  LET inside == t.start + 1 .. t.end - 2
  IN  t.kind = "String"
      /\ (\A q \in inside : ~(Char(q) = Backslash /\ Char(q - 1) = Backslash))
      => /\ \A q \in inside : ~EndsString(q)
         /\ \/ t.end = size
            \/ t.end > t.start + 1 /\ EndsString(t.end - 1)

WellCut(t) == t \in Tokens /\ InTemplate(t) /\ OpensNothing(t) /\ EndsAsJson(t)

(* what is so of the last token where scan() will go on *)
ClosesKinds == {Closes[c] : c \in Constructs}
OpensKinds == {Opens[c] : c \in Constructs}
InsideKinds == OpensKinds \cup {"Id", "Number", "String", "Other"}

AfterClose(t) ==
  /\ t.kind \in ClosesKinds
  /\ \/ m_pos = t.end
     \/ /\ m_config.trim_blocks /\ t.kind \in {Closes["Statement"], Closes["Comment"]}
        /\ SubSeq(m_in, t.end + 1, m_pos) \in Newlines

BeforeOpening(t, c) ==
  /\ t.kind = "Text" /\ Opening(m_pos, c)
  /\ \/ m_pos = t.end
     \/ m_config.lstrip_blocks /\ c \in {"Statement", "Comment"} /\ Blanks(t.end, m_pos)

GoesOnBehind(t) ==
  /\ t.end <= m_pos
  /\ \/ m_state = Text /\ AfterClose(t)
     \/ m_state = Text /\ t.kind = "Text" /\ m_pos = size /\ t.end = size
     \/ \E c \in Constructs : m_state = Start(c) /\ BeforeOpening(t, c)
     \/ \E c \in Constructs : m_state = Body(c) /\ t.kind \in InsideKinds /\ m_pos = t.end

States == {Text} \cup {Start(c) : c \in Constructs} \cup {Body(c) : c \in Constructs}

(* scan() would return Eof again *)
NothingLeft ==
  \/ m_pos = size /\ m_state \in {Text} \cup {Body(c) : c \in Constructs}
  \/ \E c \in Scanned : m_state = Body(c) /\ token_start(c) = size

IInv ==
  /\ m_in \in Seq(Characters) /\ m_config \in [trim_blocks : BOOLEAN, lstrip_blocks : BOOLEAN]
  /\ m_state \in States
  /\ m_pos \in Nat /\ m_pos <= size
  /\ tokens \in Seq(Tokens)
  /\ \A k \in DOMAIN tokens : WellCut(tokens[k])
  /\ NothingIsLost
  /\ tokens = <<>> => m_state = Text /\ m_pos = 0
  /\ tokens # <<>> /\ ~Ended => GoesOnBehind(Last(tokens))
  /\ Ended => NothingLeft

-----------------------------------------------------------------------------
(* The loops of the lexer: least and greatest positions *)

LEMMA Least ==
  ASSUME NEW S \in SUBSET Nat, S # {}
  PROVE  Min(S) \in S /\ \A q \in S : Min(S) <= q
<1>1. PICK m \in S : \A q \in S : <<q, m>> \notin OpToRel(<, Nat)
  BY NatLessThanWellFounded, WFMin, Zenon
<1>2. \A q \in S : ~(q < m)
  BY <1>1 DEF OpToRel
<1>3. \A q \in S : m <= q
  BY <1>2
<1> QED  BY <1>3 DEF Min

LEMMA Greatest ==
  ASSUME NEW S \in SUBSET Int, S # {}, NEW b \in Int, \A q \in S : q <= b
  PROVE  Max(S) \in S /\ \A q \in S : q <= Max(S)
<1> DEFINE D == {b - q : q \in S}
<1>1. D \in SUBSET Nat /\ D # {}
  <2>1. \A q \in S : b - q \in Nat
    OBVIOUS
  <2> QED  BY <2>1
<1>2. Min(D) \in D /\ \A d \in D : Min(D) <= d
  <2> HIDE DEF D
  <2> QED  BY <1>1, Least
<1>3. PICK m \in S : Min(D) = b - m
  BY <1>2
<1>4. \A q \in S : b - m <= b - q
  BY <1>2, <1>3
<1>5. \A q \in S : m >= q
  BY <1>4
<1> QED  BY <1>5 DEF Max

(* FirstOf finds the first position of a set, or the end of the template. *)
LEMMA FirstFound ==
  ASSUME size \in Nat, NEW p \in Nat, p <= size, NEW S, S \subseteq p .. size - 1
  PROVE  /\ FirstOf(S) \in Nat /\ p <= FirstOf(S) /\ FirstOf(S) <= size
         /\ FirstOf(S) # size => FirstOf(S) \in S
         /\ \A q \in p .. FirstOf(S) - 1 : q \notin S
<1> DEFINE T == S \cup {size}
<1>1. T \in SUBSET Nat /\ T # {} /\ \A q \in T : p <= q /\ q <= size
  OBVIOUS
<1>2. Min(T) \in T /\ \A q \in T : Min(T) <= q
  <2> HIDE DEF T
  <2> QED  BY <1>1, Least
<1>3. FirstOf(S) = Min(T)
  BY DEF FirstOf
<1> DEFINE m == Min(T)
<1>4. \A q \in p .. m - 1 : q \notin S
  <2>1. m \in T /\ \A q \in T : m <= q
    BY <1>2
  <2> HIDE DEF m
  <2>2. m \in Nat /\ \A q \in p .. m - 1 : q \notin T
    <3> HIDE DEF T
    <3> QED  BY <1>1, <2>1
  <2> QED  BY <2>2
<1> HIDE DEF T
<1>5. Min(T) # size => Min(T) \in S
  BY <1>2 DEF T
<1> QED  BY <1>1, <1>2, <1>3, <1>4, <1>5

-----------------------------------------------------------------------------
(* Sequences of characters at a position *)

LEMMA StartsWithTwo ==
  ASSUME m_in \in Seq(Characters), NEW p \in Nat, NEW a, NEW b
  PROVE  starts_with(p, <<a, b>>) <=> p + 2 <= size /\ Char(p) = a /\ Char(p + 1) = b
<1>1. Len(<<a, b>>) = 2 /\ <<a, b>>[1] = a /\ <<a, b>>[2] = b
  OBVIOUS
<1>2. size \in Nat
  BY LenProperties DEF size
<1> SUFFICES ASSUME p + 2 <= size
             PROVE  SubSeq(m_in, p + 1, p + 2) = <<a, b>> <=> Char(p) = a /\ Char(p + 1) = b
  BY <1>1 DEF starts_with
<1> DEFINE u == SubSeq(m_in, p + 1, p + 2)
<1>3. /\ u \in Seq(Characters) /\ Len(u) = 2
      /\ u[1] = m_in[p + 1] /\ u[2] = m_in[p + 2]
  <2>1. p + 1 \in 1 .. Len(m_in) + 1 /\ p + 2 \in (p + 1) - 1 .. Len(m_in)
    BY <1>2 DEF size
  <2>2. /\ u \in Seq(Characters) /\ Len(u) = (p + 2) - (p + 1) + 1
        /\ \A k \in 1 .. ((p + 2) - (p + 1) + 1) : u[k] = m_in[(p + 1) + k - 1]
    BY <2>1, SubSeqProperties
  <2>3. (p + 2) - (p + 1) + 1 = 2 /\ (p + 1) + 1 - 1 = p + 1 /\ (p + 1) + 2 - 1 = p + 2
    OBVIOUS
  <2>4. 1 \in 1 .. 2 /\ 2 \in 1 .. 2
    OBVIOUS
  <2> HIDE DEF u
  <2> QED  BY <2>2, <2>3, <2>4
<1>4. u = <<u[1], u[2]>>
  <2> HIDE DEF u
  <2> QED  BY <1>3
<1>5. (p + 1) + 1 = p + 2
  OBVIOUS
<1> HIDE DEF u
<1>6. u = <<a, b>> <=> u[1] = a /\ u[2] = b
  BY <1>4
<1> QED  BY <1>3, <1>5, <1>6 DEF u, Char

LEMMA StartsWithOne ==
  ASSUME m_in \in Seq(Characters), NEW p \in Nat, NEW a
  PROVE  starts_with(p, <<a>>) <=> p + 1 <= size /\ Char(p) = a
<1>1. Len(<<a>>) = 1 /\ <<a>>[1] = a
  OBVIOUS
<1>2. size \in Nat
  BY LenProperties DEF size
<1> SUFFICES ASSUME p + 1 <= size
             PROVE  SubSeq(m_in, p + 1, p + 1) = <<a>> <=> Char(p) = a
  BY <1>1 DEF starts_with
<1> DEFINE u == SubSeq(m_in, p + 1, p + 1)
<1>3. u \in Seq(Characters) /\ Len(u) = 1 /\ u[1] = m_in[p + 1]
  <2>1. p + 1 \in 1 .. Len(m_in) + 1 /\ p + 1 \in (p + 1) - 1 .. Len(m_in)
    BY <1>2 DEF size
  <2>2. /\ u \in Seq(Characters) /\ Len(u) = (p + 1) - (p + 1) + 1
        /\ \A k \in 1 .. ((p + 1) - (p + 1) + 1) : u[k] = m_in[(p + 1) + k - 1]
    BY <2>1, SubSeqProperties
  <2>3. (p + 1) - (p + 1) + 1 = 1 /\ (p + 1) + 1 - 1 = p + 1 /\ 1 \in 1 .. 1
    OBVIOUS
  <2> HIDE DEF u
  <2> QED  BY <2>2, <2>3
<1>4. u = <<u[1]>>
  <2> HIDE DEF u
  <2> QED  BY <1>3
<1> HIDE DEF u
<1> QED  BY <1>3, <1>4 DEF u, Char

-----------------------------------------------------------------------------
(* What scan() finds in a text *)

InputOK ==
  /\ m_in \in Seq(Characters) /\ m_config \in [trim_blocks : BOOLEAN, lstrip_blocks : BOOLEAN]
  /\ size \in Nat /\ m_pos \in Nat /\ m_pos <= size

LEMMA InputIsOK ==
  ASSUME IInv
  PROVE  InputOK
BY LenProperties DEF IInv, InputOK, size

LEMMA OpeningHasRoom ==
  ASSUME InputOK, NEW p \in Nat, NEW c \in Constructs, Opening(p, c)
  PROVE  p + 2 <= size
<1>1. /\ OpenSequence["Expression"] = <<"{", "{">> /\ OpenSequence["Statement"] = <<"{", "%">>
      /\ OpenSequence["Comment"] = <<"{", "#">> /\ OpenSequence["Line"] = <<"#", "#">>
  BY DEF OpenSequence
<1>2. starts_with(p, OpenSequence[c])
  BY DEF Opening
<1> QED  BY <1>1, <1>2, StartsWithTwo DEF Constructs, InputOK

(* What opens a construct is looked for. *)
LEMMA OpeningIsLookedFor ==
  ASSUME InputOK, NEW q \in Nat, OpensHere(q)
  PROVE  IsOpening(q)
<1>1. /\ OpenSequence["Expression"] = <<"{", "{">> /\ OpenSequence["Statement"] = <<"{", "%">>
      /\ OpenSequence["Comment"] = <<"{", "#">> /\ OpenSequence["Line"] = <<"#", "#">>
  BY DEF OpenSequence
<1>2. m_in \in Seq(Characters) /\ q + 2 <= size
  <2>1. size \in Nat /\ q + 1 < size
    BY DEF OpensHere, InputOK
  <2>2. q + 2 <= size
    BY <2>1
  <2> QED  BY <2>2 DEF InputOK
<1>3. Char(q) \in OpenChars
  BY DEF OpensHere, OpenChars
<1>4. ASSUME NEW c \in {"Expression", "Statement", "Comment"}, starts_with(q, OpenSequence[c])
      PROVE  IsOpening(q)
  <2>1. c \in Constructs /\ c # "Line"
    BY DEF Constructs
  <2> QED  BY <1>3, <1>4, <2>1 DEF IsOpening, Opening
<1>5. CASE Char(q) = "{" /\ Char(q + 1) \in {"{", "%", "#"}
  <2>1. starts_with(q, <<"{", Char(q + 1)>>)
    BY <1>2, <1>5, StartsWithTwo
  <2> QED  BY <1>1, <1>4, <1>5, <2>1
<1>6. CASE Char(q) = "#" /\ Char(q + 1) = "#" /\ (q = 0 \/ Char(q - 1) = "\n")
  <2>1. starts_with(q, OpenSequence["Line"])
    <3>1. starts_with(q, <<"#", "#">>)
      BY <1>2, <1>6, StartsWithTwo
    <3> QED  BY <1>1, <3>1
  <2>2. q > 0 => Char(q - 1) = "\n"
    BY <1>6
  <2>3. Opening(q, "Line")
    BY <2>1, <2>2 DEF Opening
  <2> QED  BY <1>3, <2>3 DEF IsOpening, Constructs
<1> QED  BY <1>5, <1>6 DEF OpensHere

LEMMA NextOpeningFound ==
  ASSUME InputOK
  PROVE  LET open == NextOpening(m_pos)
         IN  /\ open \in Nat /\ m_pos <= open /\ open <= size
             /\ \A q \in m_pos .. open - 1 : ~OpensHere(q)
<1> DEFINE S == {q \in m_pos .. size - 1 : IsOpening(q)}
           open == FirstOf(S)
<1>1. size \in Nat /\ m_pos \in Nat /\ m_pos <= size
  BY DEF InputOK
<1>2. /\ open \in Nat /\ m_pos <= open /\ open <= size
      /\ \A q \in m_pos .. open - 1 : q \notin S
  <2>1. S \subseteq m_pos .. size - 1
    OBVIOUS
  <2> HIDE DEF S
  <2> QED  BY <1>1, <2>1, FirstFound
<1> HIDE DEF open
<1>3. \A q \in m_pos .. open - 1 : q \in Nat /\ q \in m_pos .. size - 1
  BY <1>1, <1>2
<1>4. \A q \in m_pos .. open - 1 : ~OpensHere(q)
  BY <1>2, <1>3, OpeningIsLookedFor
<1> QED  BY <1>2, <1>4 DEF NextOpening, open

(* Only blanks are taken off the end of a text. *)
LEMMA TextEnds ==
  ASSUME InputOK, NEW open \in Nat, m_pos <= open, open <= size, NEW c \in Constructs
  PROVE  LET end == text_end(c, open)
         IN  /\ end \in Nat /\ m_pos <= end /\ end <= open
             /\ \/ end = open
                \/ m_config.lstrip_blocks /\ c \in {"Statement", "Comment"} /\ Blanks(end, open)
<1> DEFINE S == {q \in m_pos .. open - 1 : Char(q) # " "} \cup {m_pos - 1}
           last == Max(S)
<1>1. size \in Nat /\ m_pos \in Nat /\ m_pos <= size
  BY DEF InputOK
<1>2. S \in SUBSET Int /\ S # {} /\ \A q \in S : m_pos - 1 <= q /\ q <= open - 1
  <2>1. \A q \in m_pos .. open - 1 : q \in Int /\ m_pos - 1 <= q /\ q <= open - 1
    BY <1>1
  <2>2. m_pos - 1 \in Int /\ m_pos - 1 <= open - 1 /\ m_pos - 1 <= m_pos - 1
    BY <1>1
  <2> QED  BY <2>1, <2>2
<1>3. last \in S /\ \A q \in S : q <= last
  <2> HIDE DEF S
  <2>1. open - 1 \in Int /\ \A q \in S : q <= open - 1
    BY <1>2
  <2> QED  BY <1>2, <2>1, Greatest
<1> HIDE DEF last
<1>4. last \in Int /\ m_pos - 1 <= last /\ last <= open - 1
  <2> HIDE DEF S
  <2> QED  BY <1>2, <1>3
<1>5. Blanks(last + 1, open)
  <2> SUFFICES ASSUME NEW q \in last + 1 .. open - 1
               PROVE  Char(q) = " "
    BY DEF Blanks
  <2>1. q \in m_pos .. open - 1 /\ ~(q <= last)
    BY <1>1, <1>4
  <2>2. q \notin S
    <3> HIDE DEF S
    <3> QED  BY <1>3, <2>1
  <2> QED  BY <2>1, <2>2
<1>6. last + 1 \in Nat /\ m_pos <= last + 1 /\ last + 1 <= open
  BY <1>1, <1>4
<1>7. clear_final_line_if_whitespace(m_pos, open) \in {last + 1, open}
  BY DEF clear_final_line_if_whitespace, last, S
<1> HIDE DEF S
<1> QED  BY <1>1, <1>5, <1>6, <1>7 DEF text_end

-----------------------------------------------------------------------------
(* What scan() finds in a body *)

LEMMA QuoteIsNoBackslash == Quote # Backslash
BY DEF Quote, Backslash

LEMMA TokenStarts ==
  ASSUME InputOK, NEW c \in Constructs
  PROVE  LET p == token_start(c)
         IN  /\ p \in Nat /\ m_pos <= p /\ p <= size
             /\ Whitespace(m_pos, p)
<1> DEFINE S == {q \in m_pos .. size - 1 : Char(q) \notin Skipped(c)}
           p == FirstOf(S)
<1>1. size \in Nat /\ m_pos \in Nat /\ m_pos <= size
  BY DEF InputOK
<1>2. p \in Nat /\ m_pos <= p /\ p <= size /\ \A q \in m_pos .. p - 1 : q \notin S
  <2>1. S \subseteq m_pos .. size - 1
    OBVIOUS
  <2> HIDE DEF S
  <2> QED  BY <1>1, <2>1, FirstFound
<1> HIDE DEF p
<1>3. \A q \in m_pos .. p - 1 : q \in m_pos .. size - 1
  BY <1>1, <1>2
<1>4. \A q \in m_pos .. p - 1 : Char(q) \in Skipped(c)
  BY <1>2, <1>3
<1>5. Skipped(c) \subseteq {" ", "\r", "\n"}
  BY DEF Skipped
<1>6. Whitespace(m_pos, p)
  BY <1>4, <1>5 DEF Whitespace
<1> QED  BY <1>2, <1>6 DEF token_start, p

LEMMA CommentEnds ==
  ASSUME InputOK
  PROVE  /\ comment_end \in Nat /\ m_pos <= comment_end /\ comment_end <= size
         /\ comment_end # size => starts_with(comment_end, CloseSequence["Comment"])
<1> DEFINE S == {q \in m_pos .. size - 1 : starts_with(q, CloseSequence["Comment"])}
           p == FirstOf(S)
<1>1. size \in Nat /\ m_pos \in Nat /\ m_pos <= size
  BY DEF InputOK
<1>2. p \in Nat /\ m_pos <= p /\ p <= size /\ (p # size => p \in S)
  <2>1. S \subseteq m_pos .. size - 1
    OBVIOUS
  <2> HIDE DEF S
  <2> QED  BY <1>1, <2>1, FirstFound
<1>3. comment_end = p
  BY DEF comment_end
<1> HIDE DEF p
<1> QED  BY <1>2, <1>3

LEMMA ScanWhileEnds ==
  ASSUME InputOK, NEW p \in Nat, p < size, NEW chars
  PROVE  LET end == scan_while(chars, p)
         IN  end \in Nat /\ p < end /\ end <= size
<1> DEFINE S == {q \in p + 1 .. size - 1 : Char(q) \notin chars}
           end == FirstOf(S)
<1>1. size \in Nat /\ p + 1 \in Nat /\ p + 1 <= size
  BY DEF InputOK
<1>2. end \in Nat /\ p + 1 <= end /\ end <= size
  <2>1. S \subseteq p + 1 .. size - 1
    OBVIOUS
  <2> HIDE DEF S
  <2> QED  BY <1>1, <2>1, FirstFound
<1>3. scan_while(chars, p) = end
  BY DEF scan_while
<1> HIDE DEF end
<1> QED  BY <1>2, <1>3

(* A quote without a backslash before it ends a string, and one behind a    *)
(* single backslash does not.                                               *)
LEMMA QuotesAndBackslashes ==
  ASSUME NEW q \in Nat, q > 0, Char(q) = Quote
  PROVE  /\ Char(q - 1) # Backslash => EndsString(q)
         /\ q > 1 /\ Char(q - 1) = Backslash /\ Char(q - 2) # Backslash => ~EndsString(q)
<1> DEFINE S == {p \in 0 .. q - 1 : Char(p) # Backslash} \cup {-1}
           last == Max(S)
<1>1. last \in S /\ \A p \in S : p <= last
  <2>1. S \in SUBSET Int /\ S # {} /\ q - 1 \in Int /\ \A p \in S : p <= q - 1
    OBVIOUS
  <2> HIDE DEF S
  <2> QED  BY <2>1, Greatest
<1>2. BackslashesBefore(q) = q - 1 - last
  BY DEF BackslashesBefore
<1> HIDE DEF last
<1>3. last \in Int /\ last <= q - 1 /\ (last >= 0 => Char(last) # Backslash)
  BY <1>1
<1>4. ASSUME Char(q - 1) # Backslash PROVE EndsString(q)
  <2>1. q - 1 \in S
    BY <1>4
  <2>2. last = q - 1
    <3> HIDE DEF S
    <3> QED  BY <1>1, <1>3, <2>1
  <2>3. BackslashesBefore(q) % 2 = 0
    BY <1>2, <2>2
  <2> QED  BY <2>3 DEF EndsString
<1>5. ASSUME q > 1, Char(q - 1) = Backslash, Char(q - 2) # Backslash PROVE ~EndsString(q)
  <2>1. q - 2 \in S
    BY <1>5
  <2>2. q - 2 <= last /\ last # q - 1
    <3>1. last = q - 1 => Char(last) # Backslash
      BY <1>3
    <3>2. q - 2 <= last
      <4> HIDE DEF S
      <4> QED  BY <1>1, <2>1
    <3> QED  BY <1>5, <3>1, <3>2
  <2>3. last = q - 2
    BY <1>3, <2>2
  <2>4. BackslashesBefore(q) = 1
    BY <1>2, <2>3
  <2> QED  BY <2>4 DEF EndsString
<1> QED  BY <1>4, <1>5

(* inja.hpp:2212-2228 *)
LEMMA StringEnds ==
  ASSUME InputOK, NEW p \in Nat, p < size, Char(p) = Quote
  PROVE  LET end == scan_string(p)
         IN  /\ end \in Nat /\ p < end /\ end <= size
             /\ EndsAsJson(Token("String", p, end))
<1> DEFINE quotes == {q \in p + 1 .. size - 1 : Char(q) = Quote /\ Char(q - 1) # Backslash}
           end == scan_string(p)
<1>1. size \in Nat /\ quotes \in SUBSET Nat /\ \A q \in quotes : p + 1 <= q /\ q <= size - 1
  BY DEF InputOK
<1>2. /\ end \in Nat /\ p < end /\ end <= size
      /\ \A q \in p + 1 .. end - 2 : q \notin quotes
      /\ end = size \/ end - 1 \in quotes
  <2>1. CASE quotes = {}
    <3>1. end = size
      BY <2>1 DEF scan_string
    <3> HIDE DEF quotes, end
    <3> QED  BY <1>1, <2>1, <3>1
  <2>2. CASE quotes # {}
    <3> DEFINE m == Min(quotes)
    <3>1. end = m + 1
      BY <2>2 DEF scan_string
    <3> HIDE DEF quotes, end
    <3>2. m \in quotes /\ \A q \in quotes : m <= q
      BY <1>1, <2>2, Least
    <3> HIDE DEF m
    <3>3. end \in Nat /\ p < end /\ end <= size /\ end - 1 = m /\ m \in Nat
      BY <1>1, <3>1, <3>2
    <3>4. \A q \in p + 1 .. end - 2 : ~(m <= q)
      BY <3>3
    <3> QED  BY <3>2, <3>3, <3>4
  <2> QED  BY <2>1, <2>2
<1>3. \A q \in p + 1 .. end - 2 : Char(q) = Quote => Char(q - 1) = Backslash
  <2> HIDE DEF end
  <2>1. \A q \in p + 1 .. end - 2 : q \in p + 1 .. size - 1
    BY <1>1, <1>2
  <2> QED  BY <1>2, <2>1
<1>4. end = size \/ (end - 1 > p /\ end - 1 \in Nat /\ Char(end - 1) = Quote /\ Char((end - 1) - 1) # Backslash)
  <2> HIDE DEF end
  <2> QED  BY <1>1, <1>2
<1> HIDE DEF quotes, end
<1>5. ASSUME \A q \in p + 1 .. end - 2 : ~(Char(q) = Backslash /\ Char(q - 1) = Backslash),
             NEW q \in p + 1 .. end - 2
      PROVE  ~EndsString(q)
  <2>1. CASE Char(q) # Quote
    BY <2>1 DEF EndsString
  <2>2. CASE Char(q) = Quote
    <3>1. q \in Nat /\ q > 0 /\ q - 1 \in Nat /\ (q - 1) - 1 = q - 2
      BY <1>2
    <3>2. Char(q - 1) = Backslash
      BY <1>3, <2>2
    <3>3. q - 1 # p
      BY <3>2, QuoteIsNoBackslash
    <3>4. q - 1 \in p + 1 .. end - 2 /\ q > 1
      BY <1>2, <3>1, <3>3
    <3>5. Char((q - 1) - 1) # Backslash
      BY <1>5, <3>2, <3>4
    <3> QED  BY <2>2, <3>1, <3>2, <3>4, <3>5, QuotesAndBackslashes
  <2> QED  BY <2>1, <2>2
<1>6. end = size \/ (end > p + 1 /\ EndsString(end - 1))
  <2> SUFFICES ASSUME end # size PROVE end > p + 1 /\ EndsString(end - 1)
    OBVIOUS
  <2>1. end > p + 1 /\ end - 1 > 0
    BY <1>2, <1>4
  <2> QED  BY <1>4, <2>1, QuotesAndBackslashes
<1>7. Token("String", p, end).start = p /\ Token("String", p, end).end = end
  BY DEF Token
<1>8. EndsAsJson(Token("String", p, end))
  BY <1>5, <1>6, <1>7 DEF EndsAsJson
<1> QED  BY <1>2, <1>8 DEF end

LEMMA TokenEnds ==
  ASSUME InputOK, NEW p \in Nat, p < size
  PROVE  LET end == token_end(p)
         IN  /\ end \in Nat /\ p < end /\ end <= size
             /\ EndsAsJson(Token(kind_at(p), p, end))
             /\ kind_at(p) \in {"Id", "Number", "String", "Other"}
<1>1. size \in Nat
  BY DEF InputOK
<1>2. CASE Char(p) \in Letters \cup {"_"}
  <2>1. token_end(p) = scan_while(IdChars, p) /\ kind_at(p) = "Id"
    <3>1. Char(p) \notin Digits \cup {"-"} /\ Char(p) # Quote
      BY <1>2 DEF Letters, Digits, Quote
    <3> QED  BY <1>2, <3>1 DEF token_end, kind_at
  <2>2. EndsAsJson(Token("Id", p, token_end(p)))
    BY DEF EndsAsJson, Token
  <2> QED  BY <2>1, <2>2, ScanWhileEnds
<1>3. CASE Char(p) \in Digits \cup {"-"}
  <2>1. token_end(p) = scan_while(NumberChars, p) /\ kind_at(p) = "Number"
    <3>1. Char(p) \notin Letters \cup {"_"} /\ Char(p) # Quote
      BY <1>3 DEF Letters, Digits, Quote
    <3> QED  BY <1>3, <3>1 DEF token_end, kind_at
  <2>2. EndsAsJson(Token("Number", p, token_end(p)))
    BY DEF EndsAsJson, Token
  <2> QED  BY <2>1, <2>2, ScanWhileEnds
<1>4. CASE Char(p) = Quote
  <2>1. Quote \notin Letters \cup {"_"} /\ Quote \notin Digits \cup {"-"}
    BY DEF Quote, Letters, Digits
  <2>2. token_end(p) = scan_string(p) /\ kind_at(p) = "String"
    BY <1>4, <2>1 DEF token_end, kind_at
  <2> QED  BY <1>4, <2>2, StringEnds
<1>5. CASE /\ Char(p) \notin Letters \cup {"_"} /\ Char(p) \notin Digits \cup {"-"}
           /\ Char(p) # Quote
  <2>1. kind_at(p) = "Other"
    BY <1>5 DEF kind_at
  <2>2. EndsAsJson(Token("Other", p, token_end(p)))
    BY DEF EndsAsJson, Token
  <2>3. \/ token_end(p) = p + 1
        \/ token_end(p) = p + 2 /\ starts_with(p + 1, <<"=">>)
    BY <1>5 DEF token_end
  <2>4. starts_with(p + 1, <<"=">>) => p + 2 <= size
    <3>1. p + 1 \in Nat /\ (p + 1) + 1 = p + 2
      OBVIOUS
    <3> QED  BY <3>1, StartsWithOne DEF InputOK
  <2>5. token_end(p) \in Nat /\ p < token_end(p) /\ token_end(p) <= size
    BY <1>1, <2>3, <2>4
  <2> QED  BY <2>1, <2>2, <2>5
<1> QED  BY <1>2, <1>3, <1>4, <1>5

(* Behind what closes a construct at most one newline is left out, and only *)
(* with trim_blocks.                                                        *)
LEMMA NewlineSkipped ==
  ASSUME InputOK, NEW p \in Nat, p <= size
  PROVE  LET end == skip_newline(p)
         IN  /\ end \in Nat /\ p <= end /\ end <= size
             /\ end = p \/ SubSeq(m_in, p + 1, end) \in Newlines
<1>1. size \in Nat /\ m_in \in Seq(Characters)
  BY DEF InputOK
<1>2. CASE starts_with(p, <<"\r", "\n">>)
  <2>1. skip_newline(p) = p + 2
    BY <1>2 DEF skip_newline
  <2>2. p + 2 <= size /\ SubSeq(m_in, p + 1, p + 2) = <<"\r", "\n">>
    BY <1>2 DEF starts_with
  <2> QED  BY <2>1, <2>2 DEF Newlines
<1>3. CASE p < size /\ Char(p) \in {"\n", "\r"} /\ ~starts_with(p, <<"\r", "\n">>)
  <2>1. skip_newline(p) = p + 1
    BY <1>3 DEF skip_newline
  <2>2. p + 1 <= size
    BY <1>1, <1>3
  <2>3. starts_with(p, <<Char(p)>>)
    BY <1>1, <2>2, StartsWithOne
  <2>4. SubSeq(m_in, p + 1, p + 1) = <<Char(p)>>
    BY <2>3 DEF starts_with
  <2> QED  BY <1>3, <2>1, <2>2, <2>4 DEF Newlines
<1>4. CASE /\ ~starts_with(p, <<"\r", "\n">>)
           /\ ~(p < size /\ Char(p) \in {"\n", "\r"} /\ ~starts_with(p, <<"\r", "\n">>))
  BY <1>4 DEF skip_newline
<1> QED  BY <1>2, <1>3, <1>4

LEMMA CloseLength ==
  ASSUME NEW c \in Constructs
  PROVE  Len(CloseSequence[c]) = IF c = "Line" THEN 1 ELSE 2
<1>1. /\ CloseSequence["Expression"] = <<"}", "}">> /\ CloseSequence["Statement"] = <<"%", "}">>
      /\ CloseSequence["Comment"] = <<"#", "}">> /\ CloseSequence["Line"] = <<"\n">>
  BY DEF CloseSequence
<1>2. \A x, y : Len(<<x, y>>) = 2 /\ Len(<<x>>) = 1
  OBVIOUS
<1> QED  BY <1>1, <1>2 DEF Constructs

LEMMA ClosesAt ==
  ASSUME InputOK, NEW p \in Nat, NEW c \in Constructs, starts_with(p, CloseSequence[c])
  PROVE  LET end == p + Len(CloseSequence[c])
         IN  /\ end \in Nat /\ p < end /\ end <= size
             /\ after_close(c, p) \in Nat /\ end <= after_close(c, p) /\ after_close(c, p) <= size
             /\ \/ after_close(c, p) = end
                \/ /\ m_config.trim_blocks /\ c \in {"Statement", "Comment"}
                   /\ SubSeq(m_in, end + 1, after_close(c, p)) \in Newlines
<1> DEFINE end == p + Len(CloseSequence[c])
<1>1. Len(CloseSequence[c]) \in {1, 2}
  BY CloseLength
<1>2. end \in Nat /\ p < end /\ end <= size
  <2>1. end <= size
    BY DEF starts_with
  <2> QED  BY <1>1, <2>1
<1>3. after_close(c, p) = IF Trims(c) THEN skip_newline(end) ELSE end
  BY DEF after_close
<1> HIDE DEF end
<1>4. CASE Trims(c)
  <2>1. m_config.trim_blocks /\ c \in {"Statement", "Comment"}
    BY <1>4 DEF Trims
  <2> QED  BY <1>2, <1>3, <1>4, <2>1, NewlineSkipped DEF end
<1>5. CASE ~Trims(c)
  <2>1. end <= end
    BY <1>2
  <2> QED  BY <1>2, <1>3, <1>5, <2>1 DEF end
<1> QED  BY <1>4, <1>5

-----------------------------------------------------------------------------
(* What scan() leaves out in front of the token it returns *)

LEMMA KindFacts ==
  /\ {"Text", "Eof"} \cup InsideKinds \cup ClosesKinds \subseteq Kinds
  /\ {"Text", "Eof", "String"} \cap (OpensKinds \cup ClosesKinds) = {}
  /\ {"Text", "Eof"} \cap InsideKinds = {} /\ InsideKinds \cap ClosesKinds = {}
  /\ \A c \in Constructs : Opens[c] \in OpensKinds /\ Closes[c] \in ClosesKinds
<1>1. /\ Opens["Expression"] = "ExpressionOpen" /\ Opens["Statement"] = "StatementOpen"
      /\ Opens["Comment"] = "CommentOpen" /\ Opens["Line"] = "LineStatementOpen"
  BY DEF Opens
<1>2. /\ Closes["Expression"] = "ExpressionClose" /\ Closes["Statement"] = "StatementClose"
      /\ Closes["Comment"] = "CommentClose" /\ Closes["Line"] = "LineStatementClose"
  BY DEF Closes
<1>3. OpensKinds = {"ExpressionOpen", "StatementOpen", "CommentOpen", "LineStatementOpen"}
  BY <1>1 DEF OpensKinds, Constructs
<1>4. ClosesKinds = {"ExpressionClose", "StatementClose", "CommentClose", "LineStatementClose"}
  BY <1>2 DEF ClosesKinds, Constructs
<1>5. \A c \in Constructs : Opens[c] \in OpensKinds /\ Closes[c] \in ClosesKinds
  BY DEF OpensKinds, ClosesKinds
<1>6. Kinds = {"Text", "Id", "Number", "String", "Other", "Eof"} \cup OpensKinds \cup ClosesKinds
  BY DEF Kinds, OpensKinds, ClosesKinds
<1> QED  BY <1>3, <1>4, <1>5, <1>6 DEF InsideKinds

LEMMA StatesDiffer ==
  /\ \A c : Text # Start(c) /\ Text # Body(c)
  /\ \A c, d : Start(c) # Body(d)
  /\ \A c, d : Start(c) = Start(d) => c = d
  /\ \A c, d : Body(c) = Body(d) => c = d
BY DEF Text, Start, Body

LEMMA LastToken ==
  ASSUME IInv, tokens # <<>>
  PROVE  /\ Last(tokens) = tokens[Len(tokens)] /\ WellCut(Last(tokens))
         /\ ~Ended => GoesOnBehind(Last(tokens))
<1>1. tokens \in Seq(Tokens) /\ \A k \in DOMAIN tokens : WellCut(tokens[k])
  BY DEF IInv
<1>2. Len(tokens) \in DOMAIN tokens
  BY <1>1, LenProperties, EmptySeq
<1> QED  BY <1>1, <1>2 DEF Last, IInv

(* nothing may be left out in front of t *)
Adjoins(t) ==
  /\ ~Ended
  /\ tokens = <<>> => t.start = 0
  /\ tokens # <<>> => Last(tokens).end <= t.start /\ Omitted(Last(tokens), t)

LEMMA OmittedBehindText ==
  ASSUME NEW l, l.kind = "Text", NEW t
  PROVE  /\ t.start = l.end => Omitted(l, t)
         /\ /\ m_config.lstrip_blocks /\ t.kind \in {Opens["Statement"], Opens["Comment"]}
            /\ Blanks(l.end, t.start)
            => Omitted(l, t)
<1>1. "Text" \notin ClosesKinds
  BY KindFacts
<1> QED  BY <1>1 DEF Omitted, ClosesKinds

LEMMA AdjoinsInText ==
  ASSUME IInv, ~Ended, m_state = Text, NEW t, t.start = m_pos
  PROVE  Adjoins(t)
<1> SUFFICES ASSUME tokens # <<>>
             PROVE  Last(tokens).end <= t.start /\ Omitted(Last(tokens), t)
  BY DEF Adjoins, IInv
<1> DEFINE l == Last(tokens)
<1>1. l.end <= m_pos /\ (AfterClose(l) \/ (l.kind = "Text" /\ m_pos = l.end))
  <2>1. GoesOnBehind(l)
    BY LastToken
  <2> HIDE DEF l
  <2> QED  BY <2>1, StatesDiffer DEF GoesOnBehind
<1>2. CASE AfterClose(l)
  <2>1. l.kind \in ClosesKinds /\ l.kind # "Text"
    BY <1>2, KindFacts DEF AfterClose
  <2> HIDE DEF l
  <2>2. Omitted(l, t)
    BY <1>2, <2>1 DEF Omitted, AfterClose, ClosesKinds
  <2> QED  BY <1>1, <2>2 DEF l
<1>3. CASE l.kind = "Text" /\ m_pos = l.end
  <2> HIDE DEF l
  <2>1. Omitted(l, t)
    BY <1>3 DEF Omitted
  <2> QED  BY <1>1, <2>1 DEF l
<1> QED  BY <1>1, <1>2, <1>3

LEMMA AdjoinsAtStart ==
  ASSUME IInv, ~Ended, NEW c \in Constructs, m_state = Start(c),
         NEW t, t.start = m_pos, t.kind = Opens[c]
  PROVE  Adjoins(t) /\ Opening(m_pos, c)
<1> DEFINE l == Last(tokens)
<1>1. tokens # <<>>
  BY StatesDiffer DEF IInv
<1>2. l.end <= m_pos /\ BeforeOpening(l, c)
  <2>1. GoesOnBehind(l)
    BY <1>1, LastToken
  <2> HIDE DEF l
  <2> QED  BY <2>1, StatesDiffer DEF GoesOnBehind
<1> HIDE DEF l
<1>3. Omitted(l, t)
  <2>1. c \in {"Statement", "Comment"} => t.kind \in {Opens["Statement"], Opens["Comment"]}
    OBVIOUS
  <2>2. l.kind = "Text"
    BY <1>2 DEF BeforeOpening
  <2>3. \/ t.start = l.end
        \/ /\ m_config.lstrip_blocks /\ t.kind \in {Opens["Statement"], Opens["Comment"]}
           /\ Blanks(l.end, t.start)
    BY <1>2, <2>1 DEF BeforeOpening
  <2> QED  BY <2>2, <2>3, OmittedBehindText
<1> QED  BY <1>1, <1>2, <1>3 DEF Adjoins, BeforeOpening, l

LEMMA AdjoinsInBody ==
  ASSUME IInv, ~Ended, NEW c \in Constructs, m_state = Body(c),
         NEW t, t.start \in Nat, m_pos <= t.start, Whitespace(m_pos, t.start)
  PROVE  Adjoins(t)
<1> DEFINE l == Last(tokens)
<1>1. tokens # <<>>
  BY StatesDiffer DEF IInv
<1>2. l.kind \in InsideKinds /\ m_pos = l.end
  <2>1. GoesOnBehind(l)
    BY <1>1, LastToken
  <2> HIDE DEF l
  <2> QED  BY <2>1, StatesDiffer DEF GoesOnBehind
<1> HIDE DEF l
<1>3. l.kind # "Text" /\ l.kind \notin ClosesKinds
  BY <1>2, KindFacts
<1>4. Omitted(l, t)
  BY <1>2, <1>3 DEF Omitted, ClosesKinds
<1> QED  BY <1>1, <1>2, <1>4 DEF Adjoins, l

-----------------------------------------------------------------------------
(* One more token *)

LEMMA TokenFields ==
  ASSUME NEW kind \in Kinds, NEW start \in Nat, NEW end \in Nat
  PROVE  /\ Token(kind, start, end) \in Tokens
         /\ Token(kind, start, end).kind = kind
         /\ Token(kind, start, end).start = start /\ Token(kind, start, end).end = end
BY DEF Token, Tokens

LEMMA OneMoreToken ==
  ASSUME IInv, NEW t \in Tokens, WellCut(t), Adjoins(t), t.kind = "Eof" => t.end = size,
         tokens' = Append(tokens, t), UNCHANGED <<m_in, m_config>>
  PROVE  /\ InputOK /\ (m_in \in Seq(Characters))'
         /\ (m_config \in [trim_blocks : BOOLEAN, lstrip_blocks : BOOLEAN])'
         /\ (tokens \in Seq(Tokens))' /\ size' = size
         /\ (\A k \in DOMAIN tokens : WellCut(tokens[k]))'
         /\ NothingIsLost'
         /\ tokens' # <<>> /\ Last(tokens)' = t /\ (Ended' <=> t.kind = "Eof")
<1> DEFINE n == Len(tokens)
<1>1. /\ tokens \in Seq(Tokens) /\ n \in Nat /\ DOMAIN tokens = 1 .. n
      /\ tokens' \in Seq(Tokens) /\ Len(tokens') = n + 1 /\ DOMAIN tokens' = 1 .. n + 1
      /\ tokens'[n + 1] = t /\ \A k \in 1 .. n : tokens'[k] = tokens[k]
  <2>1. tokens \in Seq(Tokens)
    BY DEF IInv
  <2> QED  BY <2>1, AppendProperties, LenProperties
<1> HIDE DEF n
<1>2. tokens' # <<>> /\ Last(tokens)' = t /\ (Ended' <=> t.kind = "Eof")
  <2>1. tokens' # <<>>
    BY <1>1, EmptySeq
  <2>2. Last(tokens)' = t
    BY <1>1 DEF Last
  <2> QED  BY <2>1, <2>2 DEF Ended
<1>3. \A u : WellCut(u)' <=> WellCut(u)
  BY DEF WellCut, InTemplate, OpensNothing, OpensHere, EndsAsJson, EndsString, BackslashesBefore,
         Char, size
<1>4. (\A k \in DOMAIN tokens : WellCut(tokens[k]))'
  <2> SUFFICES ASSUME NEW k \in 1 .. n + 1 PROVE WellCut(tokens'[k])
    BY <1>1, <1>3
  <2>1. k \in 1 .. n \/ k = n + 1
    BY <1>1
  <2> QED  BY <1>1, <2>1 DEF IInv
<1>5. \A u, v : Omitted(u, v)' <=> Omitted(u, v)
  BY DEF Omitted, Blanks, Whitespace, Char
<1>6. NothingIsLost'
  <2>1. tokens'[1].start = 0
    <3>1. CASE n = 0
      <4>1. tokens = <<>> /\ tokens'[1] = t
        BY <1>1, <3>1, EmptySeq DEF n
      <4> QED  BY <4>1 DEF Adjoins
    <3>2. CASE n # 0
      <4>1. 1 \in 1 .. n /\ tokens # <<>>
        BY <1>1, <3>2, EmptySeq DEF n
      <4> QED  BY <1>1, <4>1 DEF IInv, NothingIsLost
    <3> QED  BY <3>1, <3>2
  <2>2. \A k \in 1 .. n :
          tokens'[k].end <= tokens'[k + 1].start /\ Omitted(tokens'[k], tokens'[k + 1])
    <3> SUFFICES ASSUME NEW k \in 1 .. n
                 PROVE  tokens'[k].end <= tokens'[k + 1].start /\ Omitted(tokens'[k], tokens'[k + 1])
      OBVIOUS
    <3>1. CASE k = n
      <4>1. tokens # <<>> /\ Last(tokens) = tokens[n]
        BY <1>1, <3>1, EmptySeq DEF n, Last
      <4> QED  BY <1>1, <3>1, <4>1 DEF Adjoins
    <3>2. CASE k # n
      <4>1. k \in 1 .. n - 1 /\ k + 1 \in 1 .. n
        BY <1>1, <3>2
      <4>2. tokens[k].end <= tokens[k + 1].start /\ Omitted(tokens[k], tokens[k + 1])
        BY <4>1 DEF IInv, NothingIsLost, n
      <4> QED  BY <1>1, <4>1, <4>2
    <3> QED  BY <3>1, <3>2
  <2>3. (n + 1) - 1 = n
    BY <1>1
  <2>4. Ended' => Last(tokens)'.end = size'
    BY <1>2 DEF size
  <2> QED  BY <1>1, <1>5, <2>1, <2>2, <2>3, <2>4 DEF NothingIsLost
<1>7. size' = size
  BY DEF size
<1> QED  BY <1>1, <1>2, <1>4, <1>6, <1>7, InputIsOK DEF IInv

LEMMA ReturnKeepsIInv ==
  ASSUME IInv, NEW t \in Tokens, WellCut(t), Adjoins(t),
         tokens' = Append(tokens, t), UNCHANGED <<m_in, m_config>>,
         m_state' \in States,
         m_pos' \in Nat, m_pos' <= size,
         t.kind = "Eof" => t.end = size /\ NothingLeft',
         t.kind # "Eof" => GoesOnBehind(t)'
  PROVE  IInv'
<1>1. (m_in \in Seq(Characters))' /\ (tokens \in Seq(Tokens))' /\ size' = size
  BY OneMoreToken
<1>2. (m_config \in [trim_blocks : BOOLEAN, lstrip_blocks : BOOLEAN])'
  BY OneMoreToken
<1>3. (\A k \in DOMAIN tokens : WellCut(tokens[k]))' /\ NothingIsLost'
  BY OneMoreToken
<1>4. tokens' # <<>> /\ Last(tokens)' = t /\ (Ended' <=> t.kind = "Eof")
  BY OneMoreToken
<1>5. (tokens # <<>> /\ ~Ended => GoesOnBehind(Last(tokens)))'
  BY <1>4 DEF GoesOnBehind, AfterClose, BeforeOpening, Last
<1>6. (Ended => NothingLeft)'
  BY <1>4
<1>7. (m_pos \in Nat /\ m_pos <= size)'
  BY <1>1
<1> QED  BY <1>1, <1>2, <1>3, <1>4, <1>5, <1>6, <1>7 DEF IInv

LEMMA EndedStays ==
  ASSUME IInv, Ended, scan
  PROVE  FALSE
<1>1. NothingLeft /\ InputOK
  BY InputIsOK DEF IInv
<1>2. size \in Nat /\ m_pos \in Nat /\ m_pos <= size
  BY <1>1 DEF InputOK
<1>3. CASE m_pos = size /\ m_state \in {Text} \cup {Body(c) : c \in Constructs}
  <2>1. \A c : m_state # Start(c)
    BY <1>3, StatesDiffer
  <2>2. ~(m_pos < size)
    BY <1>2, <1>3
  <2> QED  BY <2>1, <2>2 DEF scan, RemainingText, TextToOpening, Open, BodyToken, BodyClose,
                            CommentClose, InBody, Eof
<1>4. ASSUME NEW c \in Scanned, m_state = Body(c), token_start(c) = size PROVE FALSE
  <2>1. m_state # Text /\ \A d : m_state # Start(d) /\ (m_state = Body(d) => d = c)
    BY <1>4, StatesDiffer
  <2>2. c # "Comment" /\ ~(token_start(c) < size)
    BY <1>2, <1>4 DEF Scanned
  <2> QED  BY <2>1, <2>2 DEF scan, RemainingText, TextToOpening, Open, BodyToken, BodyClose,
                            CommentClose, InBody, Eof
<1> QED  BY <1>1, <1>3, <1>4 DEF NothingLeft

-----------------------------------------------------------------------------
(* The ways scan() returns *)

LEMMA PlainTokenIsWellCut ==
  ASSUME NEW t \in Tokens, InTemplate(t), t.kind \notin {"Text", "String"}
  PROVE  WellCut(t)
BY DEF WellCut, OpensNothing, EndsAsJson

LEMMA RemainingTextKeepsIInv ==
  ASSUME IInv, ~Ended, RemainingText
  PROVE  IInv'
<1>1. /\ InputOK /\ size \in Nat /\ m_pos \in Nat /\ m_pos <= size
  BY InputIsOK DEF InputOK
<1>2. /\ m_state = Text /\ NextOpening(m_pos) = size /\ m_pos' = size
      /\ m_state' = m_state /\ UNCHANGED <<m_in, m_config>>
  BY DEF RemainingText
<1>3. PICK t : t = Token("Text", m_pos, size)
  OBVIOUS
<1>4. tokens' = Append(tokens, t)
  BY <1>3 DEF RemainingText, Returns
<1>5. t \in Tokens /\ t.kind = "Text" /\ t.start = m_pos /\ t.end = size
  BY <1>1, <1>3, KindFacts, TokenFields
<1>6. WellCut(t)
  <2>1. \A q \in m_pos .. size - 1 : ~OpensHere(q)
    BY <1>1, <1>2, NextOpeningFound
  <2> QED  BY <1>1, <1>5, <2>1 DEF WellCut, InTemplate, OpensNothing, EndsAsJson
<1>7. Adjoins(t)
  BY <1>2, <1>5, AdjoinsInText
<1>8. GoesOnBehind(t)'
  <2>1. size' = size
    BY <1>2 DEF size
  <2>2. t.end <= m_pos'
    BY <1>1, <1>2, <1>5
  <2> QED  BY <1>2, <1>5, <2>1, <2>2 DEF GoesOnBehind, Text
<1>9. m_state' \in States
  BY <1>2 DEF States
<1> QED  BY <1>1, <1>2, <1>4, <1>5, <1>6, <1>7, <1>8, <1>9, ReturnKeepsIInv

LEMMA TextToOpeningKeepsIInv ==
  ASSUME IInv, ~Ended, TextToOpening
  PROVE  IInv'
<1> DEFINE open == NextOpening(m_pos)
<1>1. InputOK /\ size \in Nat /\ m_pos \in Nat /\ m_pos <= size
  BY InputIsOK DEF InputOK
<1>2. m_state = Text /\ UNCHANGED <<m_in, m_config>>
  BY DEF TextToOpening
<1>3. PICK c \in Constructs : Opening(open, c) /\ (TextBefore(c, open) \/ OpenAtOnce(c, open))
  BY DEF TextToOpening
<1>4. /\ open \in Nat /\ m_pos <= open /\ open <= size
      /\ \A q \in m_pos .. open - 1 : ~OpensHere(q)
  BY <1>1, NextOpeningFound
<1> HIDE DEF open
<1>5. open + 2 <= size
  BY <1>1, <1>3, <1>4, OpeningHasRoom
<1> DEFINE end == text_end(c, open)
<1>6. /\ end \in Nat /\ m_pos <= end /\ end <= open
      /\ \/ end = open
         \/ m_config.lstrip_blocks /\ c \in {"Statement", "Comment"} /\ Blanks(end, open)
  BY <1>1, <1>4, TextEnds
<1>7. size' = size /\ Start(c) \in States /\ Body(c) \in States
  BY <1>2 DEF size, States
<1>8. CASE TextBefore(c, open)
  <2>1. m_state' = Start(c) /\ m_pos' = open
    BY <1>8 DEF TextBefore
  <2>2. PICK t : t = Token("Text", m_pos, end)
    OBVIOUS
  <2>3. tokens' = Append(tokens, t)
    BY <1>8, <2>2 DEF TextBefore, Returns
  <2> HIDE DEF end
  <2>4. t \in Tokens /\ t.kind = "Text" /\ t.start = m_pos /\ t.end = end
    BY <1>1, <1>6, <2>2, KindFacts, TokenFields
  <2>5. WellCut(t)
    <3>1. \A q \in m_pos .. end - 1 : q \in m_pos .. open - 1
      BY <1>1, <1>4, <1>6
    <3>2. \A q \in m_pos .. end - 1 : ~OpensHere(q)
      BY <1>4, <3>1
    <3>3. InTemplate(t)
      BY <1>1, <1>4, <1>6, <2>4 DEF InTemplate
    <3> QED  BY <2>4, <3>2, <3>3 DEF WellCut, OpensNothing, EndsAsJson
  <2>6. Adjoins(t)
    BY <1>2, <2>4, AdjoinsInText
  <2>7. BeforeOpening(t, c)'
    <3>1. Opening(m_pos, c)'
      BY <1>2, <1>3, <1>7, <2>1 DEF Opening, starts_with, Char
    <3>2. m_pos' = t.end \/ (m_config'.lstrip_blocks /\ c \in {"Statement", "Comment"} /\ Blanks(t.end, m_pos)')
      <4>1. CASE end = open
        BY <2>1, <2>4, <4>1
      <4>2. CASE m_config.lstrip_blocks /\ c \in {"Statement", "Comment"} /\ Blanks(end, open)
        BY <1>2, <2>1, <2>4, <4>2 DEF Blanks, Char
      <4> QED  BY <1>6, <4>1, <4>2
    <3> QED  BY <2>4, <3>1, <3>2 DEF BeforeOpening
  <2>8. GoesOnBehind(t)'
    <3>1. t.end <= m_pos'
      BY <1>6, <2>1, <2>4
    <3> QED  BY <2>1, <2>7, <3>1 DEF GoesOnBehind
  <2> QED
    BY <1>2, <1>4, <1>7, <2>1, <2>3, <2>4, <2>5, <2>6, <2>8, ReturnKeepsIInv
<1>9. CASE OpenAtOnce(c, open)
  <2>1. m_state' = Body(c) /\ m_pos' = open + 2
    BY <1>9 DEF OpenAtOnce
  <2>2. PICK t : t = Token(Opens[c], m_pos, open + 2)
    OBVIOUS
  <2>3. tokens' = Append(tokens, t)
    BY <1>9, <2>2 DEF OpenAtOnce, Returns
  <2>4. /\ t \in Tokens /\ t.kind \in OpensKinds /\ t.start = m_pos /\ t.end = open + 2
    BY <1>1, <1>4, <2>2, KindFacts, TokenFields DEF InsideKinds
  <2>5. t.kind \notin {"Text", "String", "Eof"} /\ t.kind \in InsideKinds
    BY <2>4, KindFacts DEF InsideKinds
  <2>6. WellCut(t)
    <3>1. InTemplate(t)
      BY <1>1, <1>4, <1>5, <2>4 DEF InTemplate
    <3> QED  BY <2>4, <2>5, <3>1, PlainTokenIsWellCut
  <2>7. Adjoins(t)
    BY <1>2, <2>4, AdjoinsInText
  <2>8. GoesOnBehind(t)'
    <3>1. t.end <= m_pos' /\ m_pos' = t.end
      BY <1>4, <2>1, <2>4
    <3> QED  BY <2>1, <2>5, <3>1 DEF GoesOnBehind
  <2> QED
    BY <1>2, <1>4, <1>5, <1>7, <2>1, <2>3, <2>4, <2>5, <2>6, <2>7, <2>8, ReturnKeepsIInv
<1> QED  BY <1>3, <1>8, <1>9

LEMMA OpenKeepsIInv ==
  ASSUME IInv, ~Ended, NEW c \in Constructs, Open(c)
  PROVE  IInv'
<1>1. InputOK /\ size \in Nat /\ m_pos \in Nat /\ m_pos <= size
  BY InputIsOK DEF InputOK
<1>2. /\ m_state = Start(c) /\ m_state' = Body(c) /\ m_pos' = m_pos + 2
      /\ UNCHANGED <<m_in, m_config>> /\ Body(c) \in States
  BY DEF Open, States
<1>3. PICK t : t = Token(Opens[c], m_pos, m_pos + 2)
  OBVIOUS
<1>4. tokens' = Append(tokens, t)
  BY <1>3 DEF Open, Returns
<1>5. t \in Tokens /\ t.kind = Opens[c] /\ t.start = m_pos /\ t.end = m_pos + 2
  BY <1>1, <1>3, KindFacts, TokenFields DEF InsideKinds
<1>6. t.kind \notin {"Text", "String", "Eof"} /\ t.kind \in InsideKinds
  BY <1>5, KindFacts DEF InsideKinds
<1>7. Adjoins(t) /\ Opening(m_pos, c)
  BY <1>2, <1>5, AdjoinsAtStart
<1>8. m_pos + 2 <= size
  BY <1>1, <1>7, OpeningHasRoom
<1>9. WellCut(t)
  <2>1. InTemplate(t)
    BY <1>1, <1>5, <1>8 DEF InTemplate
  <2> QED  BY <1>5, <1>6, <2>1, PlainTokenIsWellCut
<1>10. GoesOnBehind(t)'
  <2>1. t.end <= m_pos' /\ m_pos' = t.end
    BY <1>1, <1>2, <1>5
  <2> QED  BY <1>2, <1>6, <2>1 DEF GoesOnBehind
<1>11. m_pos' \in Nat /\ m_pos' <= size
  BY <1>1, <1>2, <1>8
<1> QED
  BY <1>2, <1>4, <1>5, <1>6, <1>7, <1>9, <1>10, <1>11, ReturnKeepsIInv

LEMMA BodyTokenKeepsIInv ==
  ASSUME IInv, ~Ended, NEW c \in Scanned, BodyToken(c)
  PROVE  IInv'
<1> DEFINE p == token_start(c)
           end == token_end(p)
<1>1. InputOK /\ size \in Nat /\ m_pos \in Nat /\ m_pos <= size /\ c \in Constructs
  BY InputIsOK DEF InputOK, Scanned
<1>2. /\ m_state = Body(c) /\ m_state' = m_state /\ p < size /\ m_pos' = end
      /\ UNCHANGED <<m_in, m_config>> /\ Body(c) \in States
  BY <1>1 DEF BodyToken, InBody, States
<1>3. PICK t : t = Token(kind_at(p), p, end)
  OBVIOUS
<1>4. tokens' = Append(tokens, t)
  BY <1>3 DEF BodyToken, Returns
<1>5. p \in Nat /\ m_pos <= p /\ p <= size /\ Whitespace(m_pos, p)
  BY <1>1, TokenStarts
<1> HIDE DEF p
<1>6. /\ end \in Nat /\ p < end /\ end <= size
      /\ EndsAsJson(t) /\ kind_at(p) \in {"Id", "Number", "String", "Other"}
  BY <1>1, <1>2, <1>3, <1>5, TokenEnds
<1> HIDE DEF end
<1>7. t \in Tokens /\ t.kind = kind_at(p) /\ t.start = p /\ t.end = end
  BY <1>3, <1>5, <1>6, KindFacts, TokenFields DEF InsideKinds
<1>8. t.kind \notin {"Text", "Eof"} /\ t.kind \in InsideKinds
  BY <1>6, <1>7 DEF InsideKinds
<1>9. WellCut(t)
  <2>1. InTemplate(t)
    BY <1>5, <1>6, <1>7 DEF InTemplate
  <2> QED  BY <1>6, <1>7, <1>8, <2>1 DEF WellCut, OpensNothing
<1>10. Adjoins(t)
  BY <1>1, <1>2, <1>5, <1>7, AdjoinsInBody
<1>11. GoesOnBehind(t)'
  <2>1. t.end <= m_pos' /\ m_pos' = t.end
    BY <1>2, <1>6, <1>7
  <2> QED  BY <1>1, <1>2, <1>8, <2>1 DEF GoesOnBehind
<1>12. m_pos' \in Nat /\ m_pos' <= size
  BY <1>2, <1>6
<1> QED
  BY <1>2, <1>4, <1>7, <1>8, <1>9, <1>10, <1>11, <1>12, ReturnKeepsIInv

(* what closes a construct, wherever it was found *)
LEMMA CloseKeepsIInv ==
  ASSUME IInv, ~Ended, NEW c \in Constructs, m_state = Body(c),
         NEW start \in Nat, m_pos <= start, Whitespace(m_pos, start),
         NEW p \in Nat, start <= p, starts_with(p, CloseSequence[c]),
         m_state' = Text, m_pos' = after_close(c, p), UNCHANGED <<m_in, m_config>>,
         tokens' = Append(tokens, Token(Closes[c], start, p + Len(CloseSequence[c])))
  PROVE  IInv'
<1> DEFINE end == p + Len(CloseSequence[c])
<1>1. InputOK
  BY InputIsOK
<1>2. PICK t : t = Token(Closes[c], start, end)
  OBVIOUS
<1>3. tokens' = Append(tokens, t)
  BY <1>2
<1>4. /\ end \in Nat /\ p < end /\ end <= size
      /\ m_pos' \in Nat /\ end <= m_pos' /\ m_pos' <= size
      /\ \/ m_pos' = end
         \/ /\ m_config.trim_blocks /\ c \in {"Statement", "Comment"}
            /\ SubSeq(m_in, end + 1, m_pos') \in Newlines
  BY <1>1, ClosesAt
<1> HIDE DEF end
<1>5. t \in Tokens /\ t.kind = Closes[c] /\ t.start = start /\ t.end = end
  BY <1>2, <1>4, KindFacts, TokenFields
<1>6. t.kind \notin {"Text", "String", "Eof"} /\ t.kind \in ClosesKinds
  BY <1>5, KindFacts
<1>7. WellCut(t)
  <2>1. InTemplate(t)
    BY <1>4, <1>5 DEF InTemplate
  <2> QED  BY <1>5, <1>6, <2>1, PlainTokenIsWellCut
<1>8. Adjoins(t)
  BY <1>5, AdjoinsInBody
<1>9. AfterClose(t)'
  <2>1. c \in {"Statement", "Comment"} => t.kind \in {Closes["Statement"], Closes["Comment"]}
    BY <1>5
  <2>2. \/ m_pos' = t.end
        \/ /\ m_config'.trim_blocks /\ t.kind \in {Closes["Statement"], Closes["Comment"]}
           /\ SubSeq(m_in', t.end + 1, m_pos') \in Newlines
    BY <1>4, <1>5, <2>1
  <2> QED  BY <1>6, <2>2 DEF AfterClose
<1>10. GoesOnBehind(t)'
  BY <1>4, <1>5, <1>9 DEF GoesOnBehind
<1>11. m_state' \in States
  BY DEF States
<1> QED  BY <1>3, <1>4, <1>5, <1>6, <1>7, <1>8, <1>10, <1>11, ReturnKeepsIInv

LEMMA BodyCloseKeepsIInv ==
  ASSUME IInv, ~Ended, NEW c \in Scanned, BodyClose(c)
  PROVE  IInv'
<1> DEFINE p == token_start(c)
<1>1. InputOK /\ c \in Constructs
  BY InputIsOK DEF Scanned
<1>2. p \in Nat /\ m_pos <= p /\ p <= p /\ Whitespace(m_pos, p)
  BY <1>1, TokenStarts
<1>3. /\ m_state = Body(c) /\ starts_with(p, CloseSequence[c])
      /\ m_state' = Text /\ m_pos' = after_close(c, p) /\ UNCHANGED <<m_in, m_config>>
      /\ tokens' = Append(tokens, Token(Closes[c], p, p + Len(CloseSequence[c])))
  BY DEF BodyClose, InBody, Returns
<1> HIDE DEF p
<1> QED  BY <1>1, <1>2, <1>3, CloseKeepsIInv

LEMMA NothingIsWhitespace ==
  ASSUME NEW p \in Nat
  PROVE  Whitespace(p, p)
<1>1. p .. p - 1 = {}
  OBVIOUS
<1> QED  BY <1>1 DEF Whitespace

LEMMA CommentCloseKeepsIInv ==
  ASSUME IInv, ~Ended, CommentClose
  PROVE  IInv'
<1> DEFINE p == comment_end
           c == "Comment"
<1>1. InputOK /\ m_pos \in Nat /\ m_pos <= m_pos /\ size \in Nat
  BY InputIsOK DEF InputOK
<1>2. /\ m_state = Body(c) /\ p < size
      /\ m_state' = Text /\ m_pos' = after_close(c, p) /\ UNCHANGED <<m_in, m_config>>
      /\ tokens' = Append(tokens, Token(Closes[c], m_pos, p + 2))
  BY DEF CommentClose, InBody, Returns
<1>3. p \in Nat /\ m_pos <= p /\ starts_with(p, CloseSequence[c])
  <2>1. p \in Nat /\ m_pos <= p /\ (p # size => starts_with(p, CloseSequence[c]))
    BY <1>1, CommentEnds
  <2> HIDE DEF p
  <2> QED  BY <1>1, <1>2, <2>1
<1>4. c \in Constructs /\ Len(CloseSequence[c]) = 2
  BY CloseLength DEF Constructs
<1>5. Whitespace(m_pos, m_pos)
  BY <1>1, NothingIsWhitespace
<1> HIDE DEF p, c
<1> QED  BY <1>1, <1>2, <1>3, <1>4, <1>5, CloseKeepsIInv

LEMMA EofKeepsIInv ==
  ASSUME IInv, ~Ended, Eof
  PROVE  IInv'
<1>1. InputOK /\ size \in Nat /\ m_pos \in Nat /\ m_pos <= size /\ m_state \in States
  BY InputIsOK DEF InputOK, States, IInv
<1>2. m_state' = m_state /\ UNCHANGED <<m_in, m_config>> /\ size' = size
  BY DEF Eof, size
<1>3. ASSUME NEW start \in Nat, m_pos <= start, NEW end \in Nat, start <= end, end = size,
             Adjoins(Token("Eof", start, end)), tokens' = Append(tokens, Token("Eof", start, end)),
             m_pos' \in {m_pos, size}, NothingLeft'
      PROVE  IInv'
  <2>1. PICK t : t = Token("Eof", start, end)
    OBVIOUS
  <2>2. t \in Tokens /\ t.kind = "Eof" /\ t.start = start /\ t.end = end
    BY <1>3, <2>1, KindFacts, TokenFields
  <2>3. WellCut(t)
    <3>1. InTemplate(t)
      BY <1>1, <1>3, <2>2 DEF InTemplate
    <3> QED  BY <2>2, <3>1, PlainTokenIsWellCut
  <2>4. m_pos' \in Nat /\ m_pos' <= size
    BY <1>1, <1>3
  <2>5. Adjoins(t) /\ tokens' = Append(tokens, t) /\ t.end = size
    BY <1>3, <2>1, <2>2
  <2> QED
    BY <1>1, <1>2, <1>3, <2>2, <2>3, <2>4, <2>5, ReturnKeepsIInv
<1>4. CASE m_pos = size /\ m_pos' = m_pos /\ Returns("Eof", m_pos, m_pos)
  <2> DEFINE t == Token("Eof", m_pos, m_pos)
  <2>1. t.start = m_pos /\ t.start \in Nat /\ m_pos <= m_pos
    BY <1>1 DEF Token
  <2>2. ASSUME NEW c \in Constructs PROVE m_state # Start(c)
    <3> SUFFICES ASSUME m_state = Start(c) PROVE FALSE
      OBVIOUS
    <3>1. Opening(m_pos, c)
      <4> DEFINE u == Token(Opens[c], m_pos, m_pos)
      <4>1. u.start = m_pos /\ u.kind = Opens[c]
        BY DEF Token
      <4> HIDE DEF u
      <4> QED  BY <4>1, AdjoinsAtStart
    <3>2. m_pos + 2 <= size
      BY <1>1, <3>1, OpeningHasRoom
    <3> QED  BY <1>1, <1>4, <3>2
  <2>3. NothingLeft'
    BY <1>1, <1>2, <1>4, <2>2 DEF NothingLeft, States
  <2> HIDE DEF t
  <2>4. Adjoins(t)
    <3>1. CASE m_state = Text
      BY <2>1, <3>1, AdjoinsInText
    <3>2. ASSUME NEW c \in Constructs, m_state = Body(c) PROVE Adjoins(t)
      <4>1. Whitespace(m_pos, t.start) /\ m_pos <= t.start
        BY <1>1, <2>1, NothingIsWhitespace
      <4> QED  BY <2>1, <3>2, <4>1, AdjoinsInBody
    <3> QED  BY <1>1, <2>2, <3>1, <3>2 DEF States
  <2> QED  BY <1>1, <1>3, <1>4, <2>1, <2>3, <2>4 DEF Returns, t
<1>5. ASSUME NEW c \in Scanned, InBody(c), token_start(c) = size, m_pos' = m_pos,
             Returns("Eof", size, size)
      PROVE  IInv'
  <2> DEFINE t == Token("Eof", size, size)
  <2>1. t.start = size /\ m_state = Body(c) /\ c \in Constructs
    BY <1>5 DEF Token, InBody, Scanned
  <2>2. Whitespace(m_pos, size)
    BY <1>1, <1>5, <2>1, TokenStarts
  <2>3. token_start(c)' = token_start(c)
    BY <1>2, <1>5 DEF token_start, FirstOf, Char, size
  <2>4. NothingLeft'
    BY <1>2, <1>5, <2>1, <2>3 DEF NothingLeft
  <2> HIDE DEF t
  <2>5. Adjoins(t)
    BY <1>1, <2>1, <2>2, AdjoinsInBody
  <2>6. size <= size
    BY <1>1
  <2> QED  BY <1>1, <1>3, <1>5, <2>4, <2>5, <2>6 DEF Returns, t
<1>6. CASE InBody("Comment") /\ m_pos' = size /\ Returns("Eof", m_pos, size)
  <2> DEFINE t == Token("Eof", m_pos, size)
  <2>1. t.start = m_pos /\ m_state = Body("Comment") /\ "Comment" \in Constructs
    BY <1>6 DEF Token, InBody, Constructs
  <2>2. Whitespace(m_pos, m_pos) /\ m_pos <= m_pos
    BY <1>1, NothingIsWhitespace
  <2>3. NothingLeft'
    BY <1>2, <1>6, <2>1 DEF NothingLeft
  <2> HIDE DEF t
  <2>4. Adjoins(t)
    BY <1>1, <2>1, <2>2, AdjoinsInBody
  <2> QED  BY <1>1, <1>3, <1>6, <2>2, <2>3, <2>4 DEF Returns, t
<1> QED  BY <1>4, <1>5, <1>6 DEF Eof

-----------------------------------------------------------------------------
(* Theorems *)

LEMMA InitIInv == Init => IInv
<1> SUFFICES ASSUME Init PROVE IInv
  OBVIOUS
<1>1. /\ m_in \in Seq(Characters) /\ m_config \in [trim_blocks : BOOLEAN, lstrip_blocks : BOOLEAN]
      /\ m_state = Text /\ m_pos = 0 /\ tokens = <<>>
  BY LexerAssumption DEF Init
<1>2. size \in Nat /\ 0 <= size
  BY <1>1, LenProperties DEF size
<1>3. tokens \in Seq(Tokens) /\ Len(tokens) = 0 /\ DOMAIN tokens = {}
  BY <1>1, EmptySeq
<1>4. 1 .. 0 - 1 = {}
  OBVIOUS
<1>5. ~Ended
  BY <1>1 DEF Ended
<1>6. NothingIsLost
  BY <1>1, <1>3, <1>4, <1>5 DEF NothingIsLost
<1> QED  BY <1>1, <1>2, <1>3, <1>5, <1>6 DEF IInv, States

LEMMA ScanKeepsIInv == IInv /\ [scan]_vars => IInv'
<1>1. ASSUME IInv, UNCHANGED vars PROVE IInv'
  <2>1. UNCHANGED <<m_in, m_config, m_state, m_pos, tokens>>
    BY <1>1 DEF vars
  <2>2. \A u : WellCut(u)' <=> WellCut(u)
    BY <2>1 DEF WellCut, InTemplate, OpensNothing, OpensHere, EndsAsJson, EndsString,
               BackslashesBefore, Char, size
  <2>3. NothingIsLost' <=> NothingIsLost
    BY <2>1 DEF NothingIsLost, Omitted, Blanks, Whitespace, Char, Ended, Last, size
  <2>4. NothingLeft' <=> NothingLeft
    BY <2>1 DEF NothingLeft, token_start, FirstOf, Char, size
  <2>5. Last(tokens)' = Last(tokens) /\ (Ended' <=> Ended) /\ size' = size
    BY <2>1 DEF Last, Ended, size
  <2>6. (tokens # <<>> /\ ~Ended => GoesOnBehind(Last(tokens)))'
    <3>1. tokens # <<>> /\ ~Ended => GoesOnBehind(Last(tokens))
      BY <1>1 DEF IInv
    <3>2. GoesOnBehind(Last(tokens))' <=> GoesOnBehind(Last(tokens))
      BY <2>1 DEF GoesOnBehind, AfterClose, BeforeOpening, Opening, starts_with, Blanks, Char,
                  size, Last
    <3> QED  BY <2>1, <2>5, <3>1, <3>2
  <2> QED  BY <1>1, <2>1, <2>2, <2>3, <2>4, <2>5, <2>6 DEF IInv
<1>2. ASSUME IInv, scan PROVE IInv'
  <2>1. ~Ended
    BY <1>2, EndedStays
  <2> QED
    BY <1>2, <2>1, RemainingTextKeepsIInv, TextToOpeningKeepsIInv, OpenKeepsIInv,
       BodyTokenKeepsIInv, BodyCloseKeepsIInv, CommentCloseKeepsIInv, EofKeepsIInv DEF scan
<1> QED  BY <1>1, <1>2

(* inja.hpp:1976-2261: between any two calls of scan() the last token is    *)
(* followed by what may be left out, up to where the next call starts, and  *)
(* every token is cut where it should be.                                   *)
THEOREM InductiveInvariant == Spec => []IInv
BY InitIInv, ScanKeepsIInv, PTL DEF Spec

(* Every variable stays in its type. *)
THEOREM TypeCorrect == Spec => []TypeOK
<1>1. IInv => TypeOK
  <2> SUFFICES ASSUME IInv PROVE TypeOK
    OBVIOUS
  <2>1. m_pos \in 0 .. size
    BY InputIsOK DEF IInv, InputOK
  <2>2. ASSUME NEW k \in DOMAIN tokens
        PROVE  /\ tokens[k].kind \in Kinds
               /\ tokens[k].start \in 0 .. tokens[k].end /\ tokens[k].end \in 0 .. size
    <3>1. WellCut(tokens[k])
      BY <2>2 DEF IInv
    <3>2. size \in Nat
      BY InputIsOK DEF InputOK
    <3> QED  BY <3>1, <3>2 DEF WellCut, Tokens, InTemplate
  <2> QED  BY <2>1, <2>2 DEF TypeOK, IInv, States
<1> QED  BY <1>1, InductiveInvariant, PTL

(* inja.hpp:1976-2261: all of a template is in the tokens that are          *)
(* returned, once and in its order, but for what lstrip_blocks and          *)
(* trim_blocks take off and the whitespace within constructs.               *)
THEOREM EverythingIsReturned == Spec => []NothingIsLost
<1>1. IInv => NothingIsLost
  BY DEF IInv
<1> QED  BY <1>1, InductiveInvariant, PTL

(* inja.hpp:2036-2084: no text that is printed holds an opening sequence.   *)
THEOREM TextsOpenNothing == Spec => []TextOpensNothing
<1>1. IInv => TextOpensNothing
  BY DEF IInv, WellCut, OpensNothing, TextOpensNothing
<1> QED  BY <1>1, InductiveInvariant, PTL

(* inja.hpp:2212-2228: a string without two backslashes in a row ends where *)
(* JSON ends it.                                                            *)
THEOREM StringsAreJsonStrings == Spec => []StringsEndAsJson
<1>1. IInv => StringsEndAsJson
  BY DEF IInv, WellCut, EndsAsJson, StringsEndAsJson
<1> QED  BY <1>1, InductiveInvariant, PTL
=============================================================================
