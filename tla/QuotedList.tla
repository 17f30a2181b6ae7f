------------------------------ MODULE QuotedList ------------------------------
(***************************************************************************)
(* The lists after --bootloader and --cloud-init (pkg/cmdline): elements   *)
(* are set apart by commas, except within quotes.                          *)
(*                                                                         *)
(* A text is a sequence of characters. Only the comma, the quote and, for  *)
(* the options of a boot loader, the equals sign matter; any other run of  *)
(* characters is one character here.                                       *)
(***************************************************************************)
EXTENDS Integers, Sequences, FiniteSets, SequencesExt, FiniteSetsExt

\* A text, or a list.
IsSeq(t) == t \in Seq(ToSet(t))

CommaCh == ","
QuoteCh == "\""

\* strings.Trim takes away every quote at either end, if there is one at both.
TrimQuotes(s) ==
  LET kept == {i \in DOMAIN s : s[i] # QuoteCh}
  IN  IF s = <<>> \/ s[1] # QuoteCh \/ Last(s) # QuoteCh THEN s
      ELSE IF kept = {} THEN <<>> ELSE SubSeq(s, Min(kept), Max(kept))

\* The state of parseString: the element being read, and the elements before it.
Builder == [quoted |-> FALSE, text |-> <<>>, list |-> <<>>]

\* Slip: a comma ends an element within quotes as well.
WriteRune_Splits(b, c) ==
  CASE c = CommaCh -> [b EXCEPT !.list = Append(@, TrimQuotes(b.text)), !.text = <<>>]
    [] OTHER       -> [b EXCEPT !.quoted = (c = QuoteCh) # @, !.text = Append(@, c)]

WriteRune(b, c) ==
  CASE b.quoted                  -> [b EXCEPT !.quoted = c # QuoteCh, !.text = Append(@, c)]
    [] ~b.quoted /\ c = CommaCh -> [b EXCEPT !.list = Append(@, TrimQuotes(b.text)), !.text = <<>>]
    [] OTHER                     -> [b EXCEPT !.quoted = c = QuoteCh, !.text = Append(@, c)]

\* A list that is empty so far stays empty when the last element is.
End(b) ==
  LET last == TrimQuotes(b.text)
  IN  IF b.list = <<>> /\ last = <<>> THEN <<>> ELSE Append(b.list, last)

ParseString(s) ==
  LET read[n \in 0 .. Len(s)] == IF n = 0 THEN Builder ELSE WriteRune(read[n - 1], s[n])
      b == read[Len(s)]
  IN  [ok |-> ~b.quoted, list |-> IF b.quoted THEN <<>> ELSE End(b)]

\* Set: every use of the flag adds its elements.
SetEach(args) ==
  LET parsed == [i \in DOMAIN args |-> ParseString(args[i])]
  IN  [ok   |-> \A i \in DOMAIN args : parsed[i].ok,
       list |-> FlattenSeq([i \in DOMAIN args |-> parsed[i].list])]

------------------------------------------------------------------------------
\* What a list means, without reading it from left to right.

QuotesBefore(s, i) == Cardinality({j \in 1 .. i - 1 : s[j] = QuoteCh})
Even(n) == n % 2 = 0

\* The commas outside quotes.
Cuts(s) == {i \in DOMAIN s : s[i] = CommaCh /\ Even(QuotesBefore(s, i))}

\* The texts between a cut and the next one; the ends of the text are cuts as well.
Fields(s) ==
  LET cuts == Cuts(s) \cup {0, Len(s) + 1}
      Nth(k) == CHOOSE i \in cuts : Cardinality({j \in cuts : j < i}) = k
      All == [k \in 1 .. Cardinality(cuts) - 1 |-> TrimQuotes(SubSeq(s, Nth(k - 1) + 1, Nth(k) - 1))]
  IN  IF All = <<(<<>>)>> THEN <<>> ELSE All

\* A list is refused for a quote without its match, and is otherwise cut at the
\* commas that are outside quotes, however quotes and commas are mixed.
MeansFields(s) ==
  ParseString(s) = IF Even(QuotesBefore(s, Len(s) + 1)) THEN [ok |-> TRUE, list |-> Fields(s)]
                                                        ELSE [ok |-> FALSE, list |-> <<>>]
=============================================================================
