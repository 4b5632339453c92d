------------------------------ MODULE JsonScan ------------------------------
(***************************************************************************)
(* json_scan.cpp: the scanner both documents of a model are read with, the *)
(* safetensors header and config.json.                                     *)
(*                                                                         *)
(* A text is a sequence of symbols, each a byte that matters or a run of   *)
(* bytes no test looks into: a bracket, comma, colon, quote, space or      *)
(* backslash, a word, a byte beyond ASCII, a natural number, or another    *)
(* number, whose name is its fraction.  A reader is given the place p it starts at and answers whether *)
(* it threw, the place after what it read, and the value.  The end is the  *)
(* place after the last symbol.                                            *)
(***************************************************************************)
EXTENDS Integers, Sequences, FiniteSetsExt, Loops

CONSTANTS WordSize,    \* the bits of size_t
          CharSigned   \* char is signed, and no byte is >= 0x80

ASSUME ScanAssumption == WordSize \in Nat \ {0} /\ CharSigned \in BOOLEAN

Wrap(n) == n % 2 ^ WordSize

Symbol(kind, name, num) == [kind |-> kind, name |-> name, num |-> num]
Mark(kind) == Symbol(kind, "", 0)
Word(name) == Symbol("word", name, 0)

Kind(text, p) == IF p \in 1 .. Len(text) THEN text[p].kind ELSE "end"

Thrown == [ok |-> FALSE, p |-> 0, val |-> <<>>]
Read(p, val) == [ok |-> TRUE, p |-> p, val |-> val]

\* What is done with a value that was read; a throw goes through.
AndThen(r, Use(_)) == IF r.ok THEN Use(r) ELSE Thrown

\* skip_ws
SkipWs(text, p) == Min({q \in p .. Len(text) + 1 : Kind(text, q) # "space"})

\* What read_string stops at.
Stops == {"quote", "backslash", "end"} \cup (IF CharSigned THEN {} ELSE {"nonascii"})

\* Mutant: a string that the text cuts off is taken as it is.
ReadStringOpen(text, p) ==
  LET stop == Min({q \in p + 1 .. Len(text) + 1 : Kind(text, q) \in Stops})
  IN  IF Kind(text, p) = "quote" /\ Kind(text, stop) \in {"quote", "end"}
      THEN Read(stop + 1, SubSeq(text, p + 1, stop - 1)) ELSE Thrown

\* read_string: up to the closing quote, whatever is between but the two it refuses.
ReadString(text, p) ==
  LET stop == Min({q \in p + 1 .. Len(text) + 1 : Kind(text, q) \in Stops})
  IN  IF Kind(text, p) = "quote" /\ Kind(text, stop) = "quote"
      THEN Read(stop + 1, SubSeq(text, p + 1, stop - 1)) ELSE Thrown

\* read_uint: the digits accumulate in a size_t.
ReadUint(symbol) == Wrap(symbol.num)

\* read_int_array: numbers and commas in turn; a comma before the closing
\* bracket is let through.
ReadIntArray(text, p) ==
  LET close == Min({q \in p + 1 .. Len(text) + 1 : Kind(text, q) \notin {"uint", ",", "space"}})
      body  == SelectSeq(SubSeq(text, p + 1, close - 1), LAMBDA s : s.kind # "space")
  IN  IF /\ Kind(text, p) = "[" /\ Kind(text, close) = "]"
         /\ \A i \in DOMAIN body : body[i].kind = IF i % 2 = 1 THEN "uint" ELSE ","
      THEN Read(close + 1, [i \in 1 .. (Len(body) + 1) \div 2 |-> ReadUint(body[2 * i - 1])])
      ELSE Thrown

Count(text, p, q, kind) == Cardinality({i \in p .. q : Kind(text, i) = kind})


\* skip_object and skip_array: to the matching bracket, those in strings not
\* counted.
SkipNested(text, p, open, close) ==
  LET InString(i) == Count(text, p, i - 1, "quote") % 2 = 1
      Counted(q, kind) == Cardinality({i \in p .. q : Kind(text, i) = kind /\ ~InString(i)})
      Balanced(q) == Counted(q, open) = Counted(q, close)
      end == CHOOSE q \in p .. Len(text) + 1 :
               (q = Len(text) + 1 \/ Balanced(q)) /\ \A r \in p .. q - 1 : ~Balanced(r)
  IN  IF Kind(text, p) = open /\ end <= Len(text) /\ Count(text, p, end, "backslash") = 0
      THEN Read(end + 1, <<>>) ELSE Thrown

SkipObject(text, p) == SkipNested(text, p, "{", "}")
SkipArray(text, p)  == SkipNested(text, p, "[", "]")

\* read_number: any literal strtod consumes to its end, as a double: a whole
\* part and what is beyond it.
ReadNumber(text, p) ==
  IF Kind(text, p) \in {"uint", "number"}
  THEN Read(p + 1, [whole |-> text[p].num, beyond |-> text[p].name]) ELSE Thrown

\* read_bool
ReadBool(text, p) ==
  IF Kind(text, p) = "word" /\ text[p].name \in {"true", "false"}
  THEN Read(p + 1, text[p].name = "true") ELSE Thrown

\* A key and its colon; p is left at the value.
ReadKey(text, p) ==
  LET Colon(key) == SkipWs(text, key.p)
  IN  AndThen(ReadString(text, p), LAMBDA key :
        IF Kind(text, Colon(key)) = ":" THEN Read(SkipWs(text, Colon(key) + 1), key.val) ELSE Thrown)

\* The loop over the members of an object, from after its opening brace: the
\* header, a descriptor and the configuration have the same.  Member takes
\* what was gathered, a key and the place of the value.  Every turn but the
\* last passes a colon.
ReadMembers(text, p, gathered, Member(_, _, _)) ==
  LET Turn(t) ==
        LET start == SkipWs(text, t.p)
            NextAt(value, next) ==
              IF value.ok /\ Kind(text, next) \in {",", "}"}
              THEN [ok |-> TRUE, over |-> Kind(text, next) = "}", p |-> next + 1, val |-> value.val]
              ELSE [t EXCEPT !.ok = FALSE]
            Separated(value) == NextAt(value, SkipWs(text, value.p))
        IN  IF t.over \/ ~t.ok THEN t
            ELSE IF Kind(text, start) = "}" THEN [t EXCEPT !.over = TRUE, !.p = start + 1]
            ELSE Separated(AndThen(ReadKey(text, start), LAMBDA key : Member(t.val, key.val, key.p)))
      Whole(t) == IF t.ok /\ t.over THEN Read(t.p, t.val) ELSE Thrown
  IN  Whole(Iterate(Turn, [ok |-> TRUE, over |-> FALSE, p |-> p, val |-> gathered],
                    Count(text, p, Len(text), ":") + 1))
=============================================================================
