--------------------------- MODULE MCWeightLoader ---------------------------
(***************************************************************************)
(* The files of the run: two ways to write the same model, and what can be *)
(* wrong with one, a thing at a time.                                      *)
(***************************************************************************)
EXTENDS WeightLoader

MCBefore == <<"q">>
MCAfter  == <<"down">>

Str(inside) == <<Mark("quote")>> \o inside \o <<Mark("quote")>>
Space(n) == [i \in 1 .. n |-> Mark("space")]
Num(n) == <<Symbol("uint", "", n)>>

\* Space wherever it may stand in a member.
Spaced(text) ==
  LET Around(s) == IF s.kind \in {"word", "quote"} THEN <<s>> ELSE Space(1) \o <<s>> \o Space(1)
  IN  FlattenSeq([i \in DOMAIN text |-> Around(text[i])])

Joined(parts) ==
  FlattenSeq([i \in DOMAIN parts |-> IF i = 1 THEN parts[i] ELSE <<Mark(",")>> \o parts[i]])

Member(key, value) == Str(key) \o <<Mark(":")>> \o value
Object(members) == <<Mark("{")>> \o Joined(members) \o <<Mark("}")>>
ObjectTrailing(members) == <<Mark("{")>> \o Joined(members) \o <<Mark(","), Mark("}")>>
SpacedObject(members) == Space(1) \o ObjectTrailing([i \in DOMAIN members |-> Spaced(members[i])]) \o Space(1)
Array(ns) == <<Mark("[")>> \o Joined([i \in DOMAIN ns |-> Num(ns[i])]) \o <<Mark("]")>>
ArrayTrailing(ns) == <<Mark("[")>> \o Joined([i \in DOMAIN ns |-> Num(ns[i])]) \o <<Mark(","), Mark("]")>>

Padded(text) == text \o Space(8 - (Len(text) % 8))

-----------------------------------------------------------------------------
(* The tensors of a model, back to back in the data.                       *)

LayerKeys(layer) == [i \in 1 .. 4 |-> Key(<<"q", "gate", "up", "down">>[i], layer)]
Keys(n) == <<Key("embed", 0), Key("norm", 0)>> \o FlattenSeq([i \in 1 .. n |-> LayerKeys(i - 1)])

ShapeOf(key) == IF key = Key("embed", 0) THEN <<2, 1>> ELSE IF key = Key("norm", 0) THEN <<1>> ELSE <<1, 1>>

\* A model of n layers: for each tensor its key, shape, dtype and span.
Model(n, dtype) ==
  LET keys == Keys(n)
      Size(i) == NBytes(ShapeOf(keys[i]), dtype)
      From(i) == IF i = 1 THEN 0 ELSE IF i = 2 THEN Size(1) ELSE Size(1) + (i - 2) * Size(2)
  IN  [i \in DOMAIN keys |-> [key |-> keys[i], shape |-> ShapeOf(keys[i]), dtype |-> dtype,
                              from |-> From(i), to |-> From(i) + Size(i)]]

Data(n) == [i \in 1 .. n |-> Mark("data")]
DataLen(tensors) == tensors[Len(tensors)].to

Fields(t) ==
  << Member(<<Word("dtype")>>, Str(<<Word(t.dtype)>>)),
     Member(<<Word("shape")>>, Array(t.shape)),
     Member(<<Word("data_offsets")>>, Array(<<t.from, t.to>>)) >>

Compact(tensors) ==
  Object(<<Member(<<Word("__metadata__")>>, Object(<<Member(<<Word("format")>>, Str(<<Mark("}")>>))>>))>>
         \o [i \in DOMAIN tensors |-> Member(tensors[i].key, Object(Fields(tensors[i])))])

\* The other way: no metadata, spaces, trailing commas, and the fields in
\* another order.
Loose(tensors) ==
  SpacedObject([i \in DOMAIN tensors |->
    Member(tensors[i].key,
      ObjectTrailing(<< Member(<<Word("data_offsets")>>, ArrayTrailing(<<tensors[i].from, tensors[i].to>>)),
                        Member(<<Word("shape")>>, Array(tensors[i].shape)),
                        Member(<<Word("dtype")>>, Str(<<Word(tensors[i].dtype)>>)) >>))])

Says(header, tensors) ==
  [k \in {tensors[i].key : i \in DOMAIN tensors} |->
     LET t == CHOOSE u \in ToSet(tensors) : u.key = k
     IN  [offset |-> 8 + Len(header) + t.from, shape |-> t.shape, dtype |-> t.dtype]]

FileOf(header, n) ==
  [length |-> 8 + Len(header) + n, header_len |-> Len(header), rest |-> header \o Data(n)]

-----------------------------------------------------------------------------
(* The configuration.                                                      *)

FieldOrder ==
  <<"hidden_size", "num_attention_heads", "num_key_value_heads", "num_hidden_layers", "intermediate_size",
    "max_position_embeddings", "vocab_size", "rms_norm_eps", "rope_theta", "tie_word_embeddings">>

Settings(n, tied) ==
  ("num_hidden_layers" :> n) @@ ("tie_word_embeddings" :> tied) @@ ("hidden_size" :> 4)
    @@ [f \in Integral |-> 1] @@ [f \in Numbers |-> [whole |-> 1, beyond |-> "1e-06"]]

\* One integer is written with a fraction, which the cast takes off.
Literal(f, v) ==
  CASE f = "tie_word_embeddings" -> <<Word(IF v THEN "true" ELSE "false")>>
    [] f = "max_position_embeddings" -> <<Symbol("number", ".5", v)>>
    [] f \in Integral \ {"max_position_embeddings"} -> Num(v)
    [] OTHER -> <<Symbol("number", v.beyond, v.whole)>>

\* Values that are passed over: an array, an object, a string, a number and a word.
Others ==
  << Member(<<Word("architectures")>>, <<Mark("[")>> \o Str(<<Mark("]")>>) \o <<Mark("]")>>),
     Member(<<Word("rope_scaling")>>, Object(<<Member(<<Word("type")>>, Object(<<>>))>>)),
     Member(<<Word("model_type")>>, Str(<<Word("qwen2")>>)),
     Member(<<Word("bos_token_id")>>, Num(7)),
     Member(<<Word("use_cache")>>, <<Word("true")>>) >>

ConfigMembers(s) ==
  LET fields == SelectSeq(FieldOrder, LAMBDA f : f \in DOMAIN s)
  IN  [i \in DOMAIN fields |-> Member(<<Word(fields[i])>>, Literal(fields[i], s[fields[i]]))]

Config(s) == Object(Others \o ConfigMembers(s))

-----------------------------------------------------------------------------
(* The files.                                                              *)

Tied == Settings(1, TRUE)
TiedText == Config(Tied)

DocOf(header, tensors, dev) ==
  [config |-> TiedText, config_ok |-> TRUE, settings |-> Tied,
   file |-> FileOf(header, DataLen(tensors)), header_ok |-> TRUE, says |-> Says(header, tensors),
   loadable |-> TRUE, dev |-> dev]

Devices == {"CPU", "CUDA"}

One    == Model(1, "F32")
Header == Padded(Compact(One))
Base(dev) == DocOf(Header, One, dev)

TwoLayers(dev) ==
  LET two == Model(2, "BF16")
  IN  [DocOf(Padded(Loose(two)), two, dev)
         EXCEPT !.config = SpacedObject(ConfigMembers(Settings(2, TRUE))), !.settings = Settings(2, TRUE)]

\* Files with a byte beyond ASCII, in the name of a tensor or in a string of
\* the configuration.
Named(dev) ==
  LET tensors == Append(One, [One[Len(One)] EXCEPT !.key = <<Word("extra"), Mark("nonascii")>>])
  IN  DocOf(Padded(Compact(tensors)), tensors, dev)
Titled(dev) ==
  [Base(dev) EXCEPT !.config =
     Object(<<Member(<<Word("title")>>, Str(<<Mark("nonascii")>>))>> \o ConfigMembers(Tied))]

Good == UNION {{Base(dev), TwoLayers(dev), Named(dev), Titled(dev)} : dev \in Devices}

\* A header that must be refused, in a file that holds it whole.
BadHeader(header) ==
  [Base("CPU") EXCEPT !.file = FileOf(header, DataLen(One)), !.header_ok = FALSE, !.says = Nothing, !.loadable = FALSE]

\* The file is cut off after n bytes of the header.
CutFile(n) ==
  [Base("CPU") EXCEPT !.file.length = 8 + n, !.file.rest = SubSeq(Header, 1, n),
                      !.header_ok = FALSE, !.says = Nothing, !.loadable = FALSE]

Without(text, i) == SubSeq(text, 1, i - 1) \o SubSeq(text, i + 1, Len(text))

\* The header's end, which padding follows, and where the metadata ends.
HeaderEnd == Len(Compact(One))
AfterMetadata == Len(Compact(<<>>)) + 1

Structural(text, i) ==
  \/ text[i].kind \in {"{", "}", "[", "]", ":", "quote"}
  \/ text[i].kind = "," /\ text[i + 1].kind = "quote"

ReplaceTensor(i, t) == [One EXCEPT ![i] = t]

\* Not a tensor's descriptor.
BadDescriptors ==
  LET t == One[2]
      Descriptors == { << Fields(t)[1], Fields(t)[2] >>, << Fields(t)[1], Fields(t)[3] >>, << Fields(t)[2], Fields(t)[3] >>,
                       Append(Fields(t), Member(<<Word("strides")>>, Array(<<1>>))),
                       [Fields(t) EXCEPT ![3] = Member(<<Word("data_offsets")>>, Array(<<8, 12, 16>>))],
                       [Fields(t) EXCEPT ![1] = Member(<<Word("dtype")>>, Str(<<Word("F16")>>))],
                       [Fields(t) EXCEPT ![1] = Member(<<Word("dtype")>>, Str(<<Word("F32"), Mark("backslash")>>))],
                       [Fields(t) EXCEPT ![2] = Member(<<Word("shape")>>, <<Mark("["), Symbol("number", "", 1), Mark("]")>>)] }
  IN  {Object(<<Member(t.key, Object(d))>>) : d \in Descriptors}

BadHeaders ==
  {BadHeader(SubSeq(Header, 1, n)) : n \in 0 .. HeaderEnd - 1}
  \cup {BadHeader(Without(Header, i)) : i \in {j \in AfterMetadata .. HeaderEnd : Structural(Header, j)}}
  \cup {BadHeader(text) : text \in BadDescriptors}
  \cup {BadHeader(Compact(ReplaceTensor(2, [One[2] EXCEPT !.to = @ + 4])))}
  \cup {CutFile(n) : n \in 0 .. Len(Header) - 1}
  \cup {[CutFile(0) EXCEPT !.file.length = n] : n \in 0 .. 7}

\* A header that is right about a file the loader cannot use.
Unloadable(tensors, n, dev) ==
  LET header == Padded(Compact(tensors))
  IN  [DocOf(header, tensors, dev) EXCEPT !.file = FileOf(header, n), !.loadable = FALSE]

WithoutTensor(i) == SubSeq(One, 1, i - 1) \o SubSeq(One, i + 1, Len(One))

Misaligned(dev) ==
  LET header == Compact(One) \o Space(9 - (Len(Compact(One)) % 8))
  IN  [DocOf(header, One, dev) EXCEPT !.loadable = FALSE]

\* The view's end is beyond the largest size.
High(i) ==
  LET from == 2 ^ WordSize - 4 - (8 + Len(Padded(Compact(One))))
  IN  ReplaceTensor(i, [One[i] EXCEPT !.from = from, !.to = from + (One[i].to - One[i].from)])

Unusable(dev) ==
  {Unloadable(WithoutTensor(i), DataLen(One), dev) : i \in DOMAIN One}
  \cup {Unloadable(One, DataLen(One) - n, dev) : n \in {1, 4, 5, 12}}
  \cup {Unloadable(ReplaceTensor(5, [One[5] EXCEPT !.shape = <<2, 1>>, !.to = @ + 4]), DataLen(One), dev)}
  \cup {Unloadable(High(i), DataLen(One), dev) : i \in {1, 4}}
  \cup {Misaligned(dev)}
  \cup {[Base(dev) EXCEPT !.config = Config(Settings(1, FALSE)), !.settings = Settings(1, FALSE), !.loadable = FALSE]}

BadConfig(text) ==
  [Base("CPU") EXCEPT !.config = text, !.config_ok = FALSE, !.settings = Nothing, !.loadable = FALSE]

BadConfigs ==
  {BadConfig(SubSeq(TiedText, 1, n)) : n \in 0 .. Len(TiedText) - 1}
  \cup {BadConfig(Config([f \in ConfigFields \ {g} |-> Tied[f]])) : g \in ConfigFields}
  \cup {BadConfig(Object(<<Member(<<Word("sliding_window")>>, <<Word("null")>>)>> \o ConfigMembers(Tied))),
        BadConfig(Object(ConfigMembers([f \in ConfigFields \ {"hidden_size"} |-> Tied[f]])
                         \o <<Member(<<Word("hidden_size")>>, Str(Num(4)))>>)),
        BadConfig(Str(<<Word("config")>>))}

MCDoc == Good \cup BadHeaders \cup BadConfigs \cup UNION {Unusable(dev) : dev \in Devices}
=============================================================================
