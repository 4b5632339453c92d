----------------------------- MODULE WeightFile -----------------------------
(***************************************************************************)
(* What the loader makes of a model's two files: weight_io.cpp for the     *)
(* safetensors header, qwen2_config.cpp for config.json.                   *)
(*                                                                         *)
(* A file is its length, the number in its first eight bytes, and the      *)
(* symbols after them, header and data, each of which counts as one byte.  *)
(***************************************************************************)
EXTENDS JsonScan, SequencesExt, TLC

DtypeSize(dtype) == IF dtype = "F32" THEN 4 ELSE 2

NBytes(shape, dtype) == Wrap(FoldLeft(LAMBDA n, d : n * d, 1, shape) * DtypeSize(dtype))

\* What the value of a key is set to, in a table that may have the key or not.
Put(table, key, val) == [k \in DOMAIN table \cup {key} |-> IF k = key THEN val ELSE table[k]]

Missing == <<>>
NoTensor == [dtype |-> Missing, shape |-> Missing, offsets |-> Missing]

\* One field of a descriptor.  What was read is kept as <<value>>.
DescriptorField(text, d, field, p) ==
  CASE field = <<Word("dtype")>> ->
         AndThen(ReadString(text, p), LAMBDA s :
           IF s.val \in {<<Word("F32")>>, <<Word("BF16")>>}
           THEN Read(s.p, [d EXCEPT !.dtype = <<s.val[1].name>>]) ELSE Thrown)
    [] field = <<Word("shape")>> ->
         AndThen(ReadIntArray(text, p), LAMBDA a : Read(a.p, [d EXCEPT !.shape = <<a.val>>]))
    [] field = <<Word("data_offsets")>> ->
         AndThen(ReadIntArray(text, p), LAMBDA a :
           IF Len(a.val) = 2 THEN Read(a.p, [d EXCEPT !.offsets = <<a.val>>]) ELSE Thrown)
    [] OTHER -> Thrown

\* Mutant: the offset is left relative to the data.
TensorMetaRelative(text, d) ==
  [offset |-> d.offsets[1][1], shape |-> d.shape[1], dtype |-> d.dtype[1]]

\* A tensor's place in the file: after the eight bytes, the header, and the
\* data before it.
TensorMeta(text, d) ==
  [offset |-> Wrap(8 + Len(text) + d.offsets[1][1]), shape |-> d.shape[1], dtype |-> d.dtype[1]]

\* A descriptor, which must be complete and whose span must be that of its shape.
Descriptor(text, p) ==
  LET Complete(d) == d.dtype # Missing /\ d.shape # Missing /\ d.offsets # Missing
      Span(d) == Wrap(d.offsets[1][2] - d.offsets[1][1])
  IN  IF Kind(text, p) # "{" THEN Thrown
      ELSE AndThen(ReadMembers(text, p + 1, NoTensor, LAMBDA d, field, q : DescriptorField(text, d, field, q)),
             LAMBDA r : IF Complete(r.val) /\ NBytes(r.val.shape[1], r.val.dtype[1]) = Span(r.val)
                        THEN Read(r.p, TensorMeta(text, r.val)) ELSE Thrown)

HeaderMember(text, meta, key, p) ==
  IF key = <<Word("__metadata__")>>
  THEN AndThen(SkipObject(text, p), LAMBDA r : Read(r.p, meta))
  ELSE AndThen(Descriptor(text, p), LAMBDA r : Read(r.p, Put(meta, key, r.val)))

\* Mutant: the length in the file is believed.
ParseHeaderTrusting(file) ==
  LET text == SubSeq(file.rest, 1, Min({file.header_len, Len(file.rest)}))
      p    == SkipWs(text, 1)
  IN  IF file.length < 8 \/ Kind(text, p) # "{" THEN Thrown
      ELSE ReadMembers(text, p + 1, <<>>, LAMBDA meta, key, q : HeaderMember(text, meta, key, q))

\* parse_safetensors_header: from tensor names to offset, shape and dtype.
ParseHeader(file) ==
  LET text == SubSeq(file.rest, 1, file.header_len)
      p    == SkipWs(text, 1)
  IN  IF file.length < 8 \/ file.header_len > file.length - 8 \/ Kind(text, p) # "{" THEN Thrown
      ELSE ReadMembers(text, p + 1, <<>>, LAMBDA meta, key, q : HeaderMember(text, meta, key, q))

\* Mutant: the end of the view is computed and compared, and may wrap.
ViewFitsAdding(length, m) ==
  /\ m.offset % DtypeSize(m.dtype) = 0
  /\ Wrap(m.offset + NBytes(m.shape, m.dtype)) <= length

\* make_weight_view's tests.
ViewFits(length, m) ==
  /\ m.offset % DtypeSize(m.dtype) = 0
  /\ m.offset <= length
  /\ NBytes(m.shape, m.dtype) <= length - m.offset

-----------------------------------------------------------------------------
Integral == {"hidden_size", "num_attention_heads", "num_key_value_heads", "num_hidden_layers",
             "intermediate_size", "max_position_embeddings", "vocab_size"}
Numbers == Integral \cup {"rms_norm_eps", "rope_theta"}
ConfigFields == Numbers \cup {"tie_word_embeddings"}

\* A value the configuration has no use for: by what it begins with.
SkipValue(text, p) ==
  CASE Kind(text, p) = "[" -> SkipArray(text, p)
    [] Kind(text, p) = "{" -> SkipObject(text, p)
    [] Kind(text, p) = "quote" -> ReadString(text, p)
    [] Kind(text, p) \in {"uint", "number"} -> ReadNumber(text, p)
    [] OTHER -> ReadBool(text, p)

\* The casts to int64_t cut off what is beyond the whole part.
ConfigMember(text, cfg, key, p) ==
  LET name == IF Len(key) = 1 THEN key[1].name ELSE ""
      Known(r) == Read(r.p, Put(cfg, name, r.val))
      Cast(r) == Read(r.p, Put(cfg, name, r.val.whole))
  IN  IF name \in Integral THEN AndThen(ReadNumber(text, p), Cast)
      ELSE IF name \in Numbers THEN AndThen(ReadNumber(text, p), Known)
      ELSE IF name = "tie_word_embeddings" THEN AndThen(ReadBool(text, p), Known)
      ELSE AndThen(SkipValue(text, p), LAMBDA r : Read(r.p, cfg))

Members(text, p) == ReadMembers(text, p, <<>>, LAMBDA cfg, key, q : ConfigMember(text, cfg, key, q))

\* Mutant: a field the file does not have is taken as zero.
ParseConfigLenient(text) ==
  LET p == SkipWs(text, 1)
  IN  IF Kind(text, p) # "{" THEN Thrown
      ELSE AndThen(Members(text, p + 1), LAMBDA c :
             Read(c.p, c.val @@ ("tie_word_embeddings" :> TRUE) @@ [f \in Numbers |-> 0]))

\* parse_config_json: every field must be there.
ParseConfig(text) ==
  LET p == SkipWs(text, 1)
  IN  IF Kind(text, p) # "{" THEN Thrown
      ELSE AndThen(Members(text, p + 1), LAMBDA c : IF DOMAIN c.val = ConfigFields THEN c ELSE Thrown)
=============================================================================
