---------------------------- MODULE WeightLoader ----------------------------
(***************************************************************************)
(* From two files to the weights of a model: parse_config_json, MMapFile   *)
(* with its UniqueFd, load_qwen2_weights, and the end of what they made.   *)
(*                                                                         *)
(* A tensor is a pointer and whether it owns what it points to: into the   *)
(* mapping, or to a buffer on the heap or the device.  Any system call or  *)
(* allocation may fail, and what an exception meets on its way out is      *)
(* destroyed.                                                              *)
(***************************************************************************)
EXTENDS WeightFile

CONSTANTS Doc,       \* the files a loader may meet
          Before, After   \* the layer's weights fetched before and after the fused one

ASSUME DocAssumption ==
  \A d \in Doc : d.dev \in {"CPU", "CUDA"} /\ d.file.length \in 0 .. 2 ^ WordSize - 1

\* gate and up are matrices: the fused tensor is sized by their first two
\* dimensions only (qwen2_model.cpp:194), and of another rank they do not fit it.
ASSUME FusedAssumption ==
  \A d \in Doc : \E header \in {ParseHeader(d.file)} :
    header.ok => \A key \in DOMAIN header.val :
      key # <<>> /\ Last(key) \in {Word("gate"), Word("up")} => Len(header.val[key].shape) = 2

\* A layer's weights are fields of its record (qwen2_model.h), none named like
\* another's or like a step of the plan.
ASSUME NamesAssumption ==
  /\ Before \in Seq(STRING) /\ After \in Seq(STRING)
  /\ (ToSet(Before) \cup ToSet(After))
       \cap {"embed", "lm_head", "norm", "gate", "up", "gate_up", "layer", "return"} = {}

VARIABLES
  doc,      \* the files, and what they were written to say
  step,     \* what the loader does next
  fd,       \* the file's descriptor
  mapped,   \* the file is mapped
  cfg,      \* the configuration read
  meta,     \* the header read
  heap,     \* the live buffers, with the spans of the file copied into them
  local,    \* the tensors of the function that runs, by name
  layers,   \* the layers done
  model,    \* the weights returned
  broken    \* history: something outside failed

vars == <<doc, step, fd, mapped, cfg, meta, heap, local, layers, model, broken>>

Nothing == <<>>
NullTensor == [at |-> "null", buf |-> 0, span |-> <<>>, owns |-> FALSE]

Init ==
  /\ doc \in Doc
  /\ step = "config" /\ fd = "none" /\ mapped = FALSE
  /\ cfg = Nothing /\ meta = Nothing
  /\ heap = <<>> /\ local = <<>> /\ layers = <<>> /\ model = Nothing
  /\ broken = FALSE

-----------------------------------------------------------------------------
(* The two files are opened.                                               *)

ReadConfig ==
  /\ step = "config"
  /\ \E c \in {ParseConfig(doc.config)} :
       /\ cfg'  = IF c.ok THEN c.val ELSE Nothing
       /\ step' = IF c.ok THEN "open" ELSE "thrown"
  /\ UNCHANGED <<doc, fd, mapped, meta, heap, local, layers, model, broken>>

Close(f) == IF f = "open" THEN "closed" ELSE "closed twice"

\* Mutant: the guard keeps the descriptor it gave away.
ReleaseKept(f) == [guard |-> f, fd |-> f]

\* The guard of the descriptor: release, and what its destructor does then.
Release(f) == [guard |-> "none", fd |-> f]
GuardEnds(guard, f) == IF guard = "none" THEN f ELSE Close(f)

OpenFile ==
  /\ step = "open"
  /\ \/ fd' = "open" /\ step' = "stat" /\ UNCHANGED broken
     \/ step' = "thrown" /\ broken' = TRUE /\ UNCHANGED fd
  /\ UNCHANGED <<doc, mapped, cfg, meta, heap, local, layers, model>>

\* Mutant: an empty file is mapped.
StatFileAny ==
  /\ step = "stat"
  /\ \/ step' = "mmap" /\ UNCHANGED <<fd, broken>>
     \/ step' = "thrown" /\ fd' = GuardEnds(fd, fd) /\ broken' = TRUE
  /\ UNCHANGED <<doc, mapped, cfg, meta, heap, local, layers, model>>

\* fstat fails, or the file is empty, or neither.
StatFile ==
  /\ step = "stat"
  /\ \/ doc.file.length > 0 /\ step' = "mmap" /\ UNCHANGED <<fd, broken>>
     \/ doc.file.length = 0 /\ step' = "thrown" /\ fd' = GuardEnds(fd, fd) /\ UNCHANGED broken
     \/ step' = "thrown" /\ fd' = GuardEnds(fd, fd) /\ broken' = TRUE
  /\ UNCHANGED <<doc, mapped, cfg, meta, heap, local, layers, model>>

MapFile ==
  /\ step = "mmap"
  /\ \/ mapped' = TRUE /\ step' = "close" /\ UNCHANGED <<fd, broken>>
     \/ step' = "thrown" /\ fd' = GuardEnds(fd, fd) /\ broken' = TRUE /\ UNCHANGED mapped
  /\ UNCHANGED <<doc, cfg, meta, heap, local, layers, model>>

\* The descriptor is closed by hand, and the mapping given up if that fails.
CloseFile ==
  /\ step = "close"
  /\ \E r \in {Release(fd)} : fd' = GuardEnds(r.guard, Close(r.fd))
  /\ \/ step' = "header" /\ UNCHANGED <<mapped, broken>>
     \/ step' = "thrown" /\ mapped' = FALSE /\ broken' = TRUE
  /\ UNCHANGED <<doc, cfg, meta, heap, local, layers, model>>

ReadHeader ==
  /\ step = "header"
  /\ \E h \in {ParseHeader(doc.file)} :
       /\ meta' = IF h.ok THEN h.val ELSE Nothing
       /\ step' = IF h.ok THEN "load" ELSE "thrown"
  /\ UNCHANGED <<doc, fd, mapped, cfg, heap, local, layers, model, broken>>

-----------------------------------------------------------------------------
(* Tensors.                                                                *)

NBytesOf(m) == NBytes(m.shape, m.dtype)
Span(m)     == <<[from |-> m.offset, n |-> NBytesOf(m)]>>
View(m)     == [at |-> "map", buf |-> 0, span |-> Span(m), owns |-> FALSE]
Owned(b)    == [at |-> "heap", buf |-> b, span |-> <<>>, owns |-> TRUE]
NewBuffer   == Min((1 .. Cardinality(DOMAIN heap) + 1) \ DOMAIN heap)

\* Mutant: the tied head owns the embedding's buffer as well.
BorrowedOwning(t) == t

\* The constructor from a pointer.
Borrowed(t) == [t EXCEPT !.owns = FALSE]

\* Mutant: the source keeps its pointer.
MovedKept(t) == t

\* What a move leaves in its source.
Moved(t) == NullTensor

Tensors(f) == {f[n] : n \in DOMAIN f}
AllLayers(ls) == UNION {Tensors(ls[i]) : i \in DOMAIN ls}

\* release() of a set of tensors.
Freed(tensors) ==
  LET gone == {t.buf : t \in {u \in tensors : u.owns /\ u.at = "heap"}}
  IN  [b \in DOMAIN heap \ gone |-> heap[b]]

-----------------------------------------------------------------------------
(* load_qwen2_weights.                                                     *)

Top   == <<"embed", "lm_head", "norm">>
Layer == Before \o <<"gate", "up", "gate_up">> \o After
Fetched == {"embed", "norm", "gate", "up"} \cup ToSet(Before) \cup ToSet(After)
Kept  == ToSet(Before) \cup ToSet(After) \cup {"gate_up"}

\* What is fetched or made next: the first that is not there yet.
Plan == IF Len(layers) < cfg["num_hidden_layers"] THEN Top \o Layer \o <<"layer">> ELSE Top \o <<"return">>
Next1 == Plan[Min({i \in DOMAIN Plan : Plan[i] \notin DOMAIN local})]

Key(name, layer) ==
  CASE name = "embed" -> <<Word("model.embed_tokens.weight")>>
    [] name = "norm"  -> <<Word("model.norm.weight")>>
    [] OTHER -> <<Symbol("word", "model.layers", layer), Word(name)>>

\* Everything built so far is destroyed.
Throw ==
  /\ step' = "thrown"
  /\ heap' = Freed(Tensors(local) \cup AllLayers(layers))
  /\ local' = <<>> /\ layers' = <<>>

Keep(name, t) == local' = Put(local, name, t)

\* A buffer with these bytes of the file in it, or no memory.
Allocate(name, span) ==
  \/ /\ Keep(name, Owned(NewBuffer))
     /\ heap' = Put(heap, NewBuffer, span)
     /\ UNCHANGED <<step, layers, broken>>
  \/ Throw /\ broken' = TRUE

\* get_weight_dev: gate and up stay views, the fusion copies from them.
Fetch(name) ==
  /\ step = "load" /\ Next1 = name
  /\ LET key == Key(name, Len(layers))
     IN  IF key \notin DOMAIN meta THEN Throw /\ UNCHANGED broken
         ELSE IF ~ViewFits(doc.file.length, meta[key]) THEN Throw /\ UNCHANGED broken
         ELSE IF doc.dev = "CPU" \/ name \in {"gate", "up"}
         THEN Keep(name, View(meta[key])) /\ UNCHANGED <<step, heap, layers, broken>>
         ELSE Allocate(name, Span(meta[key]))
  /\ UNCHANGED <<doc, fd, mapped, cfg, meta, model>>

\* The output layer is the embedding, or not supported.
TieHead ==
  /\ step = "load" /\ Next1 = "lm_head"
  /\ IF cfg["tie_word_embeddings"]
     THEN Keep("lm_head", Borrowed(local["embed"])) /\ UNCHANGED <<step, heap, layers>> ELSE Throw
  /\ UNCHANGED <<doc, fd, mapped, cfg, meta, model, broken>>

\* Mutant: up goes before gate.
FusedSwapped(gate, up) == up.span \o gate.span

Fused(gate, up) == gate.span \o up.span

Fuse ==
  /\ step = "load" /\ Next1 = "gate_up"
  /\ LET gate == meta[Key("gate", Len(layers))]
         up   == meta[Key("up", Len(layers))]
     IN  IF gate.shape # up.shape \/ gate.dtype # up.dtype
         THEN Throw /\ UNCHANGED broken
         ELSE Allocate("gate_up", Fused(local["gate"], local["up"]))
  /\ UNCHANGED <<doc, fd, mapped, cfg, meta, model>>

\* The layer's tensors are moved into the vector, and their scope ends.
FinishLayer ==
  /\ step = "load" /\ Next1 = "layer"
  /\ layers' = Append(layers, [n \in Kept |-> local[n]])
  /\ heap'   = Freed({Moved(local[n]) : n \in Kept} \cup {local["gate"], local["up"]})
  /\ local'  = [n \in ToSet(Top) |-> local[n]]
  /\ UNCHANGED <<doc, step, fd, mapped, cfg, meta, model, broken>>

Return ==
  /\ step = "load" /\ Next1 = "return"
  /\ step'  = "done"
  /\ model' = [top |-> local, layers |-> layers]
  /\ heap'  = Freed({Moved(t) : t \in Tensors(local) \cup AllLayers(layers)})
  /\ local' = <<>> /\ layers' = <<>>
  /\ UNCHANGED <<doc, fd, mapped, cfg, meta, broken>>

-----------------------------------------------------------------------------
(* The end.                                                                *)

DropModel ==
  /\ step = "done"
  /\ step'  = "dropped"
  /\ heap'  = Freed(Tensors(model.top) \cup AllLayers(model.layers))
  /\ model' = Nothing
  /\ UNCHANGED <<doc, fd, mapped, cfg, meta, local, layers, broken>>

\* The owner of a file outlives the views of it (tensor.h:25), which are
\* those of a model on the CPU.
Unmap ==
  /\ mapped /\ step \in {"thrown", "done", "dropped"}
  /\ step = "done" => doc.dev = "CUDA"
  /\ mapped' = FALSE
  /\ UNCHANGED <<doc, step, fd, cfg, meta, heap, local, layers, model, broken>>

Ended == step \in {"thrown", "dropped"} /\ ~mapped /\ UNCHANGED vars

Next ==
  \/ ReadConfig \/ OpenFile \/ StatFile \/ MapFile \/ CloseFile \/ ReadHeader
  \/ \E name \in Fetched : Fetch(name)
  \/ TieHead \/ Fuse \/ FinishLayer \/ Return \/ DropModel \/ Unmap \/ Ended

Spec == Init /\ [][Next]_vars

-----------------------------------------------------------------------------
(* Properties.                                                             *)

Loading == {"load", "done", "dropped"}

\* Every tensor there is, by where it is kept, its layer and its name.
Slots ==
  {<<"local", Len(layers), n>> : n \in DOMAIN local}
  \cup {<<"layers", i - 1, n>> : i \in DOMAIN layers, n \in Kept}
  \cup (IF step # "done" THEN {}
        ELSE {<<"top", 0, n>> : n \in DOMAIN model.top}
             \cup {<<"model", i - 1, n>> : i \in DOMAIN model.layers, n \in Kept})

At(slot) ==
  CASE slot[1] = "local"  -> local[slot[3]]
    [] slot[1] = "layers" -> layers[slot[2] + 1][slot[3]]
    [] slot[1] = "top"    -> model.top[slot[3]]
    [] slot[1] = "model"  -> model.layers[slot[2] + 1][slot[3]]

\* The state has its types; only a file with something in it is mapped
\* (mmap_file.cpp:27).
TypeOK ==
  /\ step \in {"config", "open", "stat", "mmap", "close", "header", "load", "done", "dropped", "thrown"}
  /\ fd \in {"none", "open", "closed", "closed twice"}
  /\ mapped => doc.file.length > 0
  /\ DOMAIN local \subseteq ToSet(Top) \cup ToSet(Layer)
  /\ \A s \in Slots : At(s).at \in {"map", "heap", "null"}

\* What the loader works with is what the files say: a text that is cut off,
\* malformed, escaped or at odds with itself is refused (weight_io.h:44-48), and
\* a well-formed one is read as it was meant.  A byte beyond ASCII counts as
\* any other here; what the headers promise of it is AsciiOnly.
FilesReadRight ==
  /\ step # "config" /\ cfg # Nothing => doc.config_ok /\ cfg = doc.settings
  /\ step \in Loading => doc.header_ok /\ meta = doc.says

\* No text with a byte beyond ASCII in a string is taken: it is "explicitly
\* rejected, not silently swallowed" (weight_io.h:47, json_scan.h:16,
\* qwen2_config.h:42).  The code does not keep it where char is signed.
AsciiOnly ==
  LET HasNonAscii(text) == \E i \in DOMAIN text : text[i].kind = "nonascii"
  IN  /\ step # "config" /\ cfg # Nothing => ~HasNonAscii(doc.config)
      /\ step \in Loading => ~HasNonAscii(SubSeq(doc.file.rest, 1, doc.file.header_len))


\* The bytes a weight must have: those the file keeps under its name, gate
\* before up in the fused one (qwen2_model.h, "cat ORDER").
Meant(name, layer) ==
  CASE name = "lm_head" -> Span(doc.says[Key("embed", 0)])
    [] name = "gate_up" -> Span(doc.says[Key("gate", layer)]) \o Span(doc.says[Key("up", layer)])
    [] OTHER -> Span(doc.says[Key(name, layer)])

\* Each weight shows the bytes of its own name, on both devices, in views,
\* copies, the fused tensor and the tied one.
WeightsAreTheirs ==
  \A s \in Slots :
    LET t == At(s) IN
      /\ t.at = "map" => t.span = Meant(s[3], s[2])
      /\ t.at = "heap" /\ t.buf \in DOMAIN heap => heap[t.buf] = Meant(s[3], s[2])

\* No view reaches beyond the file, whatever the numbers in the header and
\* however they wrap (weight_io.cpp:20-24).
ViewsInside ==
  \A s \in Slots : \A i \in DOMAIN At(s).span :
    At(s).span[i].from + At(s).span[i].n <= doc.file.length

\* What a weight shows is its own, and in the file: a view that fits by a sum
\* that wrapped shows neither.
ViewsRight == WeightsAreTheirs /\ ViewsInside

\* Every tensor points to memory that is there: a buffer not yet freed, or
\* the mapping; weights on the device outlive the file.
PointersLive ==
  \A s \in Slots :
    /\ At(s).at = "map"  => mapped
    /\ At(s).at = "heap" => At(s).buf \in DOMAIN heap

\* Every buffer has one owner to free it, through moves, sharing and
\* exceptions: none leaks and none is freed twice.
OneOwner ==
  \A b \in DOMAIN heap :
    Cardinality({s \in Slots : At(s).owns /\ At(s).buf = b}) = 1

\* The descriptor is closed once, on every way out of MMapFile's constructor.
DescriptorClosedOnce ==
  /\ fd # "closed twice"
  /\ step \notin {"stat", "mmap", "close"} => fd # "open"

\* All that is acquired has one owner while it lives, on every path: what a
\* tensor points to, what will free a buffer, and the descriptor.
OwnershipExact == TypeOK /\ PointersLive /\ OneOwner /\ DescriptorClosedOnce
=============================================================================
